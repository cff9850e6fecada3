----------------------------- MODULE Translation -----------------------------
(***************************************************************************)
(* The two table walkers of src/src/mmu.hpp, imem_req_seq and              *)
(* dmem_req_seq, over the TLB they share and the page tables in memory,    *)
(* while software changes the tables, switches satp and fences.            *)
(*                                                                         *)
(* Memory answers a request at once, so a walker that asks for an entry    *)
(* has it, but looks at it only at the next edge: stores of the other      *)
(* side's instructions come in between.  EXEC waits for a data access, so  *)
(* software acts only while the data side is idle; whatever changes satp,  *)
(* the privilege or the mappings flushes, which makes both walkers give    *)
(* up.  Accesses that are not translated do not come here.                 *)
(***************************************************************************)
EXTENDS Tlb

CONSTANTS
    FirstTables, \* the page tables software may start with
    Stores       \* what it stores later: place and entry

VARIABLES
    mem, satp,
    tlb,
    walker,      \* i_state, d_state and the registers that go with them
    seen         \* history: entries each place held since the last fence

vars == <<mem, satp, tlb, walker, seen>>

NoReq == [op |-> "none"]
NoSatp == [asid |-> 0, root |-> 0]
NoPage == -1

Idle == [st |-> 0, req |-> NoReq, satp |-> NoSatp, pte |-> ResiduePte,
         fault |-> FALSE, page |-> NoPage]

\* The tag of an address space, (satp >> 20) & 0x1ff: the ASID, and below it
\* the two top bits of the root's page number.
AsidTag(c) == (4 * c.asid + c.root \div 1048576) % 512

\* Software tells its address spaces apart within the bits of the tag.
ASSUME TranslationAssumption ==
    /\ FirstTables \subseteq [Locs -> Ptes]
    /\ Stores \subseteq Locs \X Ptes
    /\ \A c, d \in Satps : AsidTag(c) = AsidTag(d) => c = d

(***************************************************************************)
(* _i_page_fault and _d_page_fault for a leaf.                             *)
(***************************************************************************)
IDenied(r, p) ==
    \/ "X" \notin p.flags \/ "A" \notin p.flags
    \/ r.priv = "S" /\ "U" \in p.flags
    \/ r.priv = "U" /\ "U" \notin p.flags
    \/ "W" \in p.flags /\ "R" \notin p.flags

\* d_op is 1 for loads and for LR, 2 for stores, SC and AMOs.
DOpDenied(r, p) ==
    IF r.op \in {"load", "lr"}
    THEN "R" \notin p.flags /\ (~r.mxr \/ "W" \notin p.flags)
    ELSE "W" \notin p.flags

DDenied(r, p) ==
    \/ DOpDenied(r, p)
    \/ r.op \in {"store", "lr", "amo"} /\ ("D" \notin p.flags \/ "A" \notin p.flags)
    \/ r.op = "load" /\ "A" \notin p.flags
    \/ r.priv = "S" /\ "U" \in p.flags /\ ~r.sum
    \/ r.priv = "U" /\ "U" \notin p.flags
    \/ "W" \in p.flags /\ "R" \notin p.flags

Denied(r, p) == IF r.op = "fetch" THEN IDenied(r, p) ELSE DDenied(r, p)

(***************************************************************************)
(* The walkers.  A page fault sends the data side back to state 0 and      *)
(* leaves the instruction side in the state it was in.                     *)
(***************************************************************************)
Answered(w) == w.st = 3 \/ w.fault

Refuse(s, r) ==
    [st |-> IF s = "D" THEN 0 ELSE walker[s].st, req |-> r, satp |-> NoSatp,
     pte |-> ResiduePte, fault |-> TRUE, page |-> NoPage]

Grant(r, p, mega) ==
    [st |-> 3, req |-> r, satp |-> NoSatp,
     pte |-> ResiduePte, fault |-> FALSE, page |-> Page(p, r.vpn, mega)]

Descend(level, r, c, loc) ==
    [st |-> level, req |-> r, satp |-> c,
     pte |-> mem[loc], fault |-> FALSE, page |-> NoPage]

\* The data side is idle until EXEC asks; the instruction side goes on to
\* the next fetch as soon as it answered.
Ready(s) == walker[s] = Idle \/ (s = "I" /\ Answered(walker[s]))

Start(s, r) ==
    LET f == Find(tlb, AsidTag(satp), r.vpn) IN
    /\ Ready(s) /\ SideOf(r) = s
    /\ tlb' = AfterFind(tlb, AsidTag(satp), r.vpn)
    /\ walker' = [walker EXCEPT ![s] =
          IF "V" \notin f.pte.flags THEN Descend(1, r, satp, <<satp.root, r.vpn.hi>>)
          ELSE IF Denied(r, f.pte) THEN Refuse(s, r)
          ELSE Grant(r, f.pte, f.mega)]
    /\ UNCHANGED <<mem, satp, seen>>

\* Slip: the alignment of a megapage is not checked.
SlipFirstLevelFault(r, p) == "V" \notin p.flags \/ (~Bare(p) /\ Denied(r, p))

\* A page fault of the first level: an entry that is more than a pointer is
\* taken for a leaf.
FirstLevelFault(r, p) ==
    "V" \notin p.flags \/ (~Bare(p) /\ (p.ppn % Fan # 0 \/ Denied(r, p)))

WalkFirst(s) ==
    LET w == walker[s] IN
    /\ w.st = 1 /\ ~w.fault
    /\ IF FirstLevelFault(w.req, w.pte)
       THEN walker' = [walker EXCEPT ![s] = Refuse(s, w.req)] /\ UNCHANGED tlb
       ELSE IF IsLeaf(w.pte)
       THEN /\ walker' = [walker EXCEPT ![s] = Grant(w.req, w.pte, TRUE)]
            /\ tlb' = AfterStore(tlb, AsidTag(w.satp), w.req.vpn, w.pte, TRUE)
       ELSE /\ walker' = [walker EXCEPT ![s] =
                   Descend(2, w.req, w.satp, <<w.pte.ppn, w.req.vpn.lo>>)]
            /\ UNCHANGED tlb
    /\ UNCHANGED <<mem, satp, seen>>

WalkSecond(s) ==
    LET w == walker[s] IN
    /\ w.st = 2 /\ ~w.fault
    /\ IF "V" \notin w.pte.flags \/ Denied(w.req, w.pte)
       THEN walker' = [walker EXCEPT ![s] = Refuse(s, w.req)] /\ UNCHANGED tlb
       ELSE /\ walker' = [walker EXCEPT ![s] = Grant(w.req, w.pte, FALSE)]
            /\ tlb' = AfterStore(tlb, AsidTag(w.satp), w.req.vpn, w.pte, FALSE)
    /\ UNCHANGED <<mem, satp, seen>>

\* The access of state 3 is over, or EXEC has taken the fault.
Done ==
    /\ Answered(walker["D"])
    /\ walker' = [walker EXCEPT !["D"] = Idle]
    /\ UNCHANGED <<mem, satp, tlb, seen>>

\* Slip: a flush leaves the instruction side's walk alone.
SlipGiveUp == walker' = [walker EXCEPT !["D"] = Idle]

GiveUp == walker' = [s \in Sides |-> Idle]

\* A trap, a return, FENCE.I, a denied read of a page table.
Flush == GiveUp /\ UNCHANGED <<mem, satp, tlb, seen>>

(***************************************************************************)
(* Software.                                                               *)
(***************************************************************************)
StoreEntry(l, p) ==
    /\ walker["D"] = Idle
    /\ mem' = [mem EXCEPT ![l] = p]
    /\ seen' = [seen EXCEPT ![l] = @ \cup {p}]
    /\ UNCHANGED <<satp, tlb, walker>>

\* A write of satp flushes the pipeline and keeps the TLB.
WriteSatp(c) ==
    /\ walker["D"] = Idle
    /\ satp' = c
    /\ GiveUp
    /\ UNCHANGED <<mem, tlb, seen>>

\* SFENCE.VMA rs1, rs2 hands the values of its registers to flush().
SfenceVma(rs1, rs2) ==
    /\ walker["D"] = Idle
    /\ tlb' = AfterFlush(tlb, rs2, rs1)
    /\ GiveUp
    /\ UNCHANGED <<mem, satp>>

FenceAll == SfenceVma(0, 0) /\ seen' = [l \in Locs |-> {mem[l]}]

\* The fence of one page, which promises something about that page only.
PageBytes == 4096
FencePage(vpn) == SfenceVma(VpnNumber(vpn) * PageBytes, 0) /\ UNCHANGED seen

Init ==
    /\ mem \in FirstTables
    /\ satp \in Satps
    /\ tlb = [i \in Slots |-> InvalidEntry]
    /\ walker = [s \in Sides |-> Idle]
    /\ seen = [l \in Locs |-> {mem[l]}]

Next ==
    \/ \E s \in Sides : (\E r \in Reqs : Start(s, r)) \/ WalkFirst(s) \/ WalkSecond(s)
    \/ Done \/ Flush
    \/ \E x \in Stores : StoreEntry(x[1], x[2])
    \/ \E c \in Satps : WriteSatp(c)
    \/ FenceAll

Spec == Init /\ [][Next]_vars

\* The same with software that fences single pages.
PageFenceSpec == Init /\ [][Next \/ \E v \in Vpns : FencePage(v)]_vars

(***************************************************************************)
(* What translation promises.                                              *)
(***************************************************************************)
QuietPort == [req |-> NoReq, st |-> "idle", page |-> NoPage]

PortOf(w) ==
    IF w = Idle THEN QuietPort
    ELSE [req |-> w.req, page |-> w.page,
          st |-> IF w.fault THEN "refused" ELSE IF w.st = 3 THEN "granted" ELSE "walk"]

Abs == INSTANCE Sv32 WITH port <- [s \in Sides |-> PortOf(walker[s])]

\* Every access is granted a page, or refused, as page-table entries say that
\* memory has held since the last full SFENCE.VMA: the shared TLB, walks cut
\* off by flushes and stores that overtake a walk never make it otherwise.
RefinesSv32 == Abs!Sv32Spec

\* Whatever page an entry of the TLB answers for, its pte is one that a walk
\* for that page in that address space could have found since the last full
\* fence, and a megapage is aligned.
NoStaleEntry ==
    \A i \in Slots, v \in Vpns :
        LET e == tlb[i] IN
        (e.valid /\ e.vpn.hi = v.hi /\ (e.mega \/ e.vpn.lo = v.lo)) =>
            /\ e.mega => e.pte.ppn % Fan = 0
            /\ \E c \in Satps : AsidTag(c) = e.asid /\ Abs!Mapped(c, v, e.pte, e.mega)

\* Types of the page tables, the TLB and the walkers.
TypeOK ==
    /\ mem \in [Locs -> Ptes] /\ seen \in [Locs -> SUBSET Ptes]
    /\ satp \in Satps
    /\ tlb \in [Slots -> Entries]
    /\ walker \in [Sides -> [st : 0 .. 3, req : Reqs \cup {NoReq}, satp : Satps \cup {NoSatp},
                             pte : Ptes, fault : BOOLEAN, page : Nat \cup {NoPage}]]

\* A walk under way belongs to the current address space, and the entry it
\* holds is one that memory held, at the place the walk is at, since the
\* last fence.
WalkInv ==
    \A s \in Sides :
        LET w == walker[s]
            root == <<w.satp.root, w.req.vpn.hi>>
        IN (w.st \in {1, 2} /\ ~w.fault) =>
            /\ w.req \in Reqs /\ w.satp = satp
            /\ w.st = 1 => w.pte \in seen[root]
            /\ w.st = 2 => \E q \in seen[root] : Bare(q) /\ w.pte \in seen[<<q.ppn, w.req.vpn.lo>>]

\* The inductive invariant: what memory holds now counts as held.
TransInv == TypeOK /\ NoStaleEntry /\ WalkInv /\ \A l \in Locs : mem[l] \in seen[l]

\* SFENCE.VMA of an address leaves no entry in the TLB that translates it.
PageFenceWorks ==
    [][\A v \in Vpns : FencePage(v) =>
           \A i \in Slots, c \in Satps : ~Hits(tlb'[i], AsidTag(c), v)]_vars
=============================================================================
