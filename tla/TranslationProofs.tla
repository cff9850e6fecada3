------------------------- MODULE TranslationProofs -------------------------
(***************************************************************************)
(* Proofs about Translation: for any page tables, any size of the TLB and  *)
(* any address spaces that the tag tells apart, translation implements     *)
(* Sv32, because no entry of the TLB is older than the last fence.         *)
(***************************************************************************)
EXTENDS Translation, TLAPS, WellFoundedInduction

USE DEF Sides

\* What the constants are, without the reasons.
LEMMA Constants ==
    /\ Fan \in Nat \ {0} /\ TlbSize \in Nat \ {0} /\ 0 \in Slots
    /\ ResiduePte \in Ptes /\ "V" \notin ResiduePte.flags
    /\ \A p \in Ptes : p.flags \in SUBSET Flags /\ p.ppn \in Nat
    /\ \A r \in Reqs : r.op \in Ops /\ r.priv \in {"S", "U"} /\ r.sum \in BOOLEAN
                         /\ r.mxr \in BOOLEAN /\ r.vpn \in Vpns
    /\ \A c \in Satps : c.root \in Tables /\ c.asid \in Nat
    /\ \A v \in Vpns : v.hi \in 0 .. Fan - 1 /\ v.lo \in 0 .. Fan - 1
BY PageTableAssumption, TlbAssumption DEF Slots, Vpns

\* The tag of an address space is a number, whatever its fields.
LEMMA TagType == \A c \in Satps : AsidTag(c) \in Nat
<1> SUFFICES ASSUME NEW c \in Satps PROVE AsidTag(c) \in Nat
  OBVIOUS
<1>1. c.asid \in Nat /\ c.root \in Nat
  BY PageTableAssumption
<1> QED BY <1>1, SMT DEF AsidTag

(***************************************************************************)
(* The TLB.                                                                *)
(***************************************************************************)
\* FirstOf finds a slot whenever there is one.
LEMMA FirstOfMember ==
    ASSUME NEW S \in SUBSET Nat, S # {} PROVE FirstOf(S) \in S
<1> DEFINE R == {ss \in Nat \X Nat : ss[1] < ss[2]}
<1>1. IsWellFoundedOn(R, Nat)
  BY NatLessThanWellFounded DEF OpToRel
<1>2. PICK x \in S : \A y \in S : ~(<<y, x>> \in R)
  <2> HIDE DEF R
  <2> QED BY <1>1, WFMin
<1>3. \A y \in S : x <= y
  <2> SUFFICES ASSUME NEW y \in S PROVE x <= y
    OBVIOUS
  <2>1. x \in Nat /\ y \in Nat /\ <<y, x>> \notin R
    BY <1>2
  <2>2. <<y, x>> \in Nat \X Nat /\ <<y, x>>[1] = y /\ <<y, x>>[2] = x
    BY <2>1
  <2> QED BY <2>1, <2>2
<1> QED BY <1>3 DEF FirstOf

\* find() only moves entries, and answers with one of them or with a pte
\* that is not valid.
LEMMA FindMoves ==
    ASSUME NEW t \in [Slots -> Entries], NEW asid, NEW vpn
    PROVE  /\ AfterFind(t, asid, vpn) \in [Slots -> Entries]
           /\ \A i \in Slots : \E j \in Slots : AfterFind(t, asid, vpn)[i] = t[j]
<1> DEFINE found == HitSlots(t, asid, vpn)
           k == FirstOf(found)
<1>1. CASE found = {}
  BY <1>1 DEF AfterFind
<1>2. CASE found # {}
  <2>1. k \in Slots
    BY <1>2, FirstOfMember DEF HitSlots, Slots
  <2>2. AfterFind(t, asid, vpn) = [t EXCEPT ![k] = t[0], ![0] = t[k]]
    BY <1>2 DEF AfterFind
  <2> HIDE DEF k
  <2> QED BY <2>1, <2>2, Constants
<1> QED BY <1>1, <1>2

LEMMA FindAnswers ==
    ASSUME NEW t \in [Slots -> Entries], NEW asid, NEW vpn,
           "V" \in Find(t, asid, vpn).pte.flags
    PROVE  \E i \in Slots : /\ Hits(t[i], asid, vpn)
                            /\ Find(t, asid, vpn) = [pte |-> t[i].pte, mega |-> t[i].mega]
<1> DEFINE found == HitSlots(t, asid, vpn)
           k == FirstOf(found)
<1>1. found # {}
  BY Constants DEF Find
<1>2. k \in found /\ found \subseteq Slots
  <2>1. found \in SUBSET Nat /\ found \subseteq Slots
    BY DEF HitSlots, Slots
  <2> HIDE DEF found
  <2> QED BY <1>1, <2>1, FirstOfMember
<1>3. Find(t, asid, vpn) = [pte |-> t[k].pte, mega |-> t[k].mega]
  BY <1>1 DEF Find
<1>4. Hits(t[k], asid, vpn)
  BY <1>2 DEF HitSlots
<1> QED BY <1>2, <1>3, <1>4

LEMMA FindType ==
    ASSUME NEW t \in [Slots -> Entries], NEW asid, NEW vpn
    PROVE  Find(t, asid, vpn).pte \in Ptes /\ Find(t, asid, vpn).mega \in BOOLEAN
<1> DEFINE found == HitSlots(t, asid, vpn)
           k == FirstOf(found)
<1>1. CASE found = {}
  BY <1>1, Constants DEF Find
<1>2. CASE found # {}
  <2>1. k \in Slots
    BY <1>2, FirstOfMember DEF HitSlots, Slots
  <2>2. Find(t, asid, vpn) = [pte |-> t[k].pte, mega |-> t[k].mega]
    BY <1>2 DEF Find
  <2> HIDE DEF k
  <2>3. t[k].pte \in Ptes /\ t[k].mega \in BOOLEAN
    BY <2>1 DEF Entries
  <2> QED BY <2>2, <2>3
<1> QED BY <1>1, <1>2

\* store() adds one entry and otherwise moves and drops.
NewEntry(asid, vpn, pte, mega) ==
    [valid |-> TRUE, asid |-> asid, vpn |-> Tag(vpn, mega), pte |-> pte, mega |-> mega]

LEMMA StoreMoves ==
    ASSUME NEW t \in [Slots -> Entries], NEW asid \in Nat, NEW vpn \in Vpns,
           NEW pte \in Ptes, NEW mega \in BOOLEAN
    PROVE  LET u == AfterStore(t, asid, vpn, pte, mega) IN
           /\ u \in [Slots -> Entries]
           /\ \A i \in Slots : \/ u[i] = NewEntry(asid, vpn, pte, mega)
                               \/ \E j \in Slots : u[i] = t[j]
<1> DEFINE e == NewEntry(asid, vpn, pte, mega)
           R == {i \in Slots : Replaceable(t[i], asid, e.vpn)}
           k == IF R = {} THEN TlbSize - 1 ELSE FirstOf(R)
           u == AfterStore(t, asid, vpn, pte, mega)
<1>1. Tag(vpn, mega) \in Vpns
  BY Constants DEF Tag, Vpns
<1>2. e \in Entries
  BY <1>1 DEF NewEntry, Entries
<1>3. k \in Slots
  <2>1. R \in SUBSET Nat /\ R \subseteq Slots /\ TlbSize - 1 \in Slots
    BY Constants DEF Slots
  <2> HIDE DEF R
  <2>2. R # {} => FirstOf(R) \in R
    BY <2>1, FirstOfMember
  <2> QED BY <2>1, <2>2
<1>4. u = [i \in Slots |-> IF i = 0 THEN e ELSE IF i <= k THEN t[i - 1] ELSE t[i]]
  BY DEF AfterStore, NewEntry
<1>5. \A i \in Slots : i # 0 => i - 1 \in Slots
  BY Constants DEF Slots
<1> HIDE DEF k, e
<1>6. \A i \in Slots : u[i] = e \/ \E j \in Slots : u[i] = t[j]
  BY <1>4, <1>5
<1>7. u \in [Slots -> Entries]
  BY <1>2, <1>4, <1>6
<1> QED BY <1>6, <1>7 DEF e

(***************************************************************************)
(* The inductive invariant, with what it says of an entry and of a walker  *)
(* as predicates of their own.                                             *)
(***************************************************************************)
MappedIn(sn, c, v, p, mega) ==
    /\ "V" \in p.flags
    /\ IF mega THEN p \in sn[<<c.root, v.hi>>] /\ IsLeaf(p)
       ELSE \E q \in sn[<<c.root, v.hi>>] : Bare(q) /\ p \in sn[<<q.ppn, v.lo>>]

Covers(e, v) == e.valid /\ e.vpn.hi = v.hi /\ (e.mega \/ e.vpn.lo = v.lo)

Fresh(e, sn) ==
    \A v \in Vpns : Covers(e, v) =>
        /\ e.mega => e.pte.ppn % Fan = 0
        /\ \E c \in Satps : AsidTag(c) = e.asid /\ MappedIn(sn, c, v, e.pte, e.mega)

WalkOk(w, c, sn) ==
    (w.st \in {1, 2} /\ ~w.fault) =>
        /\ w.req \in Reqs /\ w.satp = c
        /\ w.st = 1 => w.pte \in sn[<<c.root, w.req.vpn.hi>>]
        /\ w.st = 2 => \E q \in sn[<<c.root, w.req.vpn.hi>>] :
                          Bare(q) /\ w.pte \in sn[<<q.ppn, w.req.vpn.lo>>]

WalkerType ==
    [st : 0 .. 3, req : Reqs \cup {NoReq}, satp : Satps \cup {NoSatp},
     pte : Ptes, fault : BOOLEAN, page : Nat \cup {NoPage}]

TablesInv ==
    /\ mem \in [Locs -> Ptes] /\ seen \in [Locs -> SUBSET Ptes] /\ satp \in Satps
    /\ \A l \in Locs : mem[l] \in seen[l]
TlbInv == tlb \in [Slots -> Entries] /\ \A i \in Slots : Fresh(tlb[i], seen)
WalkersInv ==
    walker \in [Sides -> WalkerType] /\ \A s \in Sides : WalkOk(walker[s], satp, seen)
Inv == TablesInv /\ TlbInv /\ WalkersInv

\* The first-level place of a page is one of memory's, and so is the
\* second-level place below a pointer.
LEMMA Places ==
    ASSUME NEW c \in Satps, NEW v \in Vpns
    PROVE  /\ <<c.root, v.hi>> \in Locs
           /\ \A q \in Ptes : Bare(q) => <<q.ppn, v.lo>> \in Locs
BY PageTableAssumption, Constants DEF Locs

\* Sv32 reads page tables as the walkers do.
LEMMA SameTables ==
    /\ \A p : (Abs!IsLeaf(p) <=> IsLeaf(p)) /\ (Abs!Bare(p) <=> Bare(p))
    /\ \A p, v, mega : Abs!Page(p, v, mega) = Page(p, v, mega)
    /\ Abs!Quiet = QuietPort /\ Abs!NoPage = NoPage /\ Abs!Locs = Locs
BY DEF Abs!IsLeaf, IsLeaf, Abs!Bare, Bare, Abs!Page, Page, Abs!Quiet, QuietPort,
       Abs!NoPage, NoPage, Abs!NoReq, NoReq, Abs!Locs, Locs

\* Sv32's Mapped, on the entries seen so far.
LEMMA MappedIs ==
    ASSUME TablesInv, NEW c \in Satps, NEW v \in Vpns, NEW p \in Ptes, NEW mega \in BOOLEAN
    PROVE  Abs!Mapped(c, v, p, mega) <=> MappedIn(seen, c, v, p, mega)
<1>1. CASE mega
  BY <1>1, SameTables DEF Abs!Mapped, Abs!MegaLeaves, MappedIn
<1>2. CASE ~mega
  BY <1>2, SameTables DEF Abs!Mapped, Abs!PageLeaves, MappedIn
<1> QED BY <1>1, <1>2

LEMMA InvImplies == Inv => TransInv
<1> SUFFICES ASSUME Inv PROVE TransInv
  OBVIOUS
<1>1. TypeOK /\ \A l \in Locs : mem[l] \in seen[l]
  BY DEF Inv, TablesInv, TlbInv, WalkersInv, TypeOK, WalkerType
<1>2. NoStaleEntry
  <2> SUFFICES ASSUME NEW i \in Slots, NEW v \in Vpns, Covers(tlb[i], v)
               PROVE  /\ tlb[i].mega => tlb[i].pte.ppn % Fan = 0
                      /\ \E c \in Satps : /\ AsidTag(c) = tlb[i].asid
                                          /\ Abs!Mapped(c, v, tlb[i].pte, tlb[i].mega)
    BY DEF NoStaleEntry, Covers
  <2>1. tlb[i].pte \in Ptes /\ tlb[i].mega \in BOOLEAN
    BY DEF Inv, TlbInv, Entries
  <2>2. /\ tlb[i].mega => tlb[i].pte.ppn % Fan = 0
        /\ \E c \in Satps : /\ AsidTag(c) = tlb[i].asid
                            /\ MappedIn(seen, c, v, tlb[i].pte, tlb[i].mega)
    BY DEF Inv, TlbInv, Fresh
  <2> QED BY <2>1, <2>2, MappedIs DEF Inv
<1>3. WalkInv
  BY DEF Inv, WalkersInv, WalkInv, WalkOk
<1> QED BY <1>1, <1>2, <1>3 DEF TransInv

(***************************************************************************)
(* What the walkers put in their registers.                                *)
(***************************************************************************)
LEMMA IdleOk ==
    ASSUME NEW c, NEW sn PROVE Idle \in WalkerType /\ WalkOk(Idle, c, sn)
BY Constants DEF Idle, WalkerType, WalkOk

LEMMA RefuseOk ==
    ASSUME WalkersInv, NEW s \in Sides, NEW r \in Reqs, NEW c, NEW sn
    PROVE  Refuse(s, r) \in WalkerType /\ WalkOk(Refuse(s, r), c, sn)
<1>1. walker[s].st \in 0 .. 3
  BY DEF WalkersInv, WalkerType
<1>2. (IF s = "D" THEN 0 ELSE walker[s].st) \in 0 .. 3
  BY <1>1
<1> QED BY <1>2, Constants DEF Refuse, WalkerType, WalkOk

LEMMA GrantOk ==
    ASSUME NEW r \in Reqs, NEW p \in Ptes, NEW mega \in BOOLEAN, NEW c, NEW sn
    PROVE  Grant(r, p, mega) \in WalkerType /\ WalkOk(Grant(r, p, mega), c, sn)
<1>1. Page(p, r.vpn, mega) \in Nat
  BY Constants DEF Page
<1> QED BY <1>1, Constants DEF Grant, WalkerType, WalkOk

LEMMA DescendType ==
    ASSUME TablesInv, NEW r \in Reqs, NEW level \in {1, 2}, NEW loc \in Locs
    PROVE  Descend(level, r, satp, loc) \in WalkerType
<1>1. satp \in Satps /\ mem[loc] \in Ptes /\ level \in 0 .. 3
  BY DEF TablesInv
<1> QED BY <1>1 DEF Descend, WalkerType

\* An entry that is not refused is a leaf.
LEMMA AllowedIsLeaf ==
    ASSUME NEW r \in Reqs, NEW p \in Ptes, ~Denied(r, p) PROVE IsLeaf(p)
BY Constants DEF Denied, IDenied, DDenied, DOpDenied, IsLeaf

(***************************************************************************)
(* Every step keeps the invariant.                                         *)
(***************************************************************************)
\* A step of one walker keeps the other's part.
LEMMA OneWalker ==
    ASSUME WalkersInv, NEW s \in Sides, NEW x \in WalkerType,
           walker' = [walker EXCEPT ![s] = x], UNCHANGED <<satp, seen>>, WalkOk(x, satp, seen)
    PROVE  WalkersInv'
<1>1. walker' \in [Sides -> WalkerType]
  BY DEF WalkersInv
<1>2. \A t \in Sides : walker'[t] = x \/ walker'[t] = walker[t]
  BY DEF WalkersInv
<1>3. \A t \in Sides : WalkOk(walker'[t], satp, seen)
  BY <1>2 DEF WalkersInv
<1> QED BY <1>1, <1>3 DEF WalkersInv

\* Entries moved about stay fresh.
LEMMA TlbMoved ==
    ASSUME TlbInv, tlb' \in [Slots -> Entries], UNCHANGED seen,
           \A i \in Slots : Fresh(tlb'[i], seen) \/ \E j \in Slots : tlb'[i] = tlb[j]
    PROVE  TlbInv'
<1>1. \A i \in Slots : Fresh(tlb'[i], seen)
  BY DEF TlbInv
<1> QED BY <1>1 DEF TlbInv

LEMMA StartInv ==
    ASSUME Inv, NEW s \in Sides, NEW r \in Reqs, Start(s, r) PROVE Inv'
<1> DEFINE f == Find(tlb, AsidTag(satp), r.vpn)
           x == IF "V" \notin f.pte.flags THEN Descend(1, r, satp, <<satp.root, r.vpn.hi>>)
                ELSE IF Denied(r, f.pte) THEN Refuse(s, r)
                ELSE Grant(r, f.pte, f.mega)
           loc == <<satp.root, r.vpn.hi>>
<1>1. TablesInv /\ TlbInv /\ WalkersInv /\ UNCHANGED <<mem, satp, seen>>
  BY DEF Inv, Start
<1>2. TlbInv'
  <2>1. tlb \in [Slots -> Entries] /\ tlb' = AfterFind(tlb, AsidTag(satp), r.vpn)
    BY <1>1 DEF TlbInv, Start
  <2>2. tlb' \in [Slots -> Entries] /\ \A i \in Slots : \E j \in Slots : tlb'[i] = tlb[j]
    BY <2>1, FindMoves
  <2> QED BY <1>1, <2>2, TlbMoved
<1>3. walker' = [walker EXCEPT ![s] = x]
  BY DEF Start
<1>4. f.pte \in Ptes /\ f.mega \in BOOLEAN
  BY <1>1, FindType DEF TlbInv
<1>5. loc \in Locs /\ satp \in Satps /\ mem[loc] \in seen[loc]
  BY <1>1, Places, Constants DEF TablesInv
<1>6. x \in WalkerType /\ WalkOk(x, satp, seen)
  <2> HIDE DEF f
  <2>1. CASE x = Descend(1, r, satp, loc)
    <3>1. WalkOk(Descend(1, r, satp, loc), satp, seen)
      BY <1>5 DEF Descend, WalkOk
    <3>2. Descend(1, r, satp, loc) \in WalkerType
      BY <1>1, <1>5, DescendType
    <3> QED BY <2>1, <3>1, <3>2
  <2>2. CASE x = Refuse(s, r)
    BY <1>1, <2>2, RefuseOk
  <2>3. CASE x = Grant(r, f.pte, f.mega)
    BY <1>4, <2>3, GrantOk
  <2> QED BY <2>1, <2>2, <2>3
<1>7. WalkersInv'
  <2> HIDE DEF x
  <2> QED BY <1>1, <1>3, <1>6, OneWalker
<1>8. TablesInv'
  BY <1>1 DEF TablesInv
<1> QED BY <1>2, <1>7, <1>8 DEF Inv

\* What a walk that ends well stores is fresh.
LEMMA NewFresh ==
    ASSUME NEW c \in Satps, NEW r \in Reqs, NEW p \in Ptes, NEW mega \in BOOLEAN, NEW sn,
           mega => p.ppn % Fan = 0, MappedIn(sn, c, r.vpn, p, mega)
    PROVE  Fresh(NewEntry(AsidTag(c), r.vpn, p, mega), sn)
<1> DEFINE e == NewEntry(AsidTag(c), r.vpn, p, mega)
<1>1. e.mega = mega /\ e.pte = p /\ e.asid = AsidTag(c) /\ e.vpn = Tag(r.vpn, mega)
  BY DEF NewEntry
<1>2. Tag(r.vpn, mega).hi = r.vpn.hi /\ (~mega => Tag(r.vpn, mega).lo = r.vpn.lo)
  BY Constants DEF Tag, Vpns
<1> HIDE DEF e
<1> SUFFICES ASSUME NEW v \in Vpns, Covers(e, v)
             PROVE  /\ mega => p.ppn % Fan = 0
                    /\ AsidTag(c) = e.asid /\ MappedIn(sn, c, v, p, mega)
  BY <1>1 DEF Fresh, e
<1>3. v.hi = r.vpn.hi /\ (~mega => v.lo = r.vpn.lo)
  BY <1>1, <1>2 DEF Covers
<1> QED BY <1>1, <1>3 DEF MappedIn

\* A step in which a walker answers and stores what it found.
LEMMA WalkEnds ==
    ASSUME Inv, NEW s \in Sides, NEW r \in Reqs, NEW p \in Ptes, NEW mega \in BOOLEAN,
           walker' = [walker EXCEPT ![s] = Grant(r, p, mega)],
           tlb' = AfterStore(tlb, AsidTag(satp), r.vpn, p, mega),
           UNCHANGED <<mem, satp, seen>>,
           mega => p.ppn % Fan = 0, MappedIn(seen, satp, r.vpn, p, mega)
    PROVE  Inv'
<1>1. TablesInv /\ TlbInv /\ WalkersInv /\ satp \in Satps /\ r.vpn \in Vpns /\ AsidTag(satp) \in Nat
  BY TagType, Constants DEF Inv, TablesInv
<1>2. /\ tlb' \in [Slots -> Entries]
      /\ \A i \in Slots : \/ tlb'[i] = NewEntry(AsidTag(satp), r.vpn, p, mega)
                          \/ \E j \in Slots : tlb'[i] = tlb[j]
  BY <1>1, StoreMoves DEF TlbInv
<1>3. Fresh(NewEntry(AsidTag(satp), r.vpn, p, mega), seen)
  BY <1>1, NewFresh
<1>4. TlbInv'
  BY <1>1, <1>2, <1>3, TlbMoved
<1>5. WalkersInv'
  BY <1>1, GrantOk, OneWalker
<1>6. TablesInv'
  BY <1>1 DEF TablesInv
<1> QED BY <1>4, <1>5, <1>6 DEF Inv

LEMMA WalkRefused ==
    ASSUME Inv, NEW s \in Sides, NEW r \in Reqs,
           walker' = [walker EXCEPT ![s] = Refuse(s, r)], UNCHANGED <<mem, satp, seen, tlb>>
    PROVE  Inv'
<1>1. WalkersInv'
  BY RefuseOk, OneWalker DEF Inv
<1> QED BY <1>1 DEF Inv, TablesInv, TlbInv

\* What is known of a walker in its first and in its second state.
LEMMA AtFirst ==
    ASSUME Inv, NEW s \in Sides, walker[s].st = 1, ~walker[s].fault
    PROVE  LET w == walker[s] IN
           /\ w.req \in Reqs /\ w.satp = satp /\ satp \in Satps /\ w.pte \in Ptes
           /\ w.pte \in seen[<<satp.root, w.req.vpn.hi>>]
BY DEF Inv, WalkersInv, WalkOk, WalkerType, TablesInv

LEMMA AtSecond ==
    ASSUME Inv, NEW s \in Sides, walker[s].st = 2, ~walker[s].fault
    PROVE  LET w == walker[s] IN
           /\ w.req \in Reqs /\ w.satp = satp /\ satp \in Satps /\ w.pte \in Ptes
           /\ \E q \in seen[<<satp.root, w.req.vpn.hi>>] :
                 Bare(q) /\ w.pte \in seen[<<q.ppn, w.req.vpn.lo>>]
BY DEF Inv, WalkersInv, WalkOk, WalkerType, TablesInv

\* A first-level entry that is neither a fault nor a leaf is a pointer.
LEMMA PointerBelow ==
    ASSUME NEW r \in Reqs, NEW p \in Ptes, ~FirstLevelFault(r, p), ~IsLeaf(p)
    PROVE  Bare(p)
BY AllowedIsLeaf DEF FirstLevelFault

LEMMA LeafAligned ==
    ASSUME NEW r \in Reqs, NEW p \in Ptes, ~FirstLevelFault(r, p), IsLeaf(p)
    PROVE  "V" \in p.flags /\ p.ppn % Fan = 0 /\ ~Denied(r, p)
BY DEF FirstLevelFault, IsLeaf, Bare

LEMMA WalkFirstInv == ASSUME Inv, NEW s \in Sides, WalkFirst(s) PROVE Inv'
<1> DEFINE w == walker[s]
           loc == <<w.pte.ppn, w.req.vpn.lo>>
<1>1. /\ w.req \in Reqs /\ w.satp = satp /\ satp \in Satps /\ w.pte \in Ptes
      /\ w.pte \in seen[<<satp.root, w.req.vpn.hi>>]
  BY AtFirst DEF WalkFirst
<1>2. CASE FirstLevelFault(w.req, w.pte)
  <2>1. walker' = [walker EXCEPT ![s] = Refuse(s, w.req)] /\ UNCHANGED <<mem, satp, seen, tlb>>
    BY <1>2 DEF WalkFirst
  <2> QED BY <1>1, <2>1, WalkRefused
<1>3. CASE ~FirstLevelFault(w.req, w.pte) /\ IsLeaf(w.pte)
  <2>1. /\ walker' = [walker EXCEPT ![s] = Grant(w.req, w.pte, TRUE)]
        /\ tlb' = AfterStore(tlb, AsidTag(satp), w.req.vpn, w.pte, TRUE)
        /\ UNCHANGED <<mem, satp, seen>>
    BY <1>1, <1>3 DEF WalkFirst
  <2>2. w.pte.ppn % Fan = 0 /\ MappedIn(seen, satp, w.req.vpn, w.pte, TRUE)
    BY <1>1, <1>3, LeafAligned DEF MappedIn
  <2> HIDE DEF w
  <2> QED BY <1>1, <2>1, <2>2, WalkEnds
<1>4. CASE ~FirstLevelFault(w.req, w.pte) /\ ~IsLeaf(w.pte)
  <2>1. /\ walker' = [walker EXCEPT ![s] = Descend(2, w.req, satp, loc)]
        /\ UNCHANGED <<mem, satp, seen, tlb>>
    BY <1>1, <1>4 DEF WalkFirst
  <2>2. Bare(w.pte)
    BY <1>1, <1>4, PointerBelow
  <2>3. loc \in Locs
    BY <1>1, <2>2, Places, Constants
  <2>4. mem[loc] \in seen[loc] /\ TablesInv /\ WalkersInv
    BY <2>3 DEF Inv, TablesInv
  <2> HIDE DEF w
  <2>5. WalkOk(Descend(2, w.req, satp, loc), satp, seen)
    <3> DEFINE d == Descend(2, w.req, satp, loc)
    <3>1. d.st = 2 /\ d.req = w.req /\ d.satp = satp /\ d.pte = mem[loc]
      BY DEF Descend
    <3> HIDE DEF d
    <3>2. d.pte \in seen[<<w.pte.ppn, d.req.vpn.lo>>]
      BY <2>4, <3>1
    <3>3. w.pte \in seen[<<satp.root, d.req.vpn.hi>>] /\ d.req \in Reqs
      BY <1>1, <3>1
    <3>4. \E q \in seen[<<satp.root, d.req.vpn.hi>>] :
              Bare(q) /\ d.pte \in seen[<<q.ppn, d.req.vpn.lo>>]
      BY <2>2, <3>2, <3>3
    <3>5. d.st # 1
      BY <3>1
    <3>6. WalkOk(d, satp, seen)
      BY <3>1, <3>3, <3>4, <3>5 DEF WalkOk
    <3> QED BY <3>6 DEF d
  <2>6. Descend(2, w.req, satp, loc) \in WalkerType
    BY <1>1, <2>3, <2>4, DescendType
  <2>7. WalkersInv'
    BY <2>1, <2>4, <2>5, <2>6, OneWalker
  <2> QED BY <2>1, <2>7 DEF Inv, TablesInv, TlbInv
<1> QED BY <1>2, <1>3, <1>4

LEMMA WalkSecondInv == ASSUME Inv, NEW s \in Sides, WalkSecond(s) PROVE Inv'
<1> DEFINE w == walker[s]
<1>1. /\ w.req \in Reqs /\ w.satp = satp /\ satp \in Satps /\ w.pte \in Ptes
      /\ \E q \in seen[<<satp.root, w.req.vpn.hi>>] :
            Bare(q) /\ w.pte \in seen[<<q.ppn, w.req.vpn.lo>>]
  BY AtSecond DEF WalkSecond
<1>2. CASE "V" \notin w.pte.flags \/ Denied(w.req, w.pte)
  <2>1. walker' = [walker EXCEPT ![s] = Refuse(s, w.req)] /\ UNCHANGED <<mem, satp, seen, tlb>>
    BY <1>2 DEF WalkSecond
  <2> QED BY <1>1, <2>1, WalkRefused
<1>3. CASE ~("V" \notin w.pte.flags \/ Denied(w.req, w.pte))
  <2>1. /\ walker' = [walker EXCEPT ![s] = Grant(w.req, w.pte, FALSE)]
        /\ tlb' = AfterStore(tlb, AsidTag(satp), w.req.vpn, w.pte, FALSE)
        /\ UNCHANGED <<mem, satp, seen>>
    BY <1>1, <1>3 DEF WalkSecond
  <2>2. MappedIn(seen, satp, w.req.vpn, w.pte, FALSE)
    BY <1>1, <1>3 DEF MappedIn
  <2> HIDE DEF w
  <2> QED BY <1>1, <2>1, <2>2, WalkEnds
<1> QED BY <1>2, <1>3

\* Two idle walkers are fine with any satp and any memory.
LEMMA GiveUpInv == ASSUME GiveUp PROVE WalkersInv'
<1>1. walker' \in [Sides -> WalkerType] /\ \A s \in Sides : walker'[s] = Idle
  BY IdleOk DEF GiveUp
<1>2. \A s \in Sides : WalkOk(walker'[s], satp', seen')
  BY <1>1, IdleOk
<1> QED BY <1>1, <1>2 DEF WalkersInv

\* Seeing more keeps what was fresh fresh.
LEMMA SeesMore ==
    ASSUME NEW sn \in [Locs -> SUBSET Ptes], NEW sm \in [Locs -> SUBSET Ptes],
           \A l \in Locs : sn[l] \subseteq sm[l]
    PROVE  /\ \A e \in Entries : Fresh(e, sn) => Fresh(e, sm)
           /\ \A w, c : c \in Satps /\ WalkOk(w, c, sn) => WalkOk(w, c, sm)
<1>1. ASSUME NEW c \in Satps, NEW v \in Vpns, NEW p, NEW mega, MappedIn(sn, c, v, p, mega)
      PROVE  MappedIn(sm, c, v, p, mega)
  BY <1>1, Places DEF MappedIn
<1>2. \A e \in Entries : Fresh(e, sn) => Fresh(e, sm)
  BY <1>1 DEF Fresh
<1>3. ASSUME NEW w, NEW c \in Satps, WalkOk(w, c, sn) PROVE WalkOk(w, c, sm)
  <2> SUFFICES ASSUME w.st \in {1, 2}, ~w.fault
               PROVE  /\ w.req \in Reqs /\ w.satp = c
                      /\ w.st = 1 => w.pte \in sm[<<c.root, w.req.vpn.hi>>]
                      /\ w.st = 2 => \E q \in sm[<<c.root, w.req.vpn.hi>>] :
                                        Bare(q) /\ w.pte \in sm[<<q.ppn, w.req.vpn.lo>>]
    BY DEF WalkOk
  <2>1. w.req \in Reqs /\ w.req.vpn \in Vpns
    BY <1>3, Constants DEF WalkOk
  <2>2. \A q \in sn[<<c.root, w.req.vpn.hi>>] :
            q \in sm[<<c.root, w.req.vpn.hi>>] /\ (Bare(q) => <<q.ppn, w.req.vpn.lo>> \in Locs)
    BY <2>1, Places
  <2> QED BY <1>3, <2>1, <2>2 DEF WalkOk
<1> QED BY <1>2, <1>3

LEMMA StoreEntryInv == ASSUME Inv, NEW x \in Stores, StoreEntry(x[1], x[2]) PROVE Inv'
<1>1. x[1] \in Locs /\ x[2] \in Ptes
  BY TranslationAssumption
<1>2. TablesInv' /\ \A l \in Locs : seen[l] \subseteq seen'[l]
  BY <1>1 DEF Inv, TablesInv, StoreEntry
<1>3. seen \in [Locs -> SUBSET Ptes] /\ seen' \in [Locs -> SUBSET Ptes]
  BY <1>2 DEF Inv, TablesInv
<1>4. TlbInv'
  BY <1>2, <1>3, SeesMore DEF Inv, TlbInv, StoreEntry
<1>5. WalkersInv'
  <2>1. satp \in Satps /\ satp' = satp /\ walker' = walker
    BY DEF Inv, TablesInv, StoreEntry
  <2> QED BY <1>2, <1>3, <2>1, SeesMore DEF Inv, WalkersInv
<1> QED BY <1>2, <1>4, <1>5 DEF Inv

\* An entry that is not valid is fresh.
LEMMA InvalidFresh == InvalidEntry \in Entries /\ \A sn : Fresh(InvalidEntry, sn)
BY Constants DEF InvalidEntry, Entries, Fresh, Covers, Vpns

\* The fence empties the TLB and starts memory's history anew.
LEMMA FenceAllInv == ASSUME Inv, FenceAll PROVE Inv'
<1>1. TablesInv'
  BY DEF Inv, TablesInv, FenceAll, SfenceVma
<1>2. tlb' = [i \in Slots |-> InvalidEntry]
  BY DEF FenceAll, SfenceVma, AfterFlush
<1>3. TlbInv'
  BY <1>2, InvalidFresh DEF TlbInv
<1>4. WalkersInv'
  BY GiveUpInv DEF FenceAll, SfenceVma
<1> QED BY <1>1, <1>3, <1>4 DEF Inv

LEMMA StepKeepsInv == Inv /\ [Next]_vars => Inv'
<1> SUFFICES ASSUME Inv, [Next]_vars PROVE Inv'
  OBVIOUS
<1>1. CASE Done
  <2>1. WalkersInv'
    BY <1>1, IdleOk, OneWalker DEF Inv, Done
  <2> QED BY <1>1, <2>1 DEF Inv, Done, TablesInv, TlbInv
<1>2. CASE Flush
  <2>1. WalkersInv'
    BY <1>2, GiveUpInv DEF Flush
  <2> QED BY <1>2, <2>1 DEF Inv, Flush, TablesInv, TlbInv
<1>3. ASSUME NEW c \in Satps, WriteSatp(c) PROVE Inv'
  <2>1. WalkersInv'
    BY <1>3, GiveUpInv DEF WriteSatp
  <2> QED BY <1>3, <2>1 DEF Inv, WriteSatp, TablesInv, TlbInv
<1>4. CASE UNCHANGED vars
  BY <1>4 DEF vars, Inv, TablesInv, TlbInv, WalkersInv
<1> QED BY <1>1, <1>2, <1>3, <1>4, StartInv, WalkFirstInv, WalkSecondInv, StoreEntryInv,
           FenceAllInv DEF Next

LEMMA InitInv == Init => Inv
<1> SUFFICES ASSUME Init PROVE Inv
  OBVIOUS
<1>1. mem \in [Locs -> Ptes]
  BY TranslationAssumption DEF Init
<1>2. TablesInv
  BY <1>1 DEF Init, TablesInv
<1>3. TlbInv
  BY InvalidFresh DEF Init, TlbInv
<1>4. WalkersInv
  BY IdleOk DEF Init, WalkersInv
<1> QED BY <1>2, <1>3, <1>4 DEF Inv

LEMMA InvHolds == Spec => []Inv
BY InitInv, StepKeepsInv, PTL DEF Spec

\* The inductive invariant: types, fresh entries in the TLB, walks that
\* belong to the current address space and hold what memory held.
THEOREM TransInvHolds == Spec => []TransInv
BY InvHolds, InvImplies, PTL

\* No entry of the TLB outlives the fence that ended its mapping, whatever
\* the walkers of either side were doing when it was executed.
THEOREM NoStaleEntryHolds == Spec => []NoStaleEntry
<1>1. TransInv => NoStaleEntry
  BY DEF TransInv
<1> QED BY <1>1, TransInvHolds, PTL

(***************************************************************************)
(* Translation implements Sv32.                                            *)
(***************************************************************************)
\* What the walkers do not refuse, Sv32 may grant; what they refuse, it may
\* refuse.
LEMMA MayGrantIt ==
    ASSUME NEW r \in Reqs, NEW p \in Ptes, NEW mega \in BOOLEAN, ~Denied(r, p),
           mega => p.ppn % Fan = 0
    PROVE  Abs!MayGrant(r, p, mega)
<1>1. r.op \in Ops /\ r.priv \in {"S", "U"} /\ r.sum \in BOOLEAN /\ r.mxr \in BOOLEAN
  BY Constants
<1>2. Abs!Required(r) \subseteq p.flags /\ ("W" \in p.flags => "R" \in p.flags)
  BY <1>1 DEF Abs!Required, Denied, IDenied, DDenied, DOpDenied, Ops
<1>3. Abs!ModeAllows(r, p)
  BY <1>1 DEF Abs!ModeAllows, Denied, IDenied, DDenied
<1> QED BY <1>2, <1>3 DEF Abs!MayGrant

LEMMA MayRefuseIt ==
    ASSUME NEW r \in Reqs, NEW p \in Ptes, NEW mega, Denied(r, p)
    PROVE  Abs!MayRefuse(r, p, mega)
<1>1. r.op \in Ops /\ r.priv \in {"S", "U"} /\ r.sum \in BOOLEAN /\ r.mxr \in BOOLEAN
  BY Constants
<1> SUFFICES ASSUME Abs!Required(r) \subseteq p.flags, "W" \in p.flags => "R" \in p.flags,
                    Abs!ModeAllows(r, p)
             PROVE  r.op = "lr" /\ "D" \notin p.flags
  BY DEF Abs!MayRefuse, Abs!MayGrant
<1> QED BY <1>1 DEF Abs!Required, Abs!ModeAllows, Denied, IDenied, DDenied, DOpDenied, Ops

\* What the ports show.
LEMMA Ports ==
    /\ PortOf(Idle) = QuietPort
    /\ \A s \in Sides, r \in Reqs :
          PortOf(Refuse(s, r)) = [req |-> r, page |-> NoPage, st |-> "refused"]
    /\ \A r \in Reqs : \A p, mega :
          PortOf(Grant(r, p, mega)) =
              [req |-> r, page |-> Page(p, r.vpn, mega), st |-> "granted"]
    /\ \A level \in {1, 2}, r \in Reqs : \A loc :
          PortOf(Descend(level, r, satp, loc)) = [req |-> r, page |-> NoPage, st |-> "walk"]
<1>1. Idle.st = 0 /\ Idle.fault = FALSE
  BY DEF Idle
<1>2. \A s, r : Refuse(s, r).fault = TRUE /\ Refuse(s, r).req = r /\ Refuse(s, r).page = NoPage
  BY DEF Refuse
<1>3. \A r, p, mega : /\ Grant(r, p, mega).fault = FALSE /\ Grant(r, p, mega).req = r
                      /\ Grant(r, p, mega).page = Page(p, r.vpn, mega)
                      /\ Grant(r, p, mega).st = 3
  BY DEF Grant
<1>4. \A level, r, loc : LET d == Descend(level, r, satp, loc) IN
          d.fault = FALSE /\ d.req = r /\ d.page = NoPage /\ d.st = level
  BY DEF Descend
<1>5. PortOf(Idle) = QuietPort
  BY DEF PortOf
<1>6. \A s \in Sides, r \in Reqs :
          PortOf(Refuse(s, r)) = [req |-> r, page |-> NoPage, st |-> "refused"]
  BY <1>1, <1>2 DEF PortOf
<1>7. \A r \in Reqs : \A p, mega :
          PortOf(Grant(r, p, mega)) =
              [req |-> r, page |-> Page(p, r.vpn, mega), st |-> "granted"]
  BY <1>1, <1>3 DEF PortOf
<1>8. \A level \in {1, 2}, r \in Reqs : \A loc :
          PortOf(Descend(level, r, satp, loc)) = [req |-> r, page |-> NoPage, st |-> "walk"]
  BY <1>1, <1>4 DEF PortOf
<1> QED BY <1>5, <1>6, <1>7, <1>8

\* A walker's step is a step of its port.
LEMMA ServeStep ==
    ASSUME WalkersInv, NEW s \in Sides, NEW x, walker' = [walker EXCEPT ![s] = x],
           UNCHANGED <<mem, satp, seen>>,
           \/ PortOf(x).req \in Reqs /\ Abs!Allowed(satp, PortOf(x))
           \/ PortOf(x) = QuietPort
    PROVE  Abs!Serve(s)
<1>1. walker'[s] = x /\ \A t \in Sides \ {s} : walker'[t] = walker[t]
  BY DEF WalkersInv
<1> QED BY <1>1, SameTables DEF Abs!Serve, Abs!Sides

\* A mapping that Sv32 may use: of the address space, or global.
LEMMA MayUseIt ==
    ASSUME TablesInv, NEW v \in Vpns, NEW p \in Ptes, NEW mega \in BOOLEAN,
           NEW c \in Satps, MappedIn(seen, c, v, p, mega),
           "G" \in p.flags \/ AsidTag(c) = AsidTag(satp)
    PROVE  Abs!MayUse(satp, v, p, mega)
<1>1. Abs!Mapped(c, v, p, mega) /\ satp \in Satps
  BY MappedIs DEF TablesInv
<1>2. "G" \in p.flags \/ c = satp
  BY <1>1, TranslationAssumption
<1> QED BY <1>1, <1>2 DEF Abs!MayUse

LEMMA GrantAllowed ==
    ASSUME NEW r \in Reqs, NEW p \in Ptes, NEW mega \in BOOLEAN, ~Denied(r, p),
           mega => p.ppn % Fan = 0, Abs!MayUse(satp, r.vpn, p, mega)
    PROVE  /\ PortOf(Grant(r, p, mega)).req \in Reqs
           /\ Abs!Allowed(satp, PortOf(Grant(r, p, mega)))
<1>1. Abs!MayGrant(r, p, mega)
  BY MayGrantIt
<1>2. Abs!Granted(satp, r, Page(p, r.vpn, mega))
  BY <1>1, SameTables DEF Abs!Granted
<1> QED BY <1>2, Ports DEF Abs!Allowed

LEMMA RefuseAllowed ==
    ASSUME NEW s \in Sides, NEW r \in Reqs, Abs!RefusedBy(satp, r.vpn, r)
    PROVE  /\ PortOf(Refuse(s, r)).req \in Reqs
           /\ Abs!Allowed(satp, PortOf(Refuse(s, r)))
BY Ports, SameTables DEF Abs!Allowed

LEMMA DescendAllowed ==
    ASSUME NEW level \in {1, 2}, NEW r \in Reqs, NEW loc
    PROVE  /\ PortOf(Descend(level, r, satp, loc)).req \in Reqs
           /\ Abs!Allowed(satp, PortOf(Descend(level, r, satp, loc)))
BY Ports DEF Abs!Allowed

LEMMA StartServes ==
    ASSUME Inv, NEW s \in Sides, NEW r \in Reqs, Start(s, r) PROVE Abs!Serve(s)
<1> DEFINE f == Find(tlb, AsidTag(satp), r.vpn)
           loc == <<satp.root, r.vpn.hi>>
<1>1. /\ TablesInv /\ TlbInv /\ WalkersInv /\ UNCHANGED <<mem, satp, seen>>
      /\ r.vpn \in Vpns /\ tlb \in [Slots -> Entries]
  BY Constants DEF Inv, Start, TlbInv
<1>2. CASE "V" \notin f.pte.flags
  <2>1. walker' = [walker EXCEPT ![s] = Descend(1, r, satp, loc)]
    BY <1>2 DEF Start
  <2> QED BY <1>1, <2>1, DescendAllowed, ServeStep
<1>3. CASE "V" \in f.pte.flags
  <2>1. PICK i \in Slots : /\ Hits(tlb[i], AsidTag(satp), r.vpn)
                           /\ f = [pte |-> tlb[i].pte, mega |-> tlb[i].mega]
    BY <1>1, <1>3, FindAnswers
  <2> DEFINE e == tlb[i]
  <2>2. e \in Entries /\ Fresh(e, seen)
    BY <1>1 DEF TlbInv
  <2>3. Covers(e, r.vpn) /\ ("G" \in e.pte.flags \/ e.asid = AsidTag(satp))
    BY <2>1 DEF Hits, Covers
  <2>4. f.pte = e.pte /\ f.mega = e.mega /\ f.pte \in Ptes /\ f.mega \in BOOLEAN
    BY <2>1, <2>2 DEF Entries
  <2> HIDE DEF e
  <2>5. PICK c \in Satps : AsidTag(c) = e.asid /\ MappedIn(seen, c, r.vpn, e.pte, e.mega)
    BY <1>1, <2>2, <2>3 DEF Fresh
  <2>6. f.mega => f.pte.ppn % Fan = 0
    BY <1>1, <2>2, <2>3, <2>4 DEF Fresh
  <2>7. Abs!MayUse(satp, r.vpn, f.pte, f.mega)
    BY <1>1, <2>3, <2>4, <2>5, MayUseIt
  <2> HIDE DEF f
  <2>8. CASE Denied(r, f.pte)
    <3>1. walker' = [walker EXCEPT ![s] = Refuse(s, r)]
      BY <1>3, <2>8 DEF Start, f
    <3>2. Abs!RefusedBy(satp, r.vpn, r)
      BY <2>4, <2>7, <2>8, MayRefuseIt DEF Abs!RefusedBy
    <3> QED BY <1>1, <3>1, <3>2, RefuseAllowed, ServeStep
  <2>9. CASE ~Denied(r, f.pte)
    <3>1. walker' = [walker EXCEPT ![s] = Grant(r, f.pte, f.mega)]
      BY <1>3, <2>9 DEF Start, f
    <3> QED BY <1>1, <2>4, <2>6, <2>7, <2>9, <3>1, GrantAllowed, ServeStep
  <2> QED BY <2>8, <2>9
<1> QED BY <1>2, <1>3

LEMMA WalkFirstServes == ASSUME Inv, NEW s \in Sides, WalkFirst(s) PROVE Abs!Serve(s)
<1> DEFINE w == walker[s]
           p == w.pte
           r == w.req
           loc == <<p.ppn, r.vpn.lo>>
<1>1. /\ r \in Reqs /\ w.satp = satp /\ satp \in Satps /\ p \in Ptes /\ r.vpn \in Vpns
      /\ p \in seen[<<satp.root, r.vpn.hi>>]
  BY AtFirst, Constants DEF WalkFirst
<1>2. TablesInv /\ WalkersInv /\ UNCHANGED <<mem, satp, seen>>
  BY DEF Inv, WalkFirst
<1>3. "V" \in p.flags /\ IsLeaf(p) => Abs!MayUse(satp, r.vpn, p, TRUE)
  BY <1>1, <1>2, MayUseIt DEF MappedIn
<1>4. CASE FirstLevelFault(r, p)
  <2>1. walker' = [walker EXCEPT ![s] = Refuse(s, r)]
    BY <1>4 DEF WalkFirst
  <2> HIDE DEF p, r
  <2>2. CASE "V" \notin p.flags \/ (~IsLeaf(p) /\ ~Bare(p))
    <3>1. Abs!RefusedBy(satp, r.vpn, r)
      BY <1>1, <2>2, SameTables DEF Abs!RefusedBy, Abs!Broken
    <3> QED BY <1>1, <1>2, <2>1, <3>1, RefuseAllowed, ServeStep
  <2>3. CASE "V" \in p.flags /\ IsLeaf(p)
    <3>1. p.ppn % Fan # 0 \/ Denied(r, p)
      BY <1>4, <2>3 DEF FirstLevelFault, IsLeaf, Bare
    <3>2. Abs!MayRefuse(r, p, TRUE)
      BY <1>1, <3>1, MayRefuseIt DEF Abs!MayRefuse, Abs!MayGrant
    <3>3. Abs!RefusedBy(satp, r.vpn, r)
      BY <1>1, <1>3, <2>3, <3>2 DEF Abs!RefusedBy
    <3> QED BY <1>1, <1>2, <2>1, <3>3, RefuseAllowed, ServeStep
  <2>4. ~Bare(p) \/ "V" \notin p.flags
    BY <1>4 DEF FirstLevelFault
  <2> QED BY <2>2, <2>3, <2>4
<1>5. CASE ~FirstLevelFault(r, p) /\ IsLeaf(p)
  <2>1. walker' = [walker EXCEPT ![s] = Grant(r, p, TRUE)]
    BY <1>5 DEF WalkFirst
  <2> HIDE DEF p, r
  <2>2. "V" \in p.flags /\ p.ppn % Fan = 0 /\ ~Denied(r, p)
    BY <1>1, <1>5, LeafAligned
  <2> QED BY <1>1, <1>2, <1>3, <1>5, <2>1, <2>2, GrantAllowed, ServeStep
<1>6. CASE ~FirstLevelFault(r, p) /\ ~IsLeaf(p)
  <2>1. walker' = [walker EXCEPT ![s] = Descend(2, r, satp, loc)]
    BY <1>1, <1>6 DEF WalkFirst
  <2> QED BY <1>1, <1>2, <2>1, DescendAllowed, ServeStep
<1> QED BY <1>4, <1>5, <1>6

LEMMA WalkSecondServes == ASSUME Inv, NEW s \in Sides, WalkSecond(s) PROVE Abs!Serve(s)
<1> DEFINE w == walker[s]
           p == w.pte
           r == w.req
<1>1. /\ r \in Reqs /\ w.satp = satp /\ satp \in Satps /\ p \in Ptes /\ r.vpn \in Vpns
      /\ \E q \in seen[<<satp.root, r.vpn.hi>>] : Bare(q) /\ p \in seen[<<q.ppn, r.vpn.lo>>]
  BY AtSecond, Constants DEF WalkSecond
<1>2. TablesInv /\ WalkersInv /\ UNCHANGED <<mem, satp, seen>>
  BY DEF Inv, WalkSecond
<1>3. "V" \in p.flags => Abs!MayUse(satp, r.vpn, p, FALSE)
  BY <1>1, <1>2, MayUseIt DEF MappedIn
<1>4. CASE "V" \notin p.flags \/ Denied(r, p)
  <2>1. walker' = [walker EXCEPT ![s] = Refuse(s, r)]
    BY <1>4 DEF WalkSecond
  <2> HIDE DEF p, r
  <2>2. Abs!RefusedBy(satp, r.vpn, r)
    <3>1. CASE "V" \notin p.flags
      BY <1>1, <3>1, SameTables DEF Abs!RefusedBy, Abs!Broken
    <3>2. CASE "V" \in p.flags
      BY <1>1, <1>3, <1>4, <3>2, MayRefuseIt DEF Abs!RefusedBy
    <3> QED BY <3>1, <3>2
  <2> QED BY <1>1, <1>2, <2>1, <2>2, RefuseAllowed, ServeStep
<1>5. CASE ~("V" \notin p.flags \/ Denied(r, p))
  <2>1. walker' = [walker EXCEPT ![s] = Grant(r, p, FALSE)]
    BY <1>5 DEF WalkSecond
  <2> HIDE DEF p, r
  <2> QED BY <1>1, <1>2, <1>3, <1>5, <2>1, GrantAllowed, ServeStep
<1> QED BY <1>4, <1>5

LEMMA GiveUpQuiet == ASSUME GiveUp PROVE Abs!GiveUp
BY Ports, SameTables DEF GiveUp, Abs!GiveUp, Abs!Sides

LEMMA InitImplements == Init => Abs!Sv32Init
BY Ports, SameTables DEF Init, Abs!Sv32Init, Abs!Sides

LEMMA StepImplements ==
    Inv /\ [Next]_vars =>
        [Abs!Sv32Next]_<<mem, satp, seen, [s \in Sides |-> PortOf(walker[s])]>>
<1> SUFFICES ASSUME Inv, [Next]_vars
             PROVE  \/ Abs!Sv32Next
                    \/ UNCHANGED <<mem, satp, seen, [s \in Sides |-> PortOf(walker[s])]>>
  OBVIOUS
<1>1. ASSUME NEW s \in Sides, Abs!Serve(s) PROVE Abs!Sv32Next
  BY <1>1 DEF Abs!Sv32Next, Abs!Sides
<1>2. CASE Done
  <2>1. Abs!Serve("D")
    BY <1>2, Ports, ServeStep DEF Inv, Done
  <2> QED BY <1>1, <2>1
<1>3. CASE Flush
  BY <1>3, GiveUpQuiet DEF Flush, Abs!Sv32Next, Abs!Abandon
<1>4. ASSUME NEW x \in Stores, StoreEntry(x[1], x[2]) PROVE Abs!Sv32Next
  <2>1. x[1] \in Abs!Locs /\ x[2] \in Ptes
    BY TranslationAssumption, SameTables
  <2>2. Abs!StoreEntry
    BY <1>4, <2>1 DEF StoreEntry, Abs!StoreEntry
  <2> QED BY <2>2 DEF Abs!Sv32Next
<1>5. ASSUME NEW c \in Satps, WriteSatp(c) PROVE Abs!Sv32Next
  BY <1>5, GiveUpQuiet DEF WriteSatp, Abs!WriteSatp, Abs!Sv32Next
<1>6. CASE FenceAll
  <2>1. Abs!FenceAll
    BY <1>6, GiveUpQuiet, SameTables DEF FenceAll, SfenceVma, Abs!FenceAll
  <2> QED BY <2>1 DEF Abs!Sv32Next
<1>7. CASE UNCHANGED vars
  BY <1>7 DEF vars
<1> QED BY <1>1, <1>2, <1>3, <1>4, <1>5, <1>6, <1>7, StartServes, WalkFirstServes,
           WalkSecondServes DEF Next

\* Translation implements Sv32: every access is granted or refused as entries
\* say that memory held since the last full SFENCE.VMA.
THEOREM ImplementsSv32 == Spec => RefinesSv32
BY InitImplements, StepImplements, InvHolds, PTL DEF Spec, RefinesSv32, Abs!Sv32Spec
=============================================================================
