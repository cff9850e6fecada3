-------------------------------- MODULE Sv32 --------------------------------
(***************************************************************************)
(* What Sv32 address translation promises software.  An access is granted  *)
(* a page, or refused, according to page-table entries that memory has     *)
(* held at some time since the last SFENCE.VMA: caching entries is         *)
(* allowed, using one from before the fence is not.                        *)
(***************************************************************************)
EXTENDS PageTables

VARIABLES
    mem,         \* the page tables
    satp,
    seen,        \* the entries each place has held since the last fence
    port         \* the access of each side, and its answer

\* The leaf entries, with their level, that a walk may have found.
MegaLeaves(c, v) == {p \in seen[<<c.root, v.hi>>] : "V" \in p.flags /\ IsLeaf(p)}
PageLeaves(c, v) ==
    {p \in Ptes : /\ "V" \in p.flags
                  /\ \E q \in seen[<<c.root, v.hi>>] :
                        Bare(q) /\ p \in seen[<<q.ppn, v.lo>>]}

Mapped(c, v, p, mega) == p \in IF mega THEN MegaLeaves(c, v) ELSE PageLeaves(c, v)

\* A global mapping is one of every address space.
MayUse(c, v, p, mega) ==
    \/ Mapped(c, v, p, mega)
    \/ "G" \in p.flags /\ \E cc \in Satps : Mapped(cc, v, p, mega)

\* Loads need R: mstatus.MXR, which would let X do, is still to be
\* implemented (src/src/mmu.hpp:12).
Required(r) ==
    CASE r.op = "fetch" -> {"X", "A"}
      [] r.op \in {"load", "lr"} -> {"R", "A"}
      [] r.op \in {"store", "amo"} -> {"R", "W", "A", "D"}

ModeAllows(r, p) ==
    IF r.priv = "U" THEN "U" \in p.flags
    ELSE "U" \in p.flags => r.op # "fetch" /\ r.sum

MayGrant(r, p, mega) ==
    /\ Required(r) \subseteq p.flags
    /\ "W" \in p.flags => "R" \in p.flags
    /\ ModeAllows(r, p)
    /\ mega => p.ppn % Fan = 0

\* LR is allowed to be refused where a write would be.
MayRefuse(r, p, mega) ==
    ~MayGrant(r, p, mega) \/ (r.op = "lr" /\ "D" \notin p.flags)

\* An entry that is neither valid nor a pointer nor a leaf refuses everyone.
Broken(p) == "V" \notin p.flags \/ (~IsLeaf(p) /\ ~Bare(p))

RefusedBy(c, v, r) ==
    \/ \E p \in Ptes, mega \in BOOLEAN : MayUse(c, v, p, mega) /\ MayRefuse(r, p, mega)
    \/ \E p \in seen[<<c.root, v.hi>>] : Broken(p)
    \/ \E q \in seen[<<c.root, v.hi>>] :
          Bare(q) /\ \E p \in seen[<<q.ppn, v.lo>>] : Broken(p) \/ ~IsLeaf(p)

NoReq == [op |-> "none"]
NoPage == -1
Quiet == [req |-> NoReq, st |-> "idle", page |-> NoPage]

Granted(c, r, page) ==
    \E p \in Ptes, mega \in BOOLEAN :
        MayUse(c, r.vpn, p, mega) /\ MayGrant(r, p, mega) /\ page = Page(p, r.vpn, mega)

Allowed(c, a) ==
    \/ a.st = "walk"
    \/ a.st = "granted" /\ Granted(c, a.req, a.page)
    \/ a.st = "refused" /\ a.page = NoPage /\ RefusedBy(c, a.req.vpn, a.req)

Sv32Init ==
    /\ seen = [l \in Locs |-> {mem[l]}]
    /\ satp \in Satps
    /\ port = [s \in Sides |-> Quiet]

\* A side takes up an access, works on it, answers it or gives it up.
Serve(s) ==
    /\ \/ port'[s].req \in Reqs /\ Allowed(satp, port'[s])
       \/ port'[s] = Quiet
    /\ \A t \in Sides \ {s} : port'[t] = port[t]
    /\ UNCHANGED <<mem, satp, seen>>

GiveUp == port' = [s \in Sides |-> Quiet]

StoreEntry ==
    /\ \E l \in Locs, p \in Ptes :
          /\ mem' = [mem EXCEPT ![l] = p]
          /\ seen' = [seen EXCEPT ![l] = @ \cup {p}]
    /\ UNCHANGED <<satp, port>>

WriteSatp == satp' \in Satps /\ GiveUp /\ UNCHANGED <<mem, seen>>

FenceAll ==
    /\ seen' = [l \in Locs |-> {mem[l]}]
    /\ GiveUp
    /\ UNCHANGED <<mem, satp>>

Abandon == GiveUp /\ UNCHANGED <<mem, satp, seen>>

Sv32Next == (\E s \in Sides : Serve(s)) \/ StoreEntry \/ WriteSatp \/ FenceAll \/ Abandon

Sv32Spec == Sv32Init /\ [][Sv32Next]_<<mem, satp, seen, port>>
=============================================================================
