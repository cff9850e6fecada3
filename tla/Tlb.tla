-------------------------------- MODULE Tlb --------------------------------
(***************************************************************************)
(* The TLB of src/src/tlb.hpp: a table that the instruction side and the   *)
(* data side of the MMU share, as operators from a table to a table.       *)
(***************************************************************************)
EXTENDS PageTables

CONSTANTS
    TlbSize,      \* TLB::size (32)
    ResiduePte    \* what the pte of an entry nobody assigned reads as

Slots == 0 .. TlbSize - 1
Entries == [valid : BOOLEAN, asid : Nat, vpn : Vpns, pte : Ptes, mega : BOOLEAN]

\* The unoptimised build leaves the low half of an aligned pointer in the
\* place of that pte: its valid bit is clear.
ASSUME TlbAssumption ==
    /\ TlbSize \in Nat \ {0}
    /\ ResiduePte \in Ptes /\ "V" \notin ResiduePte.flags

\* Nothing reads the other fields of an entry that is not valid.
InvalidEntry == [valid |-> FALSE, asid |-> 0, vpn |-> [hi |-> 0, lo |-> 0],
                 pte |-> ResiduePte, mega |-> FALSE]

Hits(e, asid, vpn) ==
    /\ e.valid
    /\ "G" \in e.pte.flags \/ e.asid = asid
    /\ e.vpn.hi = vpn.hi
    /\ e.mega \/ e.vpn.lo = vpn.lo

\* The first slot, if any, whose entry meets a condition.
FirstOf(S) == CHOOSE i \in S : \A j \in S : i <= j

HitSlots(tlb, asid, vpn) == {i \in Slots : Hits(tlb[i], asid, vpn)}

\* Slip: after a miss the copy holds what the front slot holds.
SlipFind(tlb, asid, vpn) ==
    LET found == HitSlots(tlb, asid, vpn) IN
    IF found # {} THEN [pte |-> tlb[FirstOf(found)].pte, mega |-> tlb[FirstOf(found)].mega]
    ELSE [pte |-> tlb[0].pte, mega |-> tlb[0].mega]

\* find() returns a copy of the entry; after a miss that copy's pte was
\* never assigned.
Find(tlb, asid, vpn) ==
    LET found == HitSlots(tlb, asid, vpn) IN
    IF found # {} THEN [pte |-> tlb[FirstOf(found)].pte, mega |-> tlb[FirstOf(found)].mega]
    ELSE [pte |-> ResiduePte, mega |-> FALSE]

\* find() moves the entry it found to the front.
AfterFind(tlb, asid, vpn) ==
    LET found == HitSlots(tlb, asid, vpn)
        k == FirstOf(found)
    IN IF found = {} THEN tlb ELSE [tlb EXCEPT ![k] = tlb[0], ![0] = tlb[k]]

\* store() overwrites the first entry of the same address space, of the same
\* page, or invalid, after moving the ones before it down a slot.
Replaceable(e, asid, vpn) == e.asid = asid \/ e.vpn = vpn \/ ~e.valid

Tag(vpn, mega) == IF mega THEN [vpn EXCEPT !.lo = 0] ELSE vpn

AfterStore(tlb, asid, vpn, pte, mega) ==
    LET e == [valid |-> TRUE, asid |-> asid, vpn |-> Tag(vpn, mega), pte |-> pte, mega |-> mega]
        R == {i \in Slots : Replaceable(tlb[i], asid, e.vpn)}
        k == IF R = {} THEN TlbSize - 1 ELSE FirstOf(R)
    IN [i \in Slots |-> IF i = 0 THEN e ELSE IF i <= k THEN tlb[i - 1] ELSE tlb[i]]

\* flush().  A page number is compared as the number it is.
VpnNumber(vpn) == vpn.hi * Fan + vpn.lo

AfterFlush(tlb, asid, vpn) ==
    [i \in Slots |->
        IF (tlb[i].asid = asid \/ asid = 0) /\ (vpn = VpnNumber(tlb[i].vpn) \/ vpn = 0)
        THEN InvalidEntry ELSE tlb[i]]
=============================================================================
