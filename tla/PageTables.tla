----------------------------- MODULE PageTables -----------------------------
(***************************************************************************)
(* Sv32 page tables as src/src/mmu.hpp reads them.  A virtual page number  *)
(* is its pair of indices into the two levels (i_vpn1, i_vpn0); an entry   *)
(* is a set of flags and a page number; an access says what is done, from  *)
(* which mode, and with which of mstatus.SUM and mstatus.MXR.              *)
(***************************************************************************)
EXTENDS Integers

CONSTANTS
    Fan,         \* entries of a page table (1024)
    Ptes,        \* the page-table entries that software uses
    Tables,      \* page numbers of the page tables
    Satps,       \* values of satp: address space and root table
    Reqs         \* the accesses

Flags == {"V", "R", "W", "X", "U", "G", "A", "D"}
Sides == {"I", "D"}
Vpns == [hi : 0 .. Fan - 1, lo : 0 .. Fan - 1]
Locs == Tables \X (0 .. Fan - 1)
Ops == {"fetch", "load", "lr", "store", "amo"}

IsLeaf(p) == p.flags \cap {"R", "W", "X"} # {}

\* DAUGXWRV = 1: a pointer to the next level and nothing else
Bare(p) == p.flags = {"V"}

\* The physical page: a megapage keeps the low part of the page number.
Page(p, vpn, mega) == IF mega THEN p.ppn + vpn.lo ELSE p.ppn

\* The side that makes an access: fetches and data accesses.
SideOf(r) == IF r.op = "fetch" THEN "I" ELSE "D"

ASSUME PageTableAssumption ==
    /\ Fan \in Nat \ {0} /\ Tables \subseteq Nat
    /\ Ptes \subseteq [flags : SUBSET Flags, ppn : Nat]
    /\ \A p \in Ptes : Bare(p) => p.ppn \in Tables
    /\ Satps \subseteq [asid : Nat, root : Tables]
    /\ Reqs \subseteq [op : Ops, priv : {"S", "U"}, sum : BOOLEAN, mxr : BOOLEAN, vpn : Vpns]
=============================================================================
