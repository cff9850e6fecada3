----------------------------- MODULE CodeImage -----------------------------
(***************************************************************************)
(* Instruction memory as the fetch side of the processor sees it.          *)
(*                                                                         *)
(* An address counts 16-bit parcels, the unit of RV32C fetch, instead of   *)
(* bytes.  A parcel's payload is a member of Parcel; LongParcel are those  *)
(* whose low two bits are 11.  An image is what one fetch context (the     *)
(* privilege, satp, the PMP and the memory behind them) maps: a parcel and *)
(* its fault for every address.                                            *)
(***************************************************************************)
EXTENDS Integers

CONSTANTS
    AddrSpace,    \* number of parcel addresses (2^31 in the code)
    Parcel,       \* the 16-bit payloads
    LongParcel,   \* payloads that start a 32-bit instruction
    ZeroParcel,   \* the all-zero payload
    Garbled,      \* two different payloads or-ed into the same place
    Images        \* what the instruction port can see of memory

Addr == 0 .. AddrSpace - 1

\* A parcel with its bit of buffer_page_fault and of buffer_access_fault.
Slot == [bits : Parcel, pf : BOOLEAN, af : BOOLEAN]

ZeroSlot == [bits |-> ZeroParcel, pf |-> FALSE, af |-> FALSE]

\* The address space is whole words.
ASSUME FetchAssumption ==
    /\ AddrSpace \in Nat /\ AddrSpace >= 6 /\ AddrSpace % 2 = 0
    /\ LongParcel \subseteq Parcel
    /\ ZeroParcel \in Parcel \ LongParcel
    /\ Garbled \in Parcel
    /\ Images \subseteq [Addr -> Slot]

(***************************************************************************)
(* Address and word arithmetic.                                            *)
(***************************************************************************)

\* a + n on uint32_t, for the small n the buffer uses.
Plus(a, n) == IF a + n < AddrSpace THEN a + n ELSE a + n - AddrSpace

WordBase(a) == a - (a % 2)

\* The aligned word that holds parcel address a.
WordAt(im, a) == [h \in 0 .. 1 |-> im[WordBase(a) + h]]

\* The low two bits of the parcel at a are 11.
LongAt(im, a) == im[a].bits \in LongParcel

LenAt(im, a) == IF LongAt(im, a) THEN 2 ELSE 1

\* The parcel whose fault an instruction fetched from a reports, if any.
FirstFault(im, a) ==
    IF LongAt(im, a) /\ ~(im[a].af \/ im[a].pf)
    THEN Plus(a, 1) ELSE a

FaultAt(im, a) ==
    LET f == FirstFault(im, a)
    IN IF im[f].af THEN "access" ELSE IF im[f].pf THEN "page" ELSE "none"

\* Translation and protection are decided for a whole word: its halves fault
\* alike, in one way, and read as zero (imem_rsp_comb).
ASSUME WordFaultAssumption ==
    \A im \in Images : \A a \in Addr :
        (im[a].af \/ im[a].pf) =>
            WordAt(im, a) = [h \in 0 .. 1 |-> [bits |-> ZeroParcel, pf |-> ~im[a].af,
                                              af |-> im[a].af]]
=============================================================================
