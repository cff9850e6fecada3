---------------------------- MODULE FetchBuffer ----------------------------
(***************************************************************************)
(* The instruction fetch buffer of src/src/fetch.hpp.                      *)
(*                                                                         *)
(* FetchInstruction keeps 64 bits of code (four 16-bit parcels), refilled  *)
(* one aligned 32-bit word at a time by the IMMU, and hands the            *)
(* instruction at its head (one parcel, or two when the low bits of the    *)
(* first are 11) to the decoder.  Two processes share the state:           *)
(* get_inst_seq at the rising edge moves the buffer and                    *)
(* fifo_state_comb after the falling edge tells the prefetcher and the     *)
(* IMMU whether the word on offer will be taken at the next rising edge.   *)
(*                                                                         *)
(* buffer_idx counts parcels (16 bits) instead of bits.                    *)
(***************************************************************************)
EXTENDS CodeImage

VARIABLES
    image,         \* the memory image the current fetch context maps
    stall, flush,  \* from EXEC, written at the falling edge
    immu_flush,    \* from the IMMU: an answer of a flushed request is due
    rsp,           \* immu_to_ifetch: [ack, word]
    immu_pc,       \* the address rsp answers
    buffer,        \* the four parcels, slot 0 the low bits
    buffer_idx,    \* number of valid parcels
    buffer_addr,   \* address of slot 0
    if_id,         \* the if_id_* signals to the decoder
    if_id_accept   \* the word in rsp will be taken

inVars == <<image, stall, flush, immu_flush, rsp, immu_pc>>
bufVars == <<buffer, buffer_idx, buffer_addr, if_id>>
fetchVars == <<inVars, bufVars, if_id_accept>>

(***************************************************************************)
(* The 64 bits of buffer and of its two fault masks, as four lanes.        *)
(***************************************************************************)
Slots == 0 .. 3

EmptyBuffer == [i \in Slots |-> ZeroSlot]

\* s | t on one 16-bit lane of buffer and of the two fault masks.
Or(s, t) ==
    [bits |-> IF s.bits = ZeroParcel THEN t.bits
              ELSE IF t.bits \in {ZeroParcel, s.bits} THEN s.bits ELSE Garbled,
     pf |-> s.pf \/ t.pf,
     af |-> s.af \/ t.af]

\* buffer >>= 16 * n
ShiftOut(b, n) == [i \in Slots |-> IF i + n \in Slots THEN b[i + n] ELSE ZeroSlot]

\* buffer |= word << (16 * k)
OrWord(b, k, word) ==
    [i \in Slots |-> IF i - k \in 0 .. 1 THEN Or(b[i], word[i - k]) ELSE b[i]]

\* (buffer & 3) == 3
HeadLong(b) == b[0].bits \in LongParcel

HeadLen(b) == IF HeadLong(b) THEN 2 ELSE 1

(***************************************************************************)
(* get_inst_seq, first half: move the buffer.                              *)
(***************************************************************************)

Receives == rsp.ack /\ ~immu_flush
Contiguous == immu_pc = Plus(buffer_addr, buffer_idx)
Pops == ~stall /\ ~if_id.flush

\* Slip: the flush resets buffer_idx and not buffer.
SlipClearBuffer ==
    /\ flush
    /\ buffer_idx' = 0
    /\ buffer_addr' = 0
    /\ UNCHANGED buffer

ClearBuffer ==
    /\ flush
    /\ buffer' = EmptyBuffer
    /\ buffer_idx' = 0
    /\ buffer_addr' = 0

\* Slip: the lower half is not shifted out when immu_pc is odd.
SlipReload ==
    /\ ~flush /\ Receives /\ ~Contiguous
    /\ buffer_addr' = immu_pc
    /\ buffer_idx' = 2 - (immu_pc % 2)
    /\ buffer' = OrWord(EmptyBuffer, 0, rsp.word)

Reload ==
    /\ ~flush /\ Receives /\ ~Contiguous
    /\ buffer_addr' = immu_pc
    /\ buffer_idx' = 2 - (immu_pc % 2)
    /\ buffer' = ShiftOut(OrWord(EmptyBuffer, 0, rsp.word), immu_pc % 2)

\* The popped parcels make room for the word.
PopAndAppend ==
    LET n == HeadLen(buffer) IN
    /\ ~flush /\ Receives /\ Contiguous /\ Pops
    /\ HeadLong(buffer) \/ buffer_idx <= 3
    /\ buffer_addr' = Plus(buffer_addr, n)
    /\ buffer' = OrWord(ShiftOut(buffer, n), buffer_idx - n, rsp.word)
    /\ buffer_idx' = buffer_idx - n + 2

PopOnly ==
    LET n == HeadLen(buffer) IN
    /\ ~flush /\ Pops
    /\ \/ ~Receives
       \/ Contiguous /\ ~HeadLong(buffer) /\ buffer_idx > 3
    /\ buffer_addr' = Plus(buffer_addr, n)
    /\ buffer' = ShiftOut(buffer, n)
    /\ buffer_idx' = buffer_idx - n

AppendOnly ==
    /\ ~flush /\ Receives /\ Contiguous /\ ~Pops
    /\ buffer_idx <= 2
    /\ buffer' = OrWord(buffer, buffer_idx, rsp.word)
    /\ buffer_idx' = buffer_idx + 2
    /\ UNCHANGED buffer_addr

HoldBuffer ==
    /\ ~flush /\ ~Pops
    /\ Receives => Contiguous /\ buffer_idx > 2
    /\ UNCHANGED <<buffer, buffer_idx, buffer_addr>>

(***************************************************************************)
(* get_inst_seq, second half: present the head of the moved buffer.        *)
(***************************************************************************)

\* Slip: only the first parcel's fault bits are looked at.
SlipHeadFault(b, a) ==
    IF b[0].af \/ b[0].pf
    THEN [fault |-> IF b[0].af THEN "access" ELSE "page", tval |-> a]
    ELSE [fault |-> "none", tval |-> 0]

\* The first faulting parcel of the head decides fault and tval.
HeadFault(b, a) ==
    LET SlotFault(s) == IF s.af THEN "access" ELSE "page"
        Faulty(s) == s.af \/ s.pf
    IN IF Faulty(b[0]) THEN [fault |-> SlotFault(b[0]), tval |-> a]
       ELSE IF HeadLong(b) /\ Faulty(b[1])
            THEN [fault |-> SlotFault(b[1]), tval |-> Plus(a, 1)]
            ELSE [fault |-> "none", tval |-> 0]

\* Slip: half of a long instruction is presented.
SlipIfIdOutput(b, idx, a) ==
    LET hf == HeadFault(b, a) IN
    [flush |-> flush \/ idx < 1,
     pc    |-> a,
     inst  |-> [h \in 0 .. 1 |-> b[h].bits],
     fault |-> IF flush THEN if_id.fault ELSE hf.fault,
     tval  |-> IF flush THEN if_id.tval ELSE hf.tval]

\* The if_id_* signals; a flush leaves if_id_fault and if_id_tval alone.
IfIdOutput(b, idx, a) ==
    LET hf == HeadFault(b, a) IN
    [flush |-> flush \/ idx < HeadLen(b),
     pc    |-> a,
     inst  |-> [h \in 0 .. 1 |-> b[h].bits],
     fault |-> IF flush THEN if_id.fault ELSE hf.fault,
     tval  |-> IF flush THEN if_id.tval ELSE hf.tval]

GetInstSeq ==
    /\ \/ ClearBuffer \/ Reload \/ PopAndAppend
       \/ PopOnly \/ AppendOnly \/ HoldBuffer
    /\ if_id' = IfIdOutput(buffer', buffer_idx', buffer_addr')

(***************************************************************************)
(* fifo_state_comb: will get_inst_seq take the word?                       *)
(***************************************************************************)
\* Slip: off by one without a pop.
SlipAccept ==
    /\ rsp.ack
    /\ \/ ~Contiguous
       \/ Pops /\ (HeadLong(buffer) \/ buffer_idx <= 3)
       \/ ~Pops /\ buffer_idx <= 3

Accept ==
    /\ rsp.ack
    /\ \/ ~Contiguous
       \/ Pops /\ (HeadLong(buffer) \/ buffer_idx <= 3)
       \/ ~Pops /\ buffer_idx <= 2

FifoStateComb == if_id_accept' = Accept

FetchInit ==
    /\ buffer = EmptyBuffer
    /\ buffer_idx = 0
    /\ buffer_addr = 0
    /\ if_id = [flush |-> TRUE, pc |-> 0, fault |-> "none", tval |-> 0,
                inst |-> [h \in 0 .. 1 |-> ZeroParcel]]
    /\ if_id_accept = FALSE

(***************************************************************************)
(* What the buffer promises.                                               *)
(***************************************************************************)
Response == [ack : BOOLEAN, word : [0 .. 1 -> Slot]]

IfId == [flush : BOOLEAN, pc : Addr, inst : [0 .. 1 -> Parcel],
         fault : {"none", "access", "page"}, tval : Addr]

\* Types of the buffer and of its signals.  buffer_idx stays within the 64
\* bits: the unsigned subtractions of get_inst_seq never wrap.
FetchTypeOK ==
    /\ image \in Images
    /\ stall \in BOOLEAN /\ flush \in BOOLEAN /\ immu_flush \in BOOLEAN
    /\ rsp \in Response
    /\ immu_pc \in Addr
    /\ buffer \in [Slots -> Slot]
    /\ buffer_idx \in 0 .. 4
    /\ buffer_addr \in Addr
    /\ if_id \in IfId
    /\ if_id_accept \in BOOLEAN

\* The valid parcels are memory, in order and without a gap, from
\* buffer_addr on, whatever mixture of refills, pops and stalls filled them.
BufferMirrorsImage ==
    \A i \in Slots : i < buffer_idx => buffer[i] = image[Plus(buffer_addr, i)]

\* The bits above buffer_idx are clear, so that |= writes and does not mix.
UpperBitsClear == \A i \in Slots : i >= buffer_idx => buffer[i] = ZeroSlot

\* The buffer ends on a word boundary, where the next word belongs.
EndsOnWord == Plus(buffer_addr, buffer_idx) % 2 = 0

\* An instruction on offer is complete, so popping it cannot take more
\* parcels than there are, and the signals show the head of the buffer.
OfferIsComplete ==
    /\ ~if_id.flush => buffer_idx >= HeadLen(buffer)
    /\ if_id.pc = buffer_addr
    /\ if_id.inst = [h \in 0 .. 1 |-> buffer[h].bits]
    /\ ~if_id.flush =>
          /\ if_id.fault = HeadFault(buffer, buffer_addr).fault
          /\ if_id.tval = HeadFault(buffer, buffer_addr).tval

\* The buffer's part of every inductive invariant.
BufferInv ==
    /\ FetchTypeOK
    /\ BufferMirrorsImage
    /\ UpperBitsClear
    /\ EndsOnWord
    /\ OfferIsComplete

\* What the decoder is offered is the instruction that memory holds at
\* if_id_pc, both halves of it when it is long, even when its halves came
\* from two words; and a fault is reported exactly when fetching that
\* instruction faults, with the address of its first faulting parcel.
OfferIsProgram ==
    ~if_id.flush =>
        LET a == if_id.pc
        IN /\ if_id.inst[0] = image[a].bits
           /\ LongAt(image, a) => if_id.inst[1] = image[Plus(a, 1)].bits
           /\ if_id.fault = FaultAt(image, a)
           /\ if_id.fault # "none" => if_id.tval = FirstFault(image, a)
=============================================================================
