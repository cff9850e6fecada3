------------------------- MODULE FetchBufferProofs -------------------------
(***************************************************************************)
(* The fetch buffer is correct in the most general surroundings: EnvInv is *)
(* inductive.                                                              *)
(***************************************************************************)
EXTENDS FetchBufferEnv, FetchBufferLemmas

\* EnvInv is inductive.
THEOREM EnvInvariant == EnvSpec => []EnvInv
  <1>1. EnvInit => EnvInv
    <2> SUFFICES ASSUME EnvInit PROVE EnvInv
      OBVIOUS
    <2>1. BufferInv
      <3>1. 0 \in Addr
        BY FetchAssumption DEF Addr
      <3> QED
        BY <3>1, NoResponse, InitInv DEF EnvInit
    <2> QED
      BY <2>1 DEF EnvInit, EnvInv
  <1>2. EnvInv /\ [EnvNext]_envVars => EnvInv'
    <2> SUFFICES ASSUME EnvInv, [EnvNext]_envVars PROVE EnvInv'
      OBVIOUS
    <2>1. CASE Inputs
      <3>1. UNCHANGED <<image, bufVars, if_id_accept>> /\ image \in Images
            /\ if_id_accept \in BOOLEAN
        BY <2>1 DEF Inputs, EnvInv, BufferInv, FetchTypeOK
      <3>2. immu_pc' \in Addr /\ stall' \in BOOLEAN /\ flush' \in BOOLEAN
            /\ immu_flush' \in BOOLEAN /\ phase' = "fifo"
        BY <2>1 DEF Inputs
      <3>3. PICK ack \in BOOLEAN :
               rsp' = [ack |-> ack,
                       word |-> IF ack THEN WordAt(image, immu_pc')
                                ELSE [h \in 0 .. 1 |-> ZeroSlot]]
        BY <2>1 DEF Inputs
      <3>4. rsp' \in Response
        <4>1. WordAt(image, immu_pc') \in [0 .. 1 -> Slot]
          BY <3>1, <3>2, WordAtType
        <4>2. [h \in 0 .. 1 |-> ZeroSlot] \in [0 .. 1 -> Slot]
          BY FetchAssumption DEF ZeroSlot, Slot
        <4> QED
          BY <3>3, <4>1, <4>2 DEF Response
      <3>5. rsp'.ack => rsp'.word = WordAt(image', immu_pc')
        BY <3>1, <3>3
      <3>6. BufferInv'
        BY <3>1, <3>2, <3>4, SignalsKeepInv DEF EnvInv
      <3> QED
        BY <3>2, <3>5, <3>6 DEF EnvInv
    <2>2. CASE Fifo
      <3>1. UNCHANGED <<image, bufVars, stall, flush, immu_flush, rsp, immu_pc>>
            /\ if_id_accept' = Accept /\ phase' = "pos" /\ phase = "fifo"
        BY <2>2 DEF Fifo, inVars, FifoStateComb
      <3>2. Accept' = Accept /\ Accept \in BOOLEAN
        BY <3>1 DEF EnvInv, BufferInv, FetchTypeOK, Response, Accept, Contiguous, Pops,
                    bufVars
      <3>3. BufferInv'
        BY <3>1, <3>2, SignalsKeepInv DEF EnvInv, BufferInv, FetchTypeOK
      <3> QED
        BY <3>1, <3>2, <3>3 DEF EnvInv
    <2>3. CASE PosEdge
      <3>1. /\ GetInstSeq /\ image' \in Images /\ (~flush => image' = image)
            /\ Receives => rsp.word = WordAt(image, immu_pc)
            /\ UNCHANGED <<stall, flush, immu_flush, rsp, immu_pc, if_id_accept>>
            /\ phase' = "inputs"
        BY <2>3 DEF PosEdge, EnvInv, BufferInv, FetchTypeOK, Receives
      <3>2. BufferInv'
        BY <3>1, GetInstKeepsInv DEF EnvInv, BufferInv, FetchTypeOK
      <3> QED
        BY <3>1, <3>2 DEF EnvInv
    <2>4. CASE UNCHANGED envVars
      BY <2>4
      DEF envVars, fetchVars, inVars, bufVars, EnvInv, BufferInv, FetchTypeOK,
          BufferMirrorsImage, UpperBitsClear, EndsOnWord, OfferIsComplete,
          Accept, Contiguous, Pops
    <2> QED
      BY <2>1, <2>2, <2>3, <2>4 DEF EnvNext
  <1> QED
    BY <1>1, <1>2, PTL DEF EnvSpec

\* The decoder is only ever offered the instruction, and the fault, that
\* the current memory image holds at if_id_pc.
THEOREM OfferIsProgramAlways == EnvSpec => []OfferIsProgram
  <1>1. EnvInv => OfferIsProgram
    BY BufferOffersProgram DEF EnvInv
  <1> QED
    BY <1>1, EnvInvariant, PTL

\* The buffer holds the program without gaps, and the types are kept: the
\* unsigned subtractions on buffer_idx never wrap.
THEOREM BufferCorrect == EnvSpec => [](FetchTypeOK /\ BufferMirrorsImage)
  <1>1. EnvInv => FetchTypeOK /\ BufferMirrorsImage
    BY DEF EnvInv, BufferInv
  <1> QED
    BY <1>1, EnvInvariant, PTL

\* The buffer's registers keep their types.
THEOREM FetchTypeAlways == EnvSpec => []FetchTypeOK
  <1>1. EnvInv => FetchTypeOK
    BY DEF EnvInv, BufferInv
  <1> QED
    BY <1>1, EnvInvariant, PTL

\* A word the prefetcher believes taken is taken, and no other.
THEOREM AcceptedIsStoredAlways == EnvSpec => AcceptedIsStored
  <1> DEFINE A == (phase = "pos" /\ ~flush /\ Receives) =>
                    (if_id_accept <=>
                        Plus(buffer_addr', buffer_idx') = Plus(WordBase(immu_pc), 2))
  <1>1. EnvInv /\ [EnvNext]_envVars => [A]_envVars
    <2> SUFFICES ASSUME EnvInv, EnvNext, phase = "pos", ~flush, Receives
                 PROVE  if_id_accept <=>
                          Plus(buffer_addr', buffer_idx') = Plus(WordBase(immu_pc), 2)
      OBVIOUS
    <2> DEFINE n == HeadLen(buffer)
    <2>1. /\ buffer_idx \in 0 .. 4 /\ buffer_addr \in Addr /\ immu_pc \in Addr
          /\ if_id_accept = Accept /\ rsp.ack
          /\ Plus(buffer_addr, buffer_idx) % 2 = 0
          /\ ~if_id.flush => buffer_idx >= n
          /\ n \in 1 .. 2
          /\ GetInstSeq
      BY DEF EnvInv, BufferInv, FetchTypeOK, EndsOnWord, OfferIsComplete, Receives, EnvNext,
             Inputs, Fifo, PosEdge, HeadLen
    <2>2. CASE ~Contiguous
      <3>1. Reload
        BY <2>1, <2>2 DEF GetInstSeq, ClearBuffer, PopAndAppend, PopOnly, AppendOnly,
                          HoldBuffer
      <3>2. buffer_addr' = immu_pc /\ buffer_idx' = 2 - (immu_pc % 2)
        BY <3>1 DEF Reload
      <3>3. Plus(immu_pc, 2 - (immu_pc % 2)) = Plus(WordBase(immu_pc), 2)
        BY <2>1, FetchAssumption DEF Plus, WordBase, Addr
      <3> QED
        BY <2>1, <2>2, <3>2, <3>3 DEF Accept
    <2>3. CASE Contiguous
      <3> DEFINE e == Plus(buffer_addr, buffer_idx)
      <3>1. immu_pc = e /\ e % 2 = 0 /\ e \in Addr /\ WordBase(immu_pc) = e
        BY <2>1, <2>3, FetchAssumption DEF Contiguous, WordBase, Addr
      <3>2. Plus(e, 2) # e
        BY <3>1, FetchAssumption DEF Plus, Addr
      <3>3. CASE PopAndAppend
        <4>1. Plus(buffer_addr', buffer_idx') = Plus(e, 2)
          <5>1. n <= buffer_idx /\ buffer_idx - n + 2 \in 0 .. 4
            BY <2>1, <3>3 DEF PopAndAppend, Pops, HeadLen
          <5>2. buffer_addr' = Plus(buffer_addr, n) /\ buffer_idx' = buffer_idx - n + 2
            BY <3>3 DEF PopAndAppend
          <5> HIDE DEF n
          <5>3. Plus(Plus(buffer_addr, n), buffer_idx - n + 2) = Plus(e, 2)
            BY <2>1, <5>1, FetchAssumption DEF Plus, Addr
          <5> QED
            BY <5>2, <5>3
        <4> QED
          BY <2>1, <3>1, <3>3, <4>1 DEF PopAndAppend, Accept
      <3>4. CASE PopOnly
        <4>1. Plus(buffer_addr', buffer_idx') = e
          <5>1. n <= buffer_idx
            BY <2>1, <3>4 DEF PopOnly, Pops
          <5> QED
            BY <2>1, <3>4, <5>1, FetchAssumption DEF PopOnly, Plus, Addr
        <4> QED
          BY <2>1, <2>3, <3>1, <3>2, <3>4, <4>1 DEF PopOnly, Accept
      <3>5. CASE AppendOnly
        <4>1. Plus(buffer_addr', buffer_idx') = Plus(e, 2)
          BY <2>1, <3>5, FetchAssumption DEF AppendOnly, Plus, Addr
        <4> QED
          BY <2>1, <3>1, <3>5, <4>1 DEF AppendOnly, Accept
      <3>6. CASE HoldBuffer
        <4>1. Plus(buffer_addr', buffer_idx') = e
          BY <3>6 DEF HoldBuffer
        <4> QED
          BY <2>1, <2>3, <3>1, <3>2, <3>6, <4>1 DEF HoldBuffer, Accept
      <3> QED
        BY <2>1, <2>3, <3>3, <3>4, <3>5, <3>6 DEF GetInstSeq, ClearBuffer, Reload
    <2> QED
      BY <2>2, <2>3
  <1>2. EnvSpec => [][A]_envVars
    BY <1>1, EnvInvariant, PTL DEF EnvSpec
  <1> QED
    BY <1>2 DEF AcceptedIsStored
=============================================================================
