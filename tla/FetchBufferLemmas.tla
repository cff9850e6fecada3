------------------------- MODULE FetchBufferLemmas -------------------------
(***************************************************************************)
(* What get_inst_seq preserves, for every address space, every set of      *)
(* memory images and every behaviour of the IMMU and of EXEC: BufferInv,   *)
(* which implies that the decoder is only ever offered the program.        *)
(***************************************************************************)
EXTENDS FetchBuffer, TLAPS

\* Or-ing into a clear lane writes it.
LEMMA OrIntoZero ==
    ASSUME NEW s \in Slot
    PROVE  Or(ZeroSlot, s) = s
  BY DEF Or, ZeroSlot, Slot

\* Adding a few parcels to an address gives an address.
LEMMA PlusType ==
    ASSUME NEW a \in Addr, NEW n \in 0 .. 4
    PROVE  Plus(a, n) \in Addr
  BY FetchAssumption DEF Plus, Addr

\* Steps within the buffer add up, across the end of the address space too.
LEMMA PlusPlus ==
    ASSUME NEW a \in Addr, NEW m \in 0 .. 4, NEW n \in 0 .. 4, m + n <= 4
    PROVE  Plus(Plus(a, m), n) = Plus(a, m + n)
  BY FetchAssumption DEF Plus, Addr

\* A word boundary plus two parcels is a word boundary.
LEMMA PlusTwoEven ==
    ASSUME NEW a \in Addr, a % 2 = 0
    PROVE  Plus(a, 2) % 2 = 0 /\ WordBase(a) = a /\ Plus(a, 1) = a + 1 
           /\ a + 1 \in Addr /\ Plus(a, 0) = a
  BY FetchAssumption DEF Plus, Addr, WordBase

\* The two halves of the word that starts at a word boundary.
LEMMA WordAtEven ==
    ASSUME NEW im \in Images, NEW a \in Addr, a % 2 = 0
    PROVE  /\ WordAt(im, a) \in [0 .. 1 -> Slot]
           /\ WordAt(im, a)[0] = im[Plus(a, 0)]
           /\ WordAt(im, a)[1] = im[Plus(a, 1)]
  <1>1. im \in [Addr -> Slot]
    BY FetchAssumption
  <1>2. WordBase(a) = a /\ Plus(a, 1) = a + 1 /\ a + 1 \in Addr /\ Plus(a, 0) = a
    BY PlusTwoEven
  <1>3. a + 0 = a
    BY FetchAssumption DEF Addr
  <1> QED
    BY <1>1, <1>2, <1>3 DEF WordAt

\* The word around any address, for the type of the IMMU's answer.
LEMMA WordAtType ==
    ASSUME NEW im \in Images, NEW a \in Addr
    PROVE  /\ WordAt(im, a) \in [0 .. 1 -> Slot]
           /\ WordAt(im, a)[a % 2] = im[a]
           /\ a % 2 \in 0 .. 1
           /\ a % 2 = 0 => WordAt(im, a)[1] = im[Plus(a, 1)]
           /\ a % 2 = 1 => Plus(a, 1) % 2 = 0
  <1>1. im \in [Addr -> Slot]
    BY FetchAssumption
  <1>2. /\ WordBase(a) \in Addr /\ WordBase(a) + 1 \in Addr
        /\ WordBase(a) + 0 = WordBase(a)
        /\ WordBase(a) + (a % 2) = a
        /\ a % 2 \in 0 .. 1
        /\ a % 2 = 0 => Plus(a, 1) = WordBase(a) + 1
        /\ a % 2 = 1 => Plus(a, 1) % 2 = 0
    BY FetchAssumption DEF Addr, WordBase, Plus
  <1> QED
    BY <1>1, <1>2 DEF WordAt

(***************************************************************************)
(* The buffer operations, on the functions they compute.                   *)
(***************************************************************************)

\* Shifting out n parcels keeps the rest in order and clears the top.
LEMMA ShiftOutSpec ==
    ASSUME NEW b \in [Slots -> Slot], NEW n \in 0 .. 2
    PROVE  /\ ShiftOut(b, n) \in [Slots -> Slot]
           /\ \A i \in Slots : i + n \in Slots => ShiftOut(b, n)[i] = b[i + n]
           /\ \A i \in Slots : i + n \notin Slots => ShiftOut(b, n)[i] = ZeroSlot
  BY FetchAssumption DEF ShiftOut, Slots, ZeroSlot, Slot

\* Or-ing a word above the valid parcels appends it.
LEMMA OrWordSpec ==
    ASSUME NEW b \in [Slots -> Slot], NEW k \in 0 .. 2,
           NEW w \in [0 .. 1 -> Slot],
           \A i \in Slots : i >= k => b[i] = ZeroSlot
    PROVE  /\ OrWord(b, k, w) \in [Slots -> Slot]
           /\ \A i \in Slots : i < k => OrWord(b, k, w)[i] = b[i]
           /\ OrWord(b, k, w)[k] = w[0]
           /\ OrWord(b, k, w)[k + 1] = w[1]
           /\ \A i \in Slots : i >= k + 2 => OrWord(b, k, w)[i] = ZeroSlot
  <1>1. \A i \in Slots : i - k \in 0 .. 1 => Or(b[i], w[i - k]) = w[i - k]
    BY OrIntoZero DEF Slots
  <1>2. OrWord(b, k, w) = [i \in Slots |-> IF i - k \in 0 .. 1 THEN w[i - k] ELSE b[i]]
    BY <1>1 DEF OrWord
  <1>3. k \in Slots /\ k + 1 \in Slots /\ k - k = 0 /\ (k + 1) - k = 1
    BY DEF Slots
  <1>4. \A i \in Slots : i < k => i - k \notin 0 .. 1
    BY DEF Slots
  <1>5. \A i \in Slots : i >= k + 2 => i - k \notin 0 .. 1 /\ i >= k
    BY DEF Slots
  <1> QED
    BY <1>2, <1>3, <1>4, <1>5

\* The part of BufferInv that get_inst_seq's first half must restore.
BufferOK(im, b, idx, a) ==
    /\ b \in [Slots -> Slot]
    /\ idx \in 0 .. 4
    /\ a \in Addr
    /\ \A i \in Slots : i < idx => b[i] = im[Plus(a, i)]
    /\ \A i \in Slots : i >= idx => b[i] = ZeroSlot
    /\ Plus(a, idx) % 2 = 0

\* Popping n valid parcels leaves a correct buffer.
LEMMA PopSpec ==
    ASSUME NEW im \in Images, NEW b, NEW idx, NEW a, NEW n \in 0 .. 2,
           BufferOK(im, b, idx, a), n <= idx
    PROVE  BufferOK(im, ShiftOut(b, n), idx - n, Plus(a, n))
  <1> DEFINE c == ShiftOut(b, n)
  <1>1. /\ b \in [Slots -> Slot] /\ idx \in 0 .. 4 /\ a \in Addr
        /\ \A i \in Slots : i < idx => b[i] = im[Plus(a, i)]
        /\ \A i \in Slots : i >= idx => b[i] = ZeroSlot
        /\ Plus(a, idx) % 2 = 0
    BY DEF BufferOK
  <1>2. c \in [Slots -> Slot] /\ idx - n \in 0 .. 4 /\ Plus(a, n) \in Addr
    BY <1>1, ShiftOutSpec, PlusType
  <1>3. ASSUME NEW i \in Slots, i < idx - n
        PROVE  c[i] = im[Plus(Plus(a, n), i)]
    <2>1. i + n \in Slots /\ i + n < idx /\ n + i = i + n /\ n + i <= 4
          /\ i \in 0 .. 4 /\ n \in 0 .. 4
      BY <1>1, <1>3 DEF Slots
    <2>2. c[i] = im[Plus(a, i + n)]
      BY <1>1, <2>1, ShiftOutSpec
    <2> QED
      BY <1>1, <2>1, <2>2, PlusPlus
  <1>4. ASSUME NEW i \in Slots, i >= idx - n
        PROVE  c[i] = ZeroSlot
    <2>1. i + n >= idx /\ i + n \in Int
      BY <1>1, <1>4 DEF Slots
    <2> QED
      BY <1>1, <2>1, ShiftOutSpec
  <1>5. Plus(Plus(a, n), idx - n) = Plus(a, idx)
    BY <1>1, PlusPlus
  <1> HIDE DEF c
  <1>6. BufferOK(im, c, idx - n, Plus(a, n))
    BY <1>1, <1>2, <1>3, <1>4, <1>5 DEF BufferOK
  <1> QED
    BY <1>6 DEF c

\* Appending the next word leaves a correct buffer.
LEMMA AppendSpec ==
    ASSUME NEW im \in Images, NEW b, NEW idx, NEW a,
           BufferOK(im, b, idx, a), idx <= 2
    PROVE  BufferOK(im, OrWord(b, idx, WordAt(im, Plus(a, idx))), idx + 2, a)
  <1> DEFINE e == Plus(a, idx)
             w == WordAt(im, e)
             c == OrWord(b, idx, w)
  <1>1. /\ b \in [Slots -> Slot] /\ idx \in 0 .. 2 /\ a \in Addr
        /\ \A i \in Slots : i < idx => b[i] = im[Plus(a, i)]
        /\ \A i \in Slots : i >= idx => b[i] = ZeroSlot
        /\ e % 2 = 0 /\ e \in Addr
    BY PlusType DEF BufferOK
  <1>2. w \in [0 .. 1 -> Slot] /\ w[0] = im[Plus(e, 0)] /\ w[1] = im[Plus(e, 1)]
    BY <1>1, WordAtEven
  <1>3. Plus(e, 0) = Plus(a, idx) /\ Plus(e, 1) = Plus(a, idx + 1)
        /\ Plus(a, idx + 2) % 2 = 0
    <2>1. idx + 0 = idx /\ idx + 1 <= 4 /\ idx + 2 <= 4 /\ idx \in 0 .. 4
      BY <1>1
    <2>2. Plus(e, 0) = Plus(a, idx + 0) /\ Plus(e, 1) = Plus(a, idx + 1)
          /\ Plus(e, 2) = Plus(a, idx + 2)
      BY <1>1, <2>1, PlusPlus
    <2> QED
      BY <1>1, <2>1, <2>2, PlusTwoEven
  <1> HIDE DEF e, w
  <1>4. /\ c \in [Slots -> Slot]
        /\ \A i \in Slots : i < idx => c[i] = b[i]
        /\ c[idx] = w[0] /\ c[idx + 1] = w[1]
        /\ \A i \in Slots : i >= idx + 2 => c[i] = ZeroSlot
    BY <1>1, <1>2, OrWordSpec
  <1> HIDE DEF c
  <1>5. \A i \in Slots : i < idx + 2 => i < idx \/ i = idx \/ i = idx + 1
    BY <1>1 DEF Slots
  <1>6. idx + 2 \in 0 .. 4
    BY <1>1
  <1>7. BufferOK(im, c, idx + 2, a)
    BY <1>1, <1>2, <1>3, <1>4, <1>5, <1>6 DEF BufferOK
  <1> QED
    BY <1>7 DEF c, w, e

\* A refill at a new address leaves a correct buffer.
LEMMA ReloadSpec ==
    ASSUME NEW im \in Images, NEW a \in Addr
    PROVE  BufferOK(im, ShiftOut(OrWord(EmptyBuffer, 0, WordAt(im, a)), a % 2),
                    2 - (a % 2), a)
  <1> DEFINE w == WordAt(im, a)
             b == OrWord(EmptyBuffer, 0, w)
             c == ShiftOut(b, a % 2)
  <1>1. EmptyBuffer \in [Slots -> Slot] /\ \A i \in Slots : EmptyBuffer[i] = ZeroSlot
    BY FetchAssumption DEF EmptyBuffer, ZeroSlot, Slot
  <1>2. /\ w \in [0 .. 1 -> Slot] /\ w[a % 2] = im[a] /\ a % 2 \in 0 .. 1
        /\ a % 2 = 0 => w[1] = im[Plus(a, 1)]
        /\ a % 2 = 1 => Plus(a, 1) % 2 = 0
    BY WordAtType
  <1>3. Plus(a, 0) = a /\ (a % 2 = 0 => Plus(a, 2) % 2 = 0)
    BY FetchAssumption, PlusTwoEven DEF Plus, Addr
  <1> HIDE DEF w
  <1>4. /\ b \in [Slots -> Slot] /\ b[0] = w[0] /\ b[1] = w[1]
        /\ \A i \in Slots : i >= 2 => b[i] = ZeroSlot
    <2>1. /\ b \in [Slots -> Slot] /\ b[0] = w[0] /\ b[0 + 1] = w[1]
          /\ \A i \in Slots : i >= 0 + 2 => b[i] = ZeroSlot
      BY <1>1, <1>2, OrWordSpec
    <2> QED
      BY <2>1
  <1> HIDE DEF b
  <1>5. /\ c \in [Slots -> Slot]
        /\ \A i \in Slots : i + (a % 2) \in Slots => c[i] = b[i + (a % 2)]
        /\ \A i \in Slots : i + (a % 2) \notin Slots => c[i] = ZeroSlot
    BY <1>2, <1>4, ShiftOutSpec
  <1> HIDE DEF c
  <1>6. CASE a % 2 = 0
    <2>1. \A i \in Slots : i + 0 = i
      BY DEF Slots
    <2>2. \A i \in Slots : c[i] = b[i]
      BY <1>5, <1>6, <2>1
    <2>3. \A i \in Slots : i < 2 => i = 0 \/ i = 1
      BY DEF Slots
    <2>4. BufferOK(im, c, 2, a)
      BY <1>2, <1>3, <1>4, <1>5, <1>6, <2>2, <2>3 DEF BufferOK
    <2> QED
      BY <1>6, <2>4 DEF c, b, w
  <1>7. CASE a % 2 = 1
    <2>1. \A i \in Slots : i >= 1 => c[i] = ZeroSlot
      BY <1>4, <1>5, <1>7 DEF Slots
    <2>2. c[0] = im[a]
      BY <1>2, <1>4, <1>5, <1>7 DEF Slots
    <2>3. \A i \in Slots : i < 1 => i = 0
      BY DEF Slots
    <2>4. BufferOK(im, c, 1, a)
      BY <1>2, <1>3, <1>5, <1>7, <2>1, <2>2, <2>3 DEF BufferOK
    <2> QED
      BY <1>7, <2>4 DEF c, b, w
  <1> QED
    BY <1>2, <1>6, <1>7

(***************************************************************************)
(* The invariant.                                                          *)
(***************************************************************************)

\* get_inst_seq, in whichever of its six ways, restores the buffer part of
\* the invariant for the image that is current after the rising edge.
LEMMA GetInstKeepsBuffer ==
    ASSUME BufferInv, GetInstSeq,
           image' \in Images, ~flush => image' = image,
           Receives => rsp.word = WordAt(image, immu_pc)
    PROVE  BufferOK(image', buffer', buffer_idx', buffer_addr')
  <1>1. /\ BufferOK(image, buffer, buffer_idx, buffer_addr)
        /\ image \in Images /\ image' \in Images
        /\ immu_pc \in Addr
        /\ Receives => rsp.word = WordAt(image, immu_pc)
        /\ ~flush => image' = image
        /\ ~if_id.flush => buffer_idx >= HeadLen(buffer)
        /\ flush \in BOOLEAN
        /\ HeadLen(buffer) \in 1 .. 2
        /\ buffer_idx \in 0 .. 4
    BY DEF BufferInv, FetchTypeOK, BufferMirrorsImage, UpperBitsClear, EndsOnWord,
           OfferIsComplete, BufferOK, HeadLen
  <1>2. CASE ClearBuffer
    <2>1. EmptyBuffer \in [Slots -> Slot] /\ \A i \in Slots : EmptyBuffer[i] = ZeroSlot
      BY FetchAssumption DEF EmptyBuffer, ZeroSlot, Slot
    <2>2. 0 \in Addr /\ Plus(0, 0) % 2 = 0 /\ \A i \in Slots : ~(i < 0) /\ i >= 0
      BY FetchAssumption DEF Addr, Plus, Slots
    <2> QED
      BY <1>2, <2>1, <2>2 DEF ClearBuffer, BufferOK
  <1>3. CASE Reload
    BY <1>1, <1>3, ReloadSpec DEF Reload
  <1>4. CASE PopAndAppend
    <2> DEFINE n == HeadLen(buffer)
    <2>1. n <= buffer_idx /\ buffer_idx - n <= 2 /\ n \in 0 .. 2 /\ n \in 0 .. 4
          /\ buffer_idx - n \in 0 .. 4 /\ n + (buffer_idx - n) = buffer_idx
          /\ n + (buffer_idx - n) <= 4
      BY <1>1, <1>4 DEF PopAndAppend, Pops, HeadLen
    <2>2. BufferOK(image, ShiftOut(buffer, n), buffer_idx - n, Plus(buffer_addr, n))
      BY <1>1, <2>1, PopSpec
    <2>3. immu_pc = Plus(Plus(buffer_addr, n), buffer_idx - n)
      BY <1>1, <1>4, <2>1, PlusPlus DEF PopAndAppend, Contiguous, BufferOK
    <2> HIDE DEF n
    <2>4. BufferOK(image, OrWord(ShiftOut(buffer, n), buffer_idx - n, WordAt(image, immu_pc)),
                   buffer_idx - n + 2, Plus(buffer_addr, n))
      BY <1>1, <2>1, <2>2, <2>3, AppendSpec
    <2> QED
      BY <1>1, <1>4, <2>4 DEF PopAndAppend, n
  <1>5. CASE PopOnly
    <2>1. HeadLen(buffer) <= buffer_idx /\ HeadLen(buffer) \in 0 .. 2
      BY <1>1, <1>5 DEF PopOnly, Pops
    <2> QED
      BY <1>1, <1>5, <2>1, PopSpec DEF PopOnly
  <1>6. CASE AppendOnly
    BY <1>1, <1>6, AppendSpec DEF AppendOnly, Contiguous
  <1>7. CASE HoldBuffer
    BY <1>1, <1>7 DEF HoldBuffer
  <1> QED
    BY <1>2, <1>3, <1>4, <1>5, <1>6, <1>7 DEF GetInstSeq

\* The signals to the decoder keep their types.
LEMMA IfIdType ==
    ASSUME NEW b \in [Slots -> Slot], NEW idx \in 0 .. 4, NEW a \in Addr,
           if_id \in IfId, flush \in BOOLEAN
    PROVE  IfIdOutput(b, idx, a) \in IfId
  <1>1. HeadFault(b, a) \in [fault : {"none", "access", "page"}, tval : Addr]
    <2>1. 0 \in Addr /\ Plus(a, 1) \in Addr
      BY FetchAssumption, PlusType DEF Addr
    <2>2. CASE b[0].af \/ b[0].pf
      BY <2>1, <2>2 DEF HeadFault
    <2>3. CASE ~(b[0].af \/ b[0].pf) /\ HeadLong(b) /\ (b[1].af \/ b[1].pf)
      BY <2>1, <2>3 DEF HeadFault
    <2>4. CASE ~(b[0].af \/ b[0].pf) /\ ~(HeadLong(b) /\ (b[1].af \/ b[1].pf))
      BY <2>1, <2>4 DEF HeadFault
    <2> QED
      BY <2>2, <2>3, <2>4
  <1>2. [h \in 0 .. 1 |-> b[h].bits] \in [0 .. 1 -> Parcel]
    BY DEF Slots, Slot
  <1>3. (flush \/ idx < HeadLen(b)) \in BOOLEAN
    BY DEF HeadLen
  <1> QED
    BY <1>1, <1>2, <1>3 DEF IfIdOutput, IfId

\* A rising edge keeps the invariant, whatever the signals become.
LEMMA GetInstKeepsInv ==
    ASSUME BufferInv, GetInstSeq,
           image' \in Images, ~flush => image' = image,
           Receives => rsp.word = WordAt(image, immu_pc),
           stall' \in BOOLEAN, flush' \in BOOLEAN, immu_flush' \in BOOLEAN,
           rsp' \in Response, immu_pc' \in Addr, if_id_accept' \in BOOLEAN
    PROVE  BufferInv'
  <1>1. BufferOK(image', buffer', buffer_idx', buffer_addr')
    BY GetInstKeepsBuffer
  <1>2. if_id' = IfIdOutput(buffer', buffer_idx', buffer_addr')
    BY DEF GetInstSeq
  <1>3. if_id' \in IfId
    BY <1>1, <1>2, IfIdType DEF BufferInv, FetchTypeOK, BufferOK
  <1>4. FetchTypeOK'
    BY <1>1, <1>3 DEF FetchTypeOK, BufferOK
  <1>5. HeadLen(buffer') \in 1 .. 2 /\ buffer_idx' \in 0 .. 4
    BY <1>1 DEF HeadLen, BufferOK
  <1>6. OfferIsComplete'
    <2>1. /\ if_id'.pc = buffer_addr'
          /\ if_id'.inst = [h \in 0 .. 1 |-> buffer'[h].bits]
          /\ if_id'.flush = (flush \/ buffer_idx' < HeadLen(buffer'))
      BY <1>2 DEF IfIdOutput
    <2>2. ~if_id'.flush => ~(buffer_idx' < HeadLen(buffer'))
      BY <2>1
    <2>3. ~if_id'.flush => buffer_idx' >= HeadLen(buffer')
      BY <1>5, <2>2
    <2>4. ~if_id'.flush =>
             /\ if_id'.fault = HeadFault(buffer', buffer_addr').fault
             /\ if_id'.tval = HeadFault(buffer', buffer_addr').tval
      BY <1>2, <2>1 DEF IfIdOutput
    <2> QED
      BY <2>1, <2>3, <2>4 DEF OfferIsComplete
  <1> QED
    BY <1>1, <1>4, <1>6
    DEF BufferInv, BufferMirrorsImage, UpperBitsClear, EndsOnWord, BufferOK

\* The invariant does not mention the signals but for their types.
LEMMA SignalsKeepInv ==
    ASSUME BufferInv, UNCHANGED <<image, bufVars>>,
           stall' \in BOOLEAN, flush' \in BOOLEAN, immu_flush' \in BOOLEAN,
           rsp' \in Response, immu_pc' \in Addr, if_id_accept' \in BOOLEAN
    PROVE  BufferInv'
  BY DEF bufVars, BufferInv, FetchTypeOK, BufferMirrorsImage, UpperBitsClear,
         EndsOnWord, OfferIsComplete

\* The empty buffer satisfies the invariant.
LEMMA InitInv ==
    ASSUME FetchInit, image \in Images,
           stall \in BOOLEAN, flush \in BOOLEAN, immu_flush \in BOOLEAN,
           rsp \in Response, immu_pc \in Addr
    PROVE  BufferInv
  <1>1. EmptyBuffer \in [Slots -> Slot] /\ \A i \in Slots : EmptyBuffer[i] = ZeroSlot
    BY FetchAssumption DEF EmptyBuffer, ZeroSlot, Slot
  <1>2. 0 \in Addr /\ Plus(0, 0) % 2 = 0 /\ 0 \in 0 .. 4 /\ \A i \in Slots : ~(i < 0)
    BY FetchAssumption DEF Addr, Plus, Slots
  <1>3. ZeroSlot.bits = ZeroParcel /\ ZeroParcel \in Parcel
    BY FetchAssumption DEF ZeroSlot
  <1>4. if_id \in IfId
    BY <1>2, <1>3 DEF FetchInit, IfId
  <1>5. FetchTypeOK
    BY <1>1, <1>2, <1>4 DEF FetchInit, FetchTypeOK
  <1>6. OfferIsComplete
    BY <1>1, <1>3 DEF FetchInit, OfferIsComplete, Slots
  <1> QED
    BY <1>1, <1>2, <1>5, <1>6
    DEF FetchInit, BufferInv, BufferMirrorsImage, UpperBitsClear, EndsOnWord

\* No answer at all is a well-formed answer.
LEMMA NoResponse ==
    [ack |-> FALSE, word |-> [h \in 0 .. 1 |-> ZeroSlot]] \in Response
  BY FetchAssumption DEF Response, ZeroSlot, Slot

\* The buffer offers the instruction, and the fault, that the current image
\* holds at if_id_pc.
LEMMA BufferOffersProgram ==
    ASSUME BufferInv PROVE OfferIsProgram
  <1> SUFFICES ASSUME ~if_id.flush PROVE OfferIsProgram
    BY DEF OfferIsProgram
  <1> DEFINE a == buffer_addr
             hf == HeadFault(buffer, a)
  <1>1. /\ buffer_idx \in 0 .. 4 /\ a \in Addr /\ if_id.pc = a
        /\ buffer_idx >= HeadLen(buffer)
        /\ if_id.inst = [h \in 0 .. 1 |-> buffer[h].bits]
        /\ if_id.fault = hf.fault /\ if_id.tval = hf.tval
        /\ \A i \in Slots : i < buffer_idx => buffer[i] = image[Plus(a, i)]
    BY DEF BufferInv, FetchTypeOK, OfferIsComplete, BufferMirrorsImage
  <1>2. Plus(a, 0) = a /\ 0 \in Slots /\ 1 \in Slots
    BY <1>1, FetchAssumption DEF Plus, Addr, Slots
  <1>3. buffer[0] = image[a]
    BY <1>1, <1>2 DEF HeadLen
  <1>4. HeadLong(buffer) => buffer[1] = image[Plus(a, 1)]
    BY <1>1, <1>2 DEF HeadLen
  <1>5. HeadLong(buffer) <=> LongAt(image, a)
    BY <1>3 DEF HeadLong, LongAt
  <1>6. if_id.inst[0] = buffer[0].bits /\ if_id.inst[1] = buffer[1].bits
    BY <1>1
  <1>7. CASE image[a].af \/ image[a].pf
    <2>1. FirstFault(image, a) = a
      BY <1>7 DEF FirstFault
    <2>2. hf = [fault |-> IF image[a].af THEN "access" ELSE "page", tval |-> a]
      BY <1>3, <1>7 DEF HeadFault
    <2> QED
      BY <1>1, <1>3, <1>4, <1>5, <1>6, <1>7, <2>1, <2>2 DEF OfferIsProgram, FaultAt
  <1>8. CASE ~(image[a].af \/ image[a].pf) /\ HeadLong(buffer)
    <2>1. FirstFault(image, a) = Plus(a, 1)
      BY <1>5, <1>8 DEF FirstFault
    <2>2. hf = IF image[Plus(a, 1)].af \/ image[Plus(a, 1)].pf
               THEN [fault |-> IF image[Plus(a, 1)].af THEN "access" ELSE "page",
                     tval |-> Plus(a, 1)]
               ELSE [fault |-> "none", tval |-> 0]
      BY <1>3, <1>4, <1>8 DEF HeadFault
    <2>3. hf.fault = IF image[Plus(a, 1)].af THEN "access"
                     ELSE IF image[Plus(a, 1)].pf THEN "page" ELSE "none"
      BY <2>2
    <2>4. hf.fault # "none" => hf.tval = Plus(a, 1)
      BY <2>2
    <2> HIDE DEF hf
    <2> QED
      BY <1>1, <1>3, <1>4, <1>5, <1>6, <1>8, <2>1, <2>3, <2>4 DEF OfferIsProgram, FaultAt
  <1>9. CASE ~(image[a].af \/ image[a].pf) /\ ~HeadLong(buffer)
    <2>1. FirstFault(image, a) = a
      BY <1>5, <1>9 DEF FirstFault
    <2>2. hf = [fault |-> "none", tval |-> 0]
      BY <1>3, <1>9 DEF HeadFault
    <2> QED
      BY <1>1, <1>3, <1>5, <1>6, <1>9, <2>1, <2>2 DEF OfferIsProgram, FaultAt
  <1> QED
    BY <1>7, <1>8, <1>9
=============================================================================
