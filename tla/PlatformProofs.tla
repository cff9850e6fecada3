--------------------------- MODULE PlatformProofs ---------------------------
(***************************************************************************)
(* The claims of the PLIC and the ring of the UART, for any ring size, any *)
(* typing and any set-up of the devices.  PlatformInv is inductive, and on *)
(* top of it UartInv: one lemma per process of the clock cycle.  The ring  *)
(* implements a queue because its slots are those of the queue's elements, *)
(* modulo the ring's size.                                                 *)
(***************************************************************************)
EXTENDS Platform, SequenceTheorems, TLAPS

LEMMA InitInv == Init => PlatformInv
  <1> SUFFICES ASSUME Init PROVE PlatformInv
    OBVIOUS
  <1>1. /\ claim_mask = {} /\ todo = Edge /\ busy = FALSE /\ din = NoStore
        /\ irq = [c \in Contexts |-> 0] /\ clm = [c \in Contexts |-> 0]
        /\ cmplt = [c \in Contexts |-> 0] /\ at = [c \in Contexts |-> "off"]
    BY DEF Init, PlicInit
  <1>2. PlicTypeOK
    BY <1>1 DEF PlicTypeOK, Places
  <1>3. BusInv
    BY <1>1 DEF BusInv, NoStore, Edge
  <1>4. ClaimExclusive /\ MaskFollowsClaim /\ HandlerHoldsClaim
    BY <1>1 DEF ClaimExclusive, MaskFollowsClaim, HandlerHoldsClaim, Contexts, Source
  <1> QED
    BY <1>2, <1>3, <1>4 DEF PlatformInv

\* A completion takes the source out of the mask and stays visible until the
\* next update.
LEMMA UpdateMemoryStep == PlatformInv /\ UpdateMemory => PlatformInv'
  <1> SUFFICES ASSUME PlatformInv, UpdateMemory PROVE PlatformInv'
    OBVIOUS
  <1>1. /\ "update_memory" \in todo /\ todo' = todo \ {"update_memory"}
        /\ din' = NoStore /\ busy' = busy /\ at' = at
    BY DEF UpdateMemory, softVars
  <1>2. CASE UNCHANGED <<claim_mask, irq, clm, cmplt>>
    BY <1>1, <1>2 DEF PlatformInv, PlicTypeOK, BusInv, ClaimExclusive, MaskFollowsClaim,
                      HandlerHoldsClaim, NoStore, Edge
  <1>3. CASE din.reg = "CLAIM" /\ Complete(din.ctx, din.val)
    <2>1. /\ din.val = Source /\ din.ctx \in Contexts /\ clm[din.ctx] = Source
          /\ at[din.ctx] = "claim" /\ \A c \in Contexts : cmplt[c] = 0
          /\ busy
      BY <1>3 DEF PlatformInv, BusInv, NoStore
    <2>2. /\ claim_mask' = claim_mask \ {0, Source}
          /\ cmplt' = [cmplt EXCEPT ![din.ctx] = Source]
          /\ irq' = irq /\ clm' = clm
      BY <1>3, <2>1 DEF Complete
    <2>3. \A c \in Contexts : clm[c] = Source => c = din.ctx
      BY <2>1 DEF PlatformInv, ClaimExclusive, Contexts, Source
    <2>4. PlicTypeOK'
      BY <1>1, <2>1, <2>2 DEF PlatformInv, PlicTypeOK
    <2>5. BusInv'
      BY <1>1, <2>1, <2>2 DEF PlatformInv, BusInv, NoStore
    <2>6. ClaimExclusive'
      BY <2>2 DEF PlatformInv, ClaimExclusive
    <2>7. MaskFollowsClaim'
      BY <2>1, <2>2, <2>3 DEF PlatformInv, PlicTypeOK, MaskFollowsClaim
    <2>8. HandlerHoldsClaim'
      BY <1>1, <2>1, <2>2 DEF PlatformInv, PlicTypeOK, HandlerHoldsClaim
    <2> QED
      BY <2>4, <2>5, <2>6, <2>7, <2>8 DEF PlatformInv
  <1> QED
    BY <1>2, <1>3 DEF UpdateMemory, ToUart, ToPlic, plicVars, claimVars, WritePriority,
                      WriteThreshold, WriteEnable

\* plat_update ends the claims that were completed and renews the lines.
LEMMA PlatUpdateStep == PlatformInv /\ PlatUpdate => PlatformInv'
  <1> SUFFICES ASSUME PlatformInv, PlatUpdate PROVE PlatformInv'
    OBVIOUS
  <1>1. /\ "plat_update" \in todo /\ todo' = todo \ {"plat_update"}
        /\ din' = din /\ busy' = busy /\ at' = at
        /\ Update(iir' # 1)
    BY DEF PlatUpdate, softVars
  <1>2. /\ source_pending' => Source \notin claim_mask
        /\ clm' = [c \in Contexts |-> IF cmplt[c] = clm[c] THEN 0 ELSE clm[c]]
        /\ irq' = [c \in Contexts |-> Line(c)]
        /\ cmplt' = [c \in Contexts |-> 0]
        /\ claim_mask' = claim_mask
    BY <1>1 DEF Update, Pending
  <1>3. \A c \in Contexts : Line(c) \in {0, Source} /\ (clm'[c] = Source => Line(c) = Source)
    BY <1>2 DEF Line, PlatformInv, PlicTypeOK
  <1>4. PlicTypeOK'
    BY <1>1, <1>2, <1>3 DEF PlatformInv, PlicTypeOK
  <1>5. \A c \in Contexts : clm'[c] = Source <=> (clm[c] = Source /\ cmplt[c] # Source)
    BY <1>2 DEF PlatformInv, PlicTypeOK, Source
  <1>6. MaskFollowsClaim'
    BY <1>2, <1>5 DEF PlatformInv, MaskFollowsClaim, Source
  <1>7. ClaimExclusive'
    BY <1>4, <1>5 DEF PlatformInv, PlicTypeOK, ClaimExclusive, Source
  <1>8. HandlerHoldsClaim'
    BY <1>1, <1>2, <1>5 DEF PlatformInv, HandlerHoldsClaim, Source
  <1>9. ASSUME NEW c \in Contexts, irq'[c] = Source, NEW d \in Contexts \ {c}
        PROVE  clm'[d] = 0
    <2>1. CASE Raised(c)
      BY <1>2, <1>5, <1>6, <1>4, <2>1 DEF Raised, MaskFollowsClaim, PlicTypeOK, Source
    <2>2. CASE ~Raised(c)
      BY <1>2, <1>4, <1>7, <1>9, <2>2 DEF Line, ClaimExclusive, PlicTypeOK, Contexts, Source
    <2> QED
      BY <2>1, <2>2
  <1>10. BusInv'
    <2>1. din'.reg = "CLAIM" =>
              /\ din'.val = Source /\ din'.ctx \in Contexts
              /\ clm'[din'.ctx] = Source /\ at'[din'.ctx] = "claim"
              /\ \A c \in Contexts : cmplt'[c] = 0
      BY <1>1, <1>2, <1>5 DEF PlatformInv, BusInv, Source
    <2> QED
      BY <1>1, <1>2, <1>3, <1>9, <2>1 DEF PlatformInv, BusInv
  <1> QED
    BY <1>4, <1>6, <1>7, <1>8, <1>10 DEF PlatformInv

\* No completion is under way, and the lines are fresh, when the next
\* request can be made.
LEMMA PortIsFree ==
    ASSUME PlatformInv, todo = {}, ~busy
    PROVE  /\ din = NoStore
           /\ \A c \in Contexts : cmplt[c] = 0
           /\ \A c \in Contexts : clm[c] = Source => irq[c] = Source
           /\ \A c \in Contexts : irq[c] = Source => \A d \in Contexts \ {c} : clm[d] = 0
  BY DEF PlatformInv, BusInv

LEMMA ClaimStep ==
    ASSUME PlatformInv, todo = {}, ~busy, todo' = Edge, busy' = TRUE, din' = din,
           NEW c \in Contexts, Claim(c), Goto(c, IF irq[c] = Source THEN "iir" ELSE "off")
    PROVE  PlatformInv'
  <1>1. /\ claim_mask' = claim_mask \cup {clm[c], irq[c]}
        /\ clm' = [clm EXCEPT ![c] = irq[c]]
        /\ irq' = irq /\ cmplt' = cmplt
        /\ at' = [at EXCEPT ![c] = IF irq[c] = Source THEN "iir" ELSE "off"]
    BY DEF Claim, Goto
  <1>2. PlicTypeOK'
    BY <1>1 DEF PlatformInv, PlicTypeOK, Places, Edge
  <1>3. BusInv'
    BY <1>1, PortIsFree DEF BusInv, NoStore, Edge
  <1>4. ClaimExclusive'
    <2>1. CASE irq[c] = Source
      BY <1>1, <2>1, PortIsFree DEF PlatformInv, PlicTypeOK, ClaimExclusive, Contexts
    <2>2. CASE irq[c] = 0
      BY <1>1, <2>2 DEF PlatformInv, PlicTypeOK, ClaimExclusive
    <2> QED
      BY <2>1, <2>2 DEF PlatformInv, PlicTypeOK
  <1>5. MaskFollowsClaim'
    <2>1. CASE irq[c] = Source
      BY <1>1, <2>1, PortIsFree DEF PlatformInv, PlicTypeOK, MaskFollowsClaim, Source
    <2>2. CASE irq[c] = 0
      <3>1. clm[c] = 0
        BY <2>2, PortIsFree DEF PlatformInv, PlicTypeOK, Source
      <3>2. clm' = clm /\ (Source \in claim_mask' <=> Source \in claim_mask)
        BY <1>1, <2>2, <3>1 DEF PlatformInv, PlicTypeOK, Source
      <3> QED
        BY <1>1, <3>2 DEF PlatformInv, MaskFollowsClaim
    <2> QED
      BY <2>1, <2>2 DEF PlatformInv, PlicTypeOK
  <1>6. HandlerHoldsClaim'
    BY <1>1, PortIsFree DEF PlatformInv, PlicTypeOK, HandlerHoldsClaim
  <1> QED
    BY <1>2, <1>3, <1>4, <1>5, <1>6 DEF PlatformInv

\* Every other step of a handler keeps the claim and moves on.
LEMMA HandlerStep ==
    ASSUME PlatformInv, todo = {}, ~busy, todo' = Edge, busy' \in BOOLEAN,
           UNCHANGED <<claim_mask, irq, clm, cmplt>>,
           NEW c \in Contexts, NEW p \in Places, Goto(c, p),
           p \notin {"off", "claim"} => at[c] \notin {"off", "claim"},
           \/ din' = NoStore
           \/ din'.reg # "CLAIM" /\ busy'
           \/ /\ din' = [reg |-> "CLAIM", ctx |-> c, val |-> Source] /\ busy'
              /\ at[c] = "complete" /\ p = "claim"
    PROVE  PlatformInv'
  <1>1. at' = [at EXCEPT ![c] = p] /\ at' \in [Contexts -> Places]
    BY DEF Goto, PlatformInv, PlicTypeOK
  <1>2. PlicTypeOK' /\ ClaimExclusive' /\ MaskFollowsClaim'
    BY <1>1 DEF PlatformInv, PlicTypeOK, ClaimExclusive, MaskFollowsClaim, Edge
  <1>3. HandlerHoldsClaim'
    BY <1>1 DEF PlatformInv, PlicTypeOK, HandlerHoldsClaim
  <1>4. BusInv'
    <2>1. din' # NoStore => busy'
      OBVIOUS
    <2>2. din'.reg = "CLAIM" =>
              /\ din'.val = Source /\ din'.ctx \in Contexts
              /\ clm'[din'.ctx] = Source /\ at'[din'.ctx] = "claim"
              /\ \A e \in Contexts : cmplt'[e] = 0
      BY <1>1, PortIsFree DEF PlatformInv, PlicTypeOK, HandlerHoldsClaim, NoStore
    <2> QED
      BY <2>1, <2>2 DEF BusInv, Edge
  <1> QED
    BY <1>2, <1>3, <1>4 DEF PlatformInv

LEMMA CpuStep == PlatformInv /\ Cpu => PlatformInv'
  <1> SUFFICES ASSUME PlatformInv, Cpu PROVE PlatformInv'
    OBVIOUS
  <1>1. todo = {} /\ todo' = Edge
    BY DEF Cpu
  <1>2. CASE busy /\ NoRequest /\ UNCHANGED softVars
    <2>1. /\ din = NoStore /\ din' = din /\ busy' = FALSE /\ at' = at
          /\ UNCHANGED <<claim_mask, irq, clm, cmplt>>
      BY <1>1, <1>2 DEF NoRequest, softVars, plicVars, claimVars, PlatformInv, BusInv
    <2> QED
      BY <1>1, <2>1 DEF PlatformInv, PlicTypeOK, BusInv, ClaimExclusive, MaskFollowsClaim,
                        HandlerHoldsClaim, NoStore, Edge
  <1>3. ASSUME ~busy, NEW c \in Contexts, TakeTrap(c) PROVE PlatformInv'
    BY <1>1, <1>3, PortIsFree, HandlerStep
       DEF TakeTrap, NoRequest, plicVars, claimVars, Places
  <1>4. ASSUME ~busy, NEW c \in Contexts, Handle(c) PROVE PlatformInv'
    <2>1. CASE at[c] = "claim" /\ Load /\ Claim(c)
               /\ Goto(c, IF irq[c] = Source THEN "iir" ELSE "off")
      BY <1>1, <1>4, <2>1, ClaimStep DEF Load
    <2>2. CASE /\ at[c] \in {"iir", "lsr", "rbr"} /\ Load /\ UNCHANGED plicVars
               /\ \E p \in {"lsr", "rbr", "thr"} : Goto(c, p)
      <3>1. PICK p \in {"lsr", "rbr", "thr"} : Goto(c, p)
        BY <2>2
      <3>2. /\ p \in Places /\ at[c] \notin {"off", "claim"} /\ busy' \in BOOLEAN
            /\ UNCHANGED <<claim_mask, irq, clm, cmplt>> /\ din' = NoStore
        BY <1>1, <1>4, <2>2, PortIsFree DEF Load, plicVars, claimVars, Places
      <3> QED
        BY <1>1, <1>4, <3>1, <3>2, HandlerStep
    <2>3. CASE /\ at[c] = "thr" /\ (Store([reg |-> "THR"]) \/ NoRequest)
               /\ Goto(c, "complete")
      <3>1. /\ "complete" \in Places /\ busy' \in BOOLEAN
            /\ UNCHANGED <<claim_mask, irq, clm, cmplt>>
            /\ at[c] \notin {"off", "claim"}
        BY <2>3 DEF Store, NoRequest, plicVars, claimVars, Places
      <3>2. din' = NoStore \/ (din'.reg # "CLAIM" /\ busy')
        BY <1>1, <1>4, <2>3, PortIsFree DEF Store, NoRequest
      <3> QED
        BY <1>1, <1>4, <2>3, <3>1, <3>2, HandlerStep
    <2>4. CASE /\ at[c] = "complete"
               /\ Store([reg |-> "CLAIM", ctx |-> c, val |-> Source])
               /\ Goto(c, "claim")
      BY <1>1, <1>4, <2>4, HandlerStep DEF Store, plicVars, claimVars, Places
    <2> QED
      BY <1>4, <2>1, <2>2, <2>3, <2>4 DEF Handle
  <1>5. CASE ~busy /\ Background
    <2>1. at' = at /\ UNCHANGED <<claim_mask, irq, clm, cmplt>> /\ busy' \in BOOLEAN
      BY <1>5 DEF Background, Store, NoRequest, plicVars, claimVars
    <2>2. \A st \in Configs : st.reg # "CLAIM"
      BY PlatformAssumption DEF ConfigStores
    <2>3. din' = NoStore \/ (din'.reg # "CLAIM" /\ busy')
      BY <1>1, <1>5, <2>2, PortIsFree DEF Background, Store, NoRequest
    <2> QED
      BY <1>1, <1>5, <2>1, <2>3, PortIsFree
         DEF PlatformInv, PlicTypeOK, BusInv, ClaimExclusive, MaskFollowsClaim,
             HandlerHoldsClaim, NoStore, Edge
  <1> QED
    BY <1>2, <1>3, <1>4, <1>5 DEF Cpu

\* The invariant of the bus and of the claims holds in every state.
THEOREM PlatformInvariant == Spec => []PlatformInv
  <1>1. PlatformInv /\ UNCHANGED vars => PlatformInv'
    BY DEF vars, plicVars, claimVars, busVars, softVars, PlatformInv, PlicTypeOK, BusInv,
           ClaimExclusive, MaskFollowsClaim, HandlerHoldsClaim
  <1> QED
    BY <1>1, InitInv, UpdateMemoryStep, PlatUpdateStep, CpuStep, PTL DEF Spec, Next

\* No two contexts hold the source at once.
THEOREM ClaimExclusiveAlways == Spec => []ClaimExclusive
  BY PlatformInvariant, PTL DEF PlatformInv

\* The source is masked exactly while it is claimed and not completed, so
\* that it can always interrupt again.
THEOREM MaskFollowsClaimAlways == Spec => []MaskFollowsClaim
  BY PlatformInvariant, PTL DEF PlatformInv

\* A handler never loses its claim before it completes it.
THEOREM HandlerHoldsClaimAlways == Spec => []HandlerHoldsClaim
  BY PlatformInvariant, PTL DEF PlatformInv

(***************************************************************************)
(* No input goes unsignalled.                                              *)
(***************************************************************************)

\* The source is either unmasked, and interrupts who listens, or masked by a
\* claim, which holds the line of its context.
LEMMA PlatUpdateSignals ==
    ASSUME PlatformInv, PlatUpdate, DataReady', Listening'
    PROVE  \E c \in Contexts : irq'[c] = Source
  <1>1. /\ UNCHANGED <<uart_buf_begin, ier>> /\ Update(iir' # 1)
        /\ iir' = IrqOf(uart_buf_begin, uart_buf_end', ier, thri)
    BY DEF PlatUpdate, ringVars, KeyboardInput
  <1>2. /\ source_pending' = Pending(iir' # 1)
        /\ clm' = [c \in Contexts |-> IF cmplt[c] = clm[c] THEN 0 ELSE clm[c]]
        /\ irq' = [c \in Contexts |-> Line(c)]
        /\ UNCHANGED <<uart_priority, threshold, enable>>
    BY <1>1 DEF Update, plicConfig
  <1>3. CASE Source \in claim_mask
    <2>1. PICK c \in Contexts : clm[c] = Source /\ cmplt[c] # Source
      BY <1>3 DEF PlatformInv, MaskFollowsClaim
    <2>2. clm'[c] = Source
      BY <1>2, <2>1
    <2>3. irq'[c] = Source
      BY <1>2, <2>2 DEF Line
    <2> QED
      BY <2>3
  <1>4. CASE Source \notin claim_mask
    <2>1. iir' = 4
      BY <1>1 DEF IrqOf, DataReady, Listening
    <2>2. Pending(iir' # 1)
      BY <1>4, <2>1 DEF Pending
    <2>3. source_pending'
      BY <1>2, <2>2
    <2>4. PICK c \in Contexts : enable[c] /\ uart_priority > threshold[c]
      BY <1>2 DEF Listening
    <2>5. irq'[c] = Source
      BY <1>2, <2>3, <2>4 DEF Line, Raised
    <2> QED
      BY <2>5
  <1> QED
    BY <1>3, <1>4

\* plat_update interrupts a context whenever it leaves a character to read
\* and someone listens: the mask of a claim is never left behind.
THEOREM InputSignalledAlways == Spec => InputSignalled
  <1> DEFINE Signals ==
         ("plat_update" \in todo \ todo' /\ DataReady' /\ Listening')
            => \E c \in Contexts : irq'[c] = Source
  <1>1. PlatformInv /\ [Next]_vars => [Signals]_vars
    <2> SUFFICES ASSUME PlatformInv, Next, "plat_update" \in todo \ todo',
                        DataReady', Listening'
                 PROVE  \E c \in Contexts : irq'[c] = Source
      OBVIOUS
    <2>1. ~UpdateMemory /\ ~Cpu
      BY DEF UpdateMemory, Cpu
    <2> QED
      BY <2>1, PlatUpdateSignals DEF Next
  <1> QED
    BY <1>1, PlatformInvariant, PTL DEF Spec, InputSignalled

(***************************************************************************)
(* Indices of the ring: they never leave it, so that % is an addition or a *)
(* subtraction of BufSize at most once.                                    *)
(***************************************************************************)
LEMMA Modulo ==
    ASSUME NEW a \in Int, -BufSize <= a, a < 2 * BufSize
    PROVE  a % BufSize = IF a < 0 THEN a + BufSize
                         ELSE IF a < BufSize THEN a ELSE a - BufSize
  <1> BufSize \in Nat /\ BufSize >= 2
    BY UartAssumption
  <1>1. CASE a < 0
    BY <1>1
  <1>2. CASE 0 <= a /\ a < BufSize
    BY <1>2
  <1>3. CASE BufSize <= a
    BY <1>3
  <1> QED
    BY <1>1, <1>2, <1>3

Index == 0 .. BufSize - 1

\* How many characters the ring between begin and end holds.
Held(begin, end) == IF begin <= end THEN end - begin ELSE end - begin + BufSize

\* Where the i-th character from begin is.
SlotOf(begin, i) == IF begin + i - 1 < BufSize THEN begin + i - 1
                                               ELSE begin + i - 1 - BufSize

LEMMA HeldIs ==
    ASSUME NEW b \in Index, NEW e \in Index
    PROVE  /\ (e - b) % BufSize = Held(b, e)
           /\ (b - e - 1) % BufSize = BufSize - 1 - Held(b, e)
           /\ Held(b, e) \in Index
  <1>1. BufSize \in Nat /\ BufSize >= 2 /\ b \in Int /\ e \in Int
    BY UartAssumption DEF Index
  <1>2. /\ -BufSize <= e - b /\ e - b < 2 * BufSize
        /\ -BufSize <= b - e - 1 /\ b - e - 1 < 2 * BufSize
    BY <1>1 DEF Index
  <1>3. (e - b) % BufSize = IF e - b < 0 THEN e - b + BufSize
                            ELSE IF e - b < BufSize THEN e - b ELSE e - b - BufSize
    BY <1>1, <1>2, Modulo
  <1>4. (b - e - 1) % BufSize =
            IF b - e - 1 < 0 THEN b - e - 1 + BufSize
            ELSE IF b - e - 1 < BufSize THEN b - e - 1 ELSE b - e - 1 - BufSize
    BY <1>1, <1>2, Modulo
  <1> QED
    BY <1>1, <1>3, <1>4 DEF Held, Index

LEMMA SlotIs ==
    ASSUME NEW b \in Index, NEW i \in 1 .. BufSize
    PROVE  (b + i - 1) % BufSize = SlotOf(b, i) /\ SlotOf(b, i) \in Index
  <1> DEFINE d == b + i - 1
  <1>1. BufSize \in Nat /\ BufSize >= 2 /\ b \in Int /\ i \in Int
    BY UartAssumption DEF Index
  <1>2. d \in Int /\ -BufSize <= d /\ d < 2 * BufSize
    BY <1>1 DEF Index
  <1> HIDE DEF d
  <1>3. d % BufSize = IF d < 0 THEN d + BufSize
                      ELSE IF d < BufSize THEN d ELSE d - BufSize
    BY <1>2, Modulo
  <1> QED
    BY <1>1, <1>3 DEF SlotOf, Index, d

\* The ring's contents.
RingSeq(buf, b, e) == [i \in 1 .. (e - b) % BufSize |-> buf[(b + i - 1) % BufSize]]

LEMMA RingIs ==
    ASSUME NEW S, NEW b \in Index, NEW e \in Index, NEW buf \in [Index -> S]
    PROVE  /\ RingSeq(buf, b, e) \in Seq(S)
           /\ Len(RingSeq(buf, b, e)) = Held(b, e)
           /\ \A i \in 1 .. Held(b, e) : RingSeq(buf, b, e)[i] = buf[SlotOf(b, i)]
  <1> DEFINE k == Held(b, e)
             r == RingSeq(buf, b, e)
  <1>1. (e - b) % BufSize = k /\ k \in Index
    BY HeldIs
  <1>2. k \in Nat /\ \A i \in 1 .. k : i \in 1 .. BufSize
    BY <1>1, UartAssumption DEF Index
  <1>3. \A i \in 1 .. k :
           (b + i - 1) % BufSize = SlotOf(b, i) /\ SlotOf(b, i) \in Index
    BY <1>2, SlotIs
  <1>4. r = [i \in 1 .. k |-> buf[SlotOf(b, i)]]
    BY <1>1, <1>3 DEF RingSeq
  <1> HIDE DEF k, r
  <1>5. r \in [1 .. k -> S] /\ \A i \in 1 .. k : r[i] = buf[SlotOf(b, i)]
    BY <1>3, <1>4
  <1>6. r \in Seq(S)
    BY <1>2, <1>5, SeqDef
  <1>7. Len(r) = k
    <2>1. DOMAIN r = 1 .. k
      BY <1>5
    <2>2. DOMAIN r = 1 .. Len(r) /\ Len(r) \in Nat
      BY <1>6, LenProperties
    <2> QED
      BY <1>2, <2>1, <2>2
  <1> QED
    BY <1>5, <1>6, <1>7 DEF k, r

(***************************************************************************)
(* Types of the UART, and the divisor latch.                               *)
(***************************************************************************)
LEMMA InitUartInv == Init => UartInv
  <1> SUFFICES ASSUME Init PROVE UartInv
    OBVIOUS
  <1>1. BufSize \in Nat /\ BufSize >= 2 /\ MaxTyped \in Nat /\ MaxSend \in Nat
    BY UartAssumption, PlatformAssumption
  <1>2. TypeOK
    <2>1. /\ uart_buf = [i \in 0 .. BufSize - 1 |-> Garbage]
          /\ uart_buf_begin = 0 /\ uart_buf_end = 0 /\ ier = {} /\ iir = 1
          /\ thri = FALSE /\ dlab = FALSE /\ irqoff = FALSE
          /\ uart_priority = 0 /\ source_pending = FALSE
          /\ threshold = [c \in Contexts |-> 0] /\ enable = [c \in Contexts |-> FALSE]
          /\ typed = 0 /\ tosend = MaxSend
      BY DEF Init, UartInit, PlicInit
    <2>2. thri \in BOOLEAN /\ dlab \in BOOLEAN /\ irqoff \in BOOLEAN /\ source_pending \in BOOLEAN
      BY <2>1, Zenon
    <2>3. enable \in [Contexts -> BOOLEAN]
      BY <2>1
    <2>4. /\ uart_buf \in [0 .. BufSize - 1 -> Char \cup {Garbage}]
          /\ uart_buf_begin \in 0 .. BufSize - 1 /\ uart_buf_end \in 0 .. BufSize - 1
          /\ ier \subseteq {"RX", "THR"} /\ iir \in {1, 2, 4}
          /\ uart_priority \in 0 .. 1 /\ threshold \in [Contexts -> 0 .. 1]
          /\ typed \in 0 .. MaxTyped /\ tosend \in 0 .. MaxSend
      BY <1>1, <2>1
    <2> QED
      BY <2>2, <2>3, <2>4, InitInv DEF TypeOK, PlatformInv, PlicTypeOK
  <1>3. LatchInv /\ StoreInv
    BY DEF Init, UartInit, LatchInv, StoreInv, NoStore
  <1> QED
    BY <1>2, <1>3 DEF UartInv

LEMMA IrqOfType ==
    ASSUME NEW b, NEW e, NEW s, NEW t
    PROVE  IrqOf(b, e, s, t) \in {1, 2, 4}
  BY DEF IrqOf

\* A line goes into the ring.
LEMMA KeyboardInputType ==
    ASSUME TypeOK, NEW line \in Lines, KeyboardInput(line)
    PROVE  /\ uart_buf' \in [Index -> Char \cup {Garbage}]
           /\ uart_buf_end' \in Index /\ uart_buf_begin' = uart_buf_begin
  <1> DEFINE n == IF Len(line) <= Room THEN Len(line) ELSE Room
             Offset(i) == (i - uart_buf_end) % BufSize
  <1>1. line \in Seq(Char) /\ Len(line) \in Nat
    BY PlatformAssumption, LenProperties
  <1>2. BufSize \in Nat /\ BufSize >= 2 /\ uart_buf_end \in Index /\ uart_buf_begin \in Index
    BY UartAssumption DEF TypeOK, Index
  <1>3. Room \in Index
    BY <1>2, HeldIs DEF Room, Index
  <1>4. n \in Nat /\ n <= Len(line) /\ n < BufSize
    BY <1>1, <1>2, <1>3 DEF Index
  <1>5. \A i \in Index : Offset(i) \in Nat
    BY <1>2, HeldIs DEF Index
  <1>6. /\ uart_buf' = [i \in Index |-> IF Offset(i) < n THEN line[Offset(i) + 1] ELSE uart_buf[i]]
        /\ uart_buf_end' = (uart_buf_end + n) % BufSize
        /\ uart_buf_begin' = uart_buf_begin
    BY DEF KeyboardInput, Index
  <1> HIDE DEF n, Offset
  <1>7. \A i \in Index : Offset(i) < n => line[Offset(i) + 1] \in Char
    BY <1>1, <1>4, <1>5, ElementOfSeq
  <1>8. uart_buf' \in [Index -> Char \cup {Garbage}]
    <2>1. uart_buf \in [Index -> Char \cup {Garbage}]
      BY DEF TypeOK, Index
    <2> QED
      BY <1>6, <1>7, <2>1
  <1>9. uart_buf_end' \in Index
    <2>1. n + 1 \in 1 .. BufSize /\ uart_buf_end + (n + 1) - 1 = uart_buf_end + n
      BY <1>2, <1>4 DEF Index
    <2> QED
      BY <1>2, <1>6, <2>1, SlotIs
  <1> QED
    BY <1>6, <1>8, <1>9

\* A store reaches its device: registers take values of their type.
LEMMA UpdateMemoryUart ==
    ASSUME PlatformInv, PlatformInv', UartInv, UpdateMemory
    PROVE  UartInv'
  <1> USE DEF UartInv
  <1>1. /\ din' = NoStore /\ UNCHANGED <<at, irqoff, tosend, last, typed>>
    BY DEF UpdateMemory, softVars
  <1>2. UNCHANGED ringVars
    BY DEF UpdateMemory, ToUart, ToPlic, uartVars, WriteThr, WriteIer, WriteLcr
  <1>3. thri' \in BOOLEAN /\ ier' \subseteq {"RX", "THR"} /\ iir' \in {1, 2, 4}
    <2>1. thri \in BOOLEAN /\ ier \subseteq {"RX", "THR"} /\ iir \in {1, 2, 4}
      BY DEF TypeOK
    <2>2. CASE ToUart
      BY <2>1, <2>2, IrqOfType DEF ToUart, WriteThr, WriteIer, WriteLcr, StoreInv
    <2>3. CASE UNCHANGED uartVars
      BY <2>1, <2>3 DEF uartVars
    <2> QED
      BY <2>2, <2>3 DEF UpdateMemory, ToPlic
  <1>4. dlab' = irqoff
    <2>1. CASE din.reg = "LCR"
      BY <2>1 DEF UpdateMemory, ToUart, ToPlic, WriteLcr, LatchInv, NoStore
    <2>2. CASE din.reg # "LCR"
      BY <2>2 DEF UpdateMemory, ToUart, ToPlic, uartVars, WriteThr, WriteIer, LatchInv
    <2> QED
      BY <2>1, <2>2
  <1>5. /\ uart_priority' \in 0 .. 1
        /\ threshold' \in [Contexts -> 0 .. 1] /\ enable' \in [Contexts -> BOOLEAN]
        /\ source_pending' \in BOOLEAN
    <2>1. /\ uart_priority \in 0 .. 1
          /\ threshold \in [Contexts -> 0 .. 1] /\ enable \in [Contexts -> BOOLEAN]
          /\ source_pending \in BOOLEAN
      BY DEF TypeOK
    <2>2. CASE UNCHANGED <<plicConfig, source_pending>>
      BY <2>1, <2>2 DEF plicConfig
    <2>3. CASE din.reg = "PRIORITY" /\ WritePriority(din.val)
      BY <2>1, <2>3 DEF WritePriority, StoreInv
    <2>4. CASE din.reg = "THRESHOLD" /\ WriteThreshold(din.ctx, din.val)
      BY <2>1, <2>4 DEF WriteThreshold, StoreInv
    <2>5. CASE din.reg = "ENABLE" /\ WriteEnable(din.ctx, din.val)
      BY <2>1, <2>5 DEF WriteEnable, StoreInv
    <2> QED
      BY <2>2, <2>3, <2>4, <2>5 DEF UpdateMemory, ToUart, ToPlic, plicVars, Complete
  <1>6. TypeOK'
    BY <1>1, <1>2, <1>3, <1>4, <1>5 DEF TypeOK, ringVars, PlatformInv, PlicTypeOK
  <1>7. LatchInv' /\ StoreInv'
    BY <1>1, <1>4 DEF LatchInv, StoreInv, NoStore
  <1> QED
    BY <1>6, <1>7

\* plat_update moves the end of the ring and renews the interrupt.
LEMMA PlatUpdateUart ==
    ASSUME PlatformInv, PlatformInv', UartInv, PlatUpdate
    PROVE  UartInv'
  <1> USE DEF UartInv
  <1>1. UNCHANGED <<thri, ier, dlab, din, busy, at, irqoff, tosend, last, plicConfig>>
    BY DEF PlatUpdate, softVars, Update
  <1>2. /\ uart_buf' \in [0 .. BufSize - 1 -> Char \cup {Garbage}]
        /\ uart_buf_begin' \in 0 .. BufSize - 1 /\ uart_buf_end' \in 0 .. BufSize - 1
    BY KeyboardInputType DEF PlatUpdate, ringVars, TypeOK, Index
  <1>3. typed' \in 0 .. MaxTyped
    BY PlatformAssumption DEF PlatUpdate, TypeOK
  <1>4. iir' \in {1, 2, 4} /\ source_pending' \in BOOLEAN
    BY IrqOfType DEF PlatUpdate, Update, Pending
  <1>5. TypeOK'
    BY <1>1, <1>2, <1>3, <1>4 DEF TypeOK, plicConfig, PlatformInv, PlicTypeOK
  <1> QED
    BY <1>1, <1>5 DEF LatchInv, StoreInv

\* A request of software: the latch moves only with interrupts off.
LEMMA CpuUart ==
    ASSUME PlatformInv, PlatformInv', UartInv, Cpu
    PROVE  UartInv'
  <1> USE DEF UartInv
  <1>1. todo = {} /\ typed' = typed /\ UNCHANGED <<uart_buf, uart_buf_end, ier, dlab>>
        /\ UNCHANGED <<plicConfig, source_pending>>
    BY DEF Cpu, NoRequest, TakeTrap, Handle, Background, Store, Claim, ReadIir, ReadRbr,
           uartVars, ringVars, plicVars
  <1>2. din = NoStore
    BY <1>1 DEF PlatformInv, BusInv
  <1>3. /\ uart_buf_begin' \in 0 .. BufSize - 1 /\ iir' \in {1, 2, 4} /\ thri' \in BOOLEAN
    <2>1. /\ uart_buf_begin \in 0 .. BufSize - 1 /\ iir \in {1, 2, 4} /\ thri \in BOOLEAN
      BY DEF TypeOK
    <2>2. CASE UNCHANGED uartVars
      BY <2>1, <2>2 DEF uartVars, ringVars
    <2>3. CASE ReadIir
      BY <2>1, <2>3, IrqOfType DEF ReadIir, ringVars, UartIrq
    <2>4. CASE ReadRbr
      <3>1. (uart_buf_begin + 1) % BufSize \in 0 .. BufSize - 1
        BY <2>1, UartAssumption
      <3> QED
        BY <2>1, <2>4, <3>1, IrqOfType DEF ReadRbr
    <2> QED
      BY <2>2, <2>3, <2>4 DEF Cpu, NoRequest, TakeTrap, Handle, Background, Store
  <1>4. tosend' \in 0 .. MaxSend
    BY PlatformAssumption
       DEF Cpu, NoRequest, TakeTrap, Handle, Background, Store, TypeOK, softVars
  <1>5. irqoff' \in BOOLEAN /\ LatchInv'
    <2>1. irqoff \in BOOLEAN /\ dlab = irqoff
      BY <1>2 DEF TypeOK, LatchInv, NoStore
    <2>2. CASE Store([reg |-> "LCR", val |-> ~irqoff]) /\ irqoff' = ~irqoff /\ at' = at
               /\ \A c \in Contexts : at[c] = "off"
      BY <1>1, <2>1, <2>2 DEF Store, LatchInv
    <2>3. CASE irqoff' = irqoff /\ (irqoff => at' = at) /\ din'.reg # "LCR"
      BY <1>1, <2>1, <2>3 DEF LatchInv
    <2>4. \A st \in Configs : st.reg # "LCR"
      BY PlatformAssumption DEF ConfigStores
    <2>5. CASE NoRequest /\ UNCHANGED softVars
      BY <1>2, <2>3, <2>5 DEF NoRequest, softVars, NoStore
    <2>6. ASSUME NEW c \in Contexts, TakeTrap(c) PROVE irqoff' \in BOOLEAN /\ LatchInv'
      BY <1>2, <2>3, <2>6 DEF TakeTrap, Interruptible, NoRequest, NoStore
    <2>7. ASSUME NEW c \in Contexts, Handle(c) PROVE irqoff' \in BOOLEAN /\ LatchInv'
      <3>1. ~irqoff /\ irqoff' = irqoff
        BY <2>7 DEF Handle, Running, LatchInv
      <3>2. din'.reg # "LCR"
        BY <1>2, <2>7 DEF Handle, Load, Store, NoRequest, NoStore
      <3> QED
        BY <2>3, <3>1, <3>2
    <2>8. CASE Background
      <3>1. at' = at /\ \A c \in Contexts : at[c] = "off"
        BY <2>8 DEF Background
      <3>2. CASE Store([reg |-> "LCR", val |-> ~irqoff]) /\ irqoff' = ~irqoff
        BY <2>2, <3>1, <3>2
      <3>3. CASE irqoff' = irqoff /\ \E st \in Configs : Store(st)
        BY <2>3, <2>4, <3>1, <3>3 DEF Store
      <3>4. CASE irqoff' = irqoff /\ (Store([reg |-> "THR"]) \/ NoRequest)
        BY <1>2, <2>3, <3>1, <3>4 DEF Store, NoRequest, NoStore
      <3> QED
        BY <2>8, <3>2, <3>3, <3>4 DEF Background
    <2> QED
      BY <2>5, <2>6, <2>7, <2>8 DEF Cpu
  <1>6. StoreInv'
    <2>1. \A st \in Configs :
             /\ st.reg = "IER" => st.val \subseteq {"RX", "THR"}
             /\ st.reg = "PRIORITY" => st.val \in 0 .. 1
             /\ st.reg = "THRESHOLD" => st.ctx \in Contexts /\ st.val \in 0 .. 1
             /\ st.reg = "ENABLE" => st.ctx \in Contexts /\ st.val \in BOOLEAN
      BY PlatformAssumption DEF ConfigStores
    <2>2. \/ din' = NoStore \/ din' \in Configs
          \/ din'.reg \in {"THR", "LCR", "CLAIM"}
      BY <1>2 DEF Cpu, TakeTrap, Handle, Background, Load, Store, NoRequest
    <2>3. CASE din' \in Configs
      BY <2>1, <2>3 DEF StoreInv
    <2>4. CASE din' = NoStore \/ din'.reg \in {"THR", "LCR", "CLAIM"}
      BY <2>4 DEF StoreInv, NoStore
    <2> QED
      BY <2>2, <2>3, <2>4
  <1>7. TypeOK'
    BY <1>1, <1>3, <1>4, <1>5 DEF TypeOK, plicConfig, PlatformInv, PlicTypeOK
  <1> QED
    BY <1>5, <1>6, <1>7

\* The registers of the UART and of the PLIC keep their types, and the
\* divisor latch is closed whenever a handler runs.
THEOREM UartInvariant == Spec => []UartInv
  <1>1. UartInv /\ UNCHANGED vars => UartInv'
    BY DEF vars, uartVars, ringVars, plicVars, plicConfig, claimVars, busVars, softVars,
           UartInv, TypeOK, LatchInv, StoreInv
  <1>2. PlatformInv /\ PlatformInv' /\ UartInv /\ [Next]_vars => UartInv'
    BY <1>1, UpdateMemoryUart, PlatUpdateUart, CpuUart DEF Next
  <1> QED
    BY <1>2, InitUartInv, PlatformInvariant, PTL DEF Spec

\* Types of every register of the two devices, of the bus and of software.
THEOREM TypeAlways == Spec => []TypeOK
  BY UartInvariant, PTL DEF UartInv

(***************************************************************************)
(* The ring implements the queue of InputQueue: what plat_update types is  *)
(* a Put, a read of RBR a Get, and every other step leaves the queue alone.*)
(***************************************************************************)
LEMMA ReceivedKept ==
    ASSUME UNCHANGED ringVars
    PROVE  Received' = Received
  BY DEF ringVars, Received

LEMMA PutRefines ==
    ASSUME UartInv, UartInv', NEW line \in Lines, KeyboardInput(line),
           typed' = typed + 1, last' = last
    PROVE  Fifo!Put
  <1> DEFINE b == uart_buf_begin
             e == uart_buf_end
             S == Char \cup {Garbage}
             k == Held(b, e)
             n == IF Len(line) <= Room THEN Len(line) ELSE Room
             Offset(i) == (i - e) % BufSize
  <1>1. /\ line \in Seq(Char) /\ Len(line) \in Nat
        /\ \A i \in 1 .. Len(line) : line[i] \in S
    BY PlatformAssumption, LenProperties, ElementOfSeq
  <1>2. BufSize \in Nat /\ BufSize >= 2 /\ e \in Index /\ b \in Index
    BY UartAssumption DEF UartInv, TypeOK, Index
  <1>3. Room = BufSize - 1 - k /\ k \in Index
    BY <1>2, HeldIs DEF Room
  <1>4. n \in Nat /\ n <= Len(line) /\ k + n < BufSize
    BY <1>1, <1>2, <1>3 DEF Index
  <1>5. /\ uart_buf' = [i \in Index |-> IF Offset(i) < n THEN line[Offset(i) + 1] ELSE uart_buf[i]]
        /\ uart_buf_end' = (e + n) % BufSize
        /\ uart_buf_begin' = b
    BY DEF KeyboardInput, Index
  <1>6. /\ Received \in Seq(S) /\ Len(Received) = k
        /\ \A i \in 1 .. k : Received[i] = uart_buf[SlotOf(b, i)]
    <2>1. uart_buf \in [Index -> S]
      BY DEF UartInv, TypeOK, Index
    <2>2. Received = RingSeq(uart_buf, b, e)
      BY DEF Received, RingSeq
    <2> HIDE DEF b, e, S
    <2> QED
      BY <1>2, <2>1, <2>2, RingIs
  <1>7. /\ Received' \in Seq(S) /\ Len(Received') = Held(b, uart_buf_end')
        /\ \A i \in 1 .. Held(b, uart_buf_end') : Received'[i] = uart_buf'[SlotOf(b, i)]
    <2>1. uart_buf' \in [Index -> S] /\ uart_buf_end' \in Index
      BY DEF UartInv, TypeOK, Index
    <2>2. Received' = RingSeq(uart_buf', b, uart_buf_end')
      BY <1>5 DEF Received, RingSeq
    <2> DEFINE buf1 == uart_buf'
               e1 == uart_buf_end'
    <2> HIDE DEF b, e, S, buf1, e1
    <2>3. buf1 \in [Index -> S] /\ e1 \in Index /\ b \in Index
      BY <1>2, <2>1 DEF buf1, e1
    <2>4. /\ RingSeq(buf1, b, e1) \in Seq(S) /\ Len(RingSeq(buf1, b, e1)) = Held(b, e1)
          /\ \A i \in 1 .. Held(b, e1) : RingSeq(buf1, b, e1)[i] = buf1[SlotOf(b, i)]
      BY <2>3, RingIs
    <2> QED
      BY <2>2, <2>4 DEF buf1, e1
  <1> HIDE DEF b, e, S, k, n
  <1>8. Held(b, uart_buf_end') = k + n
    <2>1. n + 1 \in 1 .. BufSize /\ e + (n + 1) - 1 = e + n
      BY <1>2, <1>3, <1>4 DEF Index
    <2>2. uart_buf_end' = SlotOf(e, n + 1)
      BY <1>2, <1>5, <2>1, SlotIs
    <2> QED
      BY <1>2, <1>3, <1>4, <2>1, <2>2 DEF k, Held, SlotOf, Index
  <1>9. ASSUME NEW i \in 1 .. k + n
        PROVE  uart_buf'[SlotOf(b, i)] = IF i <= k THEN uart_buf[SlotOf(b, i)] ELSE line[i - k]
    <2>1. i \in 1 .. BufSize /\ SlotOf(b, i) \in Index
      <3>1. i \in 1 .. BufSize
        BY <1>2, <1>3, <1>4 DEF Index
      <3> QED
        BY <1>2, <3>1, SlotIs
    <2>2. Offset(SlotOf(b, i)) = Held(e, SlotOf(b, i))
      BY <1>2, <2>1, HeldIs
    <2> HIDE DEF Offset
    <2>3. i <= k => Offset(SlotOf(b, i)) >= n
      BY <1>2, <1>3, <1>4, <2>1, <2>2 DEF k, Held, SlotOf, Index
    <2>4. i > k => Offset(SlotOf(b, i)) = i - k - 1
      BY <1>2, <1>3, <1>4, <2>1, <2>2 DEF k, Held, SlotOf, Index
    <2>5. i > k => i - k - 1 < n /\ i - k - 1 + 1 = i - k
      BY <1>3, <1>4 DEF Index
    <2>6. uart_buf'[SlotOf(b, i)] = IF Offset(SlotOf(b, i)) < n
                                    THEN line[Offset(SlotOf(b, i)) + 1] ELSE uart_buf[SlotOf(b, i)]
      BY <1>5, <2>1
    <2>7. Offset(SlotOf(b, i)) \in Int /\ n \in Int /\ k \in Int /\ i \in Int
      BY <1>2, <1>3, <1>4, <2>1, <2>2 DEF Held, Index
    <2> QED
      BY <2>3, <2>4, <2>5, <2>6, <2>7
  <1> DEFINE add == SubSeq(line, 1, n)
  <1>10. /\ add \in Seq(S) /\ Len(add) = n
         /\ \A i \in 1 .. n : add[i] = line[i]
    <2>1. \A i \in 1 .. n : line[i] \in S
      BY <1>1, <1>4
    <2> QED
      BY <1>4, <2>1, SubSeqProperties
  <1> HIDE DEF add
  <1>11. Received' = Received \o add
    <2>1. /\ Received \o add \in Seq(S) /\ Len(Received \o add) = k + n
          /\ \A i \in 1 .. k + n : (Received \o add)[i] =
                IF i <= k THEN Received[i] ELSE add[i - k]
      <3>1. /\ Received \o add \in Seq(S)
            /\ Len(Received \o add) = Len(Received) + Len(add)
            /\ \A i \in 1 .. Len(Received) + Len(add) : (Received \o add)[i] =
                  IF i <= Len(Received) THEN Received[i] ELSE add[i - Len(Received)]
        BY <1>6, <1>10, ConcatProperties
      <3> QED
        BY <1>6, <1>10, <3>1
    <2>2. ASSUME NEW i \in 1 .. k + n PROVE Received'[i] = (Received \o add)[i]
      <3>1. Received'[i] = uart_buf'[SlotOf(b, i)]
        BY <1>7, <1>8
      <3>2. CASE i <= k
        BY <1>3, <1>6, <1>9, <2>1, <3>1, <3>2 DEF Index
      <3>3. CASE ~(i <= k)
        <4>1. i - k \in 1 .. n
          BY <1>3, <1>4, <3>3 DEF Index
        <4>2. uart_buf'[SlotOf(b, i)] = line[i - k]
          BY <1>9, <3>3
        <4>3. (Received \o add)[i] = add[i - k]
          BY <2>1, <3>3
        <4> QED
          BY <1>10, <3>1, <4>1, <4>2, <4>3
      <3> QED
        BY <3>2, <3>3
    <2> QED
      BY <1>7, <1>8, <2>1, <2>2, SeqEqual
  <1>12. n = IF Len(line) <= (BufSize - 1) - Len(Received) THEN Len(line)
             ELSE (BufSize - 1) - Len(Received)
    BY <1>3, <1>6 DEF n
  <1> QED
    BY <1>11, <1>12 DEF Fifo!Put, add

\* A read of RBR that finds a character, with the divisor latch closed.
LEMMA GetRefines ==
    ASSUME UartInv, UartInv', ~dlab, ReadRbr, DataReady,
           last' = uart_buf[uart_buf_begin], typed' = typed
    PROVE  Fifo!Get
  <1> DEFINE b == uart_buf_begin
             e == uart_buf_end
             S == Char \cup {Garbage}
             k == Held(b, e)
             b1 == uart_buf_begin'
             r1 == Received'
  <1>1. BufSize \in Nat /\ BufSize >= 2 /\ e \in Index /\ b \in Index /\ b # e
    BY UartAssumption DEF UartInv, TypeOK, Index, DataReady
  <1>2. /\ b1 = (b + 1) % BufSize
        /\ uart_buf' = uart_buf /\ uart_buf_end' = e
    BY DEF ReadRbr
  <1>3. b1 = SlotOf(b, 2) /\ b1 \in Index
    <2>1. 2 \in 1 .. BufSize /\ b + 2 - 1 = b + 1
      BY <1>1 DEF Index
    <2> QED
      BY <1>1, <1>2, <2>1, SlotIs
  <1>4. uart_buf \in [Index -> S] /\ Received = RingSeq(uart_buf, b, e)
        /\ r1 = RingSeq(uart_buf, b1, e)
    BY <1>2 DEF UartInv, TypeOK, Index, Received, RingSeq
  <1> HIDE DEF b, e, S, k, b1, r1
  <1>5. /\ Received \in Seq(S) /\ Len(Received) = k
        /\ \A i \in 1 .. k : Received[i] = uart_buf[SlotOf(b, i)]
    BY <1>1, <1>4, RingIs DEF k
  <1>6. /\ r1 \in Seq(S) /\ Len(r1) = Held(b1, e)
        /\ \A i \in 1 .. Held(b1, e) : r1[i] = uart_buf[SlotOf(b1, i)]
    <2>1. b1 \in Index /\ e \in Index /\ uart_buf \in [Index -> S]
      BY <1>1, <1>3, <1>4
    <2>2. /\ RingSeq(uart_buf, b1, e) \in Seq(S) /\ Len(RingSeq(uart_buf, b1, e)) = Held(b1, e)
          /\ \A i \in 1 .. Held(b1, e) : RingSeq(uart_buf, b1, e)[i] = uart_buf[SlotOf(b1, i)]
      BY <2>1, RingIs
    <2> QED
      BY <1>4, <2>2
  <1>7. Held(b1, e) = k - 1 /\ k - 1 \in Nat /\ k \in Nat
    BY <1>1, <1>3 DEF Held, SlotOf, Index, k
  <1>8. Received # << >>
    BY <1>5, <1>7
  <1>9. Head(Received) = uart_buf[b]
    <2>1. SlotOf(b, 1) = b
      BY <1>1 DEF SlotOf, Index
    <2>2. 1 \in 1 .. k
      BY <1>7
    <2>3. Received[1] = uart_buf[b]
      BY <1>5, <2>1, <2>2
    <2>4. Head(Received) = Received[1]
      BY <1>5, <1>8
    <2> QED
      BY <2>3, <2>4
  <1>10. /\ Tail(Received) \in Seq(S) /\ Len(Tail(Received)) = k - 1
         /\ \A i \in 1 .. k - 1 : Tail(Received)[i] = Received[i + 1]
    <2>1. /\ Tail(Received) \in Seq(S) /\ Len(Tail(Received)) = Len(Received) - 1
          /\ \A i \in 1 .. Len(Tail(Received)) : Tail(Received)[i] = Received[i + 1]
      BY <1>5, <1>8, HeadTailProperties
    <2> QED
      BY <1>5, <2>1
  <1>11. ASSUME NEW i \in 1 .. k - 1
         PROVE  r1[i] = Tail(Received)[i]
    <2>1. i + 1 \in 1 .. k
      BY <1>7
    <2>2. SlotOf(b1, i) = SlotOf(b, i + 1)
      BY <1>1, <1>3, <1>7 DEF SlotOf, Index, k, Held
    <2> QED
      BY <1>5, <1>6, <1>7, <1>10, <2>1, <2>2
  <1>12. r1 = Tail(Received)
    BY <1>6, <1>7, <1>10, <1>11, SeqEqual
  <1> QED
    BY <1>8, <1>9, <1>12 DEF Fifo!Get, b, r1

\* Every step is a Put, a Get, or leaves the queue alone.
LEMMA QueueStep ==
    ASSUME PlatformInv, UartInv, UartInv', [Next]_vars
    PROVE  Fifo!Put \/ Fifo!Get \/ UNCHANGED <<typed, Received, last>>
  <1>1. CASE UNCHANGED vars
    BY <1>1, ReceivedKept DEF vars, uartVars, softVars
  <1>2. CASE UpdateMemory
    BY <1>2, ReceivedKept DEF UpdateMemory, softVars, ToUart, ToPlic, uartVars, WriteThr,
                              WriteIer, WriteLcr
  <1>3. CASE PlatUpdate
    <2>1. last' = last
      BY <1>3 DEF PlatUpdate, softVars
    <2>2. CASE UNCHANGED <<ringVars, typed>>
      BY <2>1, <2>2, ReceivedKept
    <2>3. CASE typed' = typed + 1 /\ \E line \in Lines : KeyboardInput(line)
      BY <2>1, <2>3, PutRefines
    <2> QED
      BY <1>3, <2>2, <2>3 DEF PlatUpdate
  <1>4. CASE Cpu
    <2>1. typed' = typed
      BY <1>4 DEF Cpu
    <2>2. CASE UNCHANGED <<ringVars, last>>
      BY <2>1, <2>2, ReceivedKept
    <2>3. ASSUME ~busy, NEW c \in Contexts, Handle(c), at[c] = "rbr", ReadRbr,
                 last' = IF DataReady THEN uart_buf[uart_buf_begin] ELSE last
          PROVE  Fifo!Get \/ UNCHANGED <<typed, Received, last>>
      <3>1. din = NoStore
        BY <1>4, <2>3, PortIsFree DEF Cpu
      <3>2. ~irqoff /\ ~dlab
        BY <2>3, <3>1 DEF UartInv, LatchInv, NoStore
      <3>3. CASE DataReady
        BY <2>1, <2>3, <3>2, <3>3, GetRefines
      <3>4. CASE ~DataReady
        <4>1. UNCHANGED <<ringVars, last>>
          BY <2>3, <3>4 DEF ReadRbr, ringVars
        <4> QED
          BY <2>1, <4>1, ReceivedKept
      <3> QED
        BY <3>3, <3>4
    <2>4. ASSUME ~busy, NEW c \in Contexts, Handle(c)
          PROVE  Fifo!Get \/ UNCHANGED <<typed, Received, last>>
      <3>1. CASE at[c] = "rbr"
        BY <2>3, <2>4, <3>1 DEF Handle
      <3>2. CASE at[c] # "rbr"
        <4>1. UNCHANGED <<ringVars, last>>
          BY <2>4, <3>2 DEF Handle, uartVars, ReadIir, Store, NoRequest
        <4> QED
          BY <2>1, <4>1, ReceivedKept
      <3> QED
        BY <3>1, <3>2
    <2>5. ASSUME NEW c \in Contexts, TakeTrap(c)
          PROVE  UNCHANGED <<ringVars, last>>
      BY <2>5 DEF TakeTrap, NoRequest, uartVars
    <2>6. CASE Background \/ (NoRequest /\ UNCHANGED softVars)
      BY <2>2, <2>6 DEF Background, Store, NoRequest, uartVars, softVars
    <2> QED
      BY <1>4, <2>2, <2>4, <2>5, <2>6 DEF Cpu
  <1> QED
    BY <1>1, <1>2, <1>3, <1>4 DEF Next

\* The ring with its two indices implements a queue of BufSize - 1
\* characters: nothing that was typed is reordered, repeated or overwritten,
\* and only what does not fit is dropped, for every size of the ring and
\* whatever the lines are.
THEOREM RingImplementsQueue == Spec => RefinesQueue
  <1>1. Init => Fifo!QueueInit
    <2> SUFFICES ASSUME Init PROVE Received = << >>
      BY DEF Init, Fifo!QueueInit, Fifo!NoChar, NoChar
    <2>1. UartInv
      BY InitUartInv
    <2>2. uart_buf_begin = 0 /\ uart_buf_end = 0
      BY DEF Init, UartInit
    <2>3. 0 \in Index /\ Held(0, 0) = 0
      BY UartAssumption DEF Index, Held
    <2>4. (0 - 0) % BufSize = 0
      BY <2>3, HeldIs
    <2> QED
      BY <2>2, <2>4 DEF Received
  <1> QED
    BY <1>1, QueueStep, UartInvariant, PlatformInvariant, PTL
       DEF Spec, RefinesQueue, Fifo!QueueSpec
=============================================================================
