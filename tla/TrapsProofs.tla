----------------------------- MODULE TrapsProofs -----------------------------
(***************************************************************************)
(* Traps and returns, for every set of interrupts and exceptions and       *)
(* whatever software writes to the CSRs: TrapsInv is inductive.            *)
(***************************************************************************)
EXTENDS Traps, TLAPS

\* The fields of mstatus, one by one.
LEMMA StatusFields ==
    ASSUME NEW st \in Status
    PROVE  /\ st.sie \in BOOLEAN /\ st.mie \in BOOLEAN /\ st.spie \in BOOLEAN
           /\ st.mpie \in BOOLEAN /\ st.spp \in {0, 1} /\ st.mpp \in Privs
           /\ st.mprv \in BOOLEAN /\ st.tw \in BOOLEAN /\ st.tsr \in BOOLEAN
  BY DEF Status

\* What exec_comb decides is well formed, and an interrupt is taken in M mode
\* only if MIE is set.
LEMMA CombDecides ==
    ASSUME TypeOK, Comb
    PROVE  /\ dec' \in [kind : Kinds, cause : Causes \cup Irqs \cup {NoCause}, vec : {0, 1, 3}]
           /\ dec'.kind = "trap" =>
                 /\ dec'.vec = TrapPc(dec'.cause)
                 /\ dec'.cause \in AllIrqs /\ priv = 3 => mstatus.mie
           /\ dec'.kind = "MSTATUS" => priv = 3
  <1> DEFINE D == [kind : Kinds, cause : Causes \cup Irqs \cup {NoCause}, vec : {0, 1, 3}]
             OK(d) == /\ d \in D
                      /\ d.kind = "trap" =>
                            /\ d.vec = TrapPc(d.cause)
                            /\ d.cause \in AllIrqs /\ priv = 3 => mstatus.mie
                      /\ d.kind = "MSTATUS" => priv = 3
  <1>1. \A c : TrapPc(c) \in {1, 3}
    BY DEF TrapPc
  <1>2. ASSUME NEW k \in Kinds, k # "trap", k = "MSTATUS" => priv = 3
        PROVE  OK(Decision(k))
    BY <1>2 DEF Decision
  <1>3. ASSUME NEW c \in Causes \cup Irqs, c \in AllIrqs /\ priv = 3 => mstatus.mie,
               OnTrap(c)
        PROVE  OK(dec')
    BY <1>1, <1>3 DEF OnTrap, Kinds
  <1>4. ASSUME NEW c \in Causes, OnTrap(c) PROVE OK(dec')
    <2>1. c \notin AllIrqs
      BY TrapsAssumption DEF Causes, Ecalls, AllIrqs
    <2> QED
      BY <1>3, <1>4, <2>1
  <1>5. "ILLEGAL" \in Causes
    BY TrapsAssumption DEF Causes
  <1>6. CASE Interrupt
    <2>1. PICK i \in Irqs : TakenIrq(i) /\ OnTrap(i)
      BY <1>6 DEF Interrupt
    <2>2. i \in FinalInt
      BY <2>1 DEF TakenIrq
    <2>3. priv = 3 => mstatus.mie
      BY <2>2 DEF FinalInt
    <2> QED
      BY <1>3, <2>1, <2>3
  <1>7. CASE Wfi
    BY <1>2, <1>4, <1>5, <1>7 DEF Wfi, Kinds
  <1>8. CASE Ecall
    BY <1>4, <1>8 DEF Ecall, Causes, Ecalls
  <1>9. CASE Sret
    BY <1>2, <1>4, <1>5, <1>9 DEF Sret, Kinds
  <1>10. CASE Mret
    BY <1>2, <1>10 DEF Mret, Kinds
  <1>11. CASE \E k \in CsrKinds : Csr(k)
    <2>1. PICK k \in CsrKinds : Csr(k)
      BY <1>11
    <2>2. CASE CsrLevel(k) <= priv
      <3>1. k = "MSTATUS" => priv = 3
        BY <2>2 DEF CsrLevel, TypeOK, Privs
      <3>2. k \in Kinds /\ k # "trap"
        BY DEF CsrKinds
      <3> QED
        BY <1>2, <2>1, <2>2, <3>1, <3>2 DEF Csr
    <2>3. CASE ~(CsrLevel(k) <= priv)
      BY <1>4, <1>5, <2>1, <2>3 DEF Csr
    <2> QED
      BY <2>2, <2>3
  <1>12. CASE Fault
    BY <1>4, <1>12 DEF Fault, Causes
  <1>13. CASE \E k \in {"none", "stall"} : dec' = Decision(k)
    BY <1>2, <1>13 DEF Kinds
  <1> QED
    BY <1>6, <1>7, <1>8, <1>9, <1>10, <1>11, <1>12, <1>13 DEF Comb

\* A record update of mstatus, field by field.
LEMMA TrapStep ==
    ASSUME TrapsInv, phase = "seq", phase' = "comb", Trap
    PROVE  /\ priv' \in Privs /\ mstatus' \in Status
           /\ frame' \in [{1, 3} -> [live : BOOLEAN, priv : Privs, ie : BOOLEAN]]
           /\ MprvOnlyInM' /\ FrameInv'
  <1>1. /\ mstatus \in Status /\ priv \in Privs
        /\ frame \in [{1, 3} -> [live : BOOLEAN, priv : Privs, ie : BOOLEAN]]
    BY DEF TrapsInv, TypeOK
  <1>2. CASE DelegatedToS(dec.cause)
    <2>1. TrapToS /\ priv < 3
      BY <1>2 DEF Trap, DelegatedToS
    <2>2. priv \in {0, 1}
      BY <1>1, <2>1 DEF Privs
    <2>3. /\ mstatus' \in Status
          /\ mstatus'.mprv = mstatus.mprv /\ mstatus'.mie = mstatus.mie
          /\ ~mstatus'.sie /\ mstatus'.spie = mstatus.sie /\ mstatus'.spp = priv
      BY <1>1, <2>1, <2>2 DEF TrapToS, Status
    <2>4. /\ frame'[1] = [live |-> TRUE, priv |-> priv, ie |-> mstatus.sie]
          /\ frame'[3] = frame[3]
          /\ frame' \in [{1, 3} -> [live : BOOLEAN, priv : Privs, ie : BOOLEAN]]
      BY <1>1, <2>1, StatusFields DEF TrapToS
    <2>5. priv' = 1 /\ ~mstatus.mprv
      BY <2>1, <2>2 DEF TrapToS, TrapsInv, MprvOnlyInM
    <2> QED
      BY <2>3, <2>4, <2>5 DEF TrapsInv, FrameInv, MprvOnlyInM, Privs
  <1>3. CASE ~DelegatedToS(dec.cause)
    <2>1. TrapToM
      BY <1>3 DEF Trap
    <2>2. OrPriv(mstatus.mpp, priv) \in Privs
      BY <1>1, StatusFields DEF OrPriv
    <2>3. /\ mstatus' \in Status
          /\ mstatus'.sie = mstatus.sie /\ mstatus'.spie = mstatus.spie
          /\ mstatus'.spp = mstatus.spp /\ ~mstatus'.mie
      BY <1>1, <2>1, <2>2 DEF TrapToM, Status
    <2>4. /\ frame'[1] = frame[1]
          /\ frame' \in [{1, 3} -> [live : BOOLEAN, priv : Privs, ie : BOOLEAN]]
      BY <1>1, <2>1, StatusFields DEF TrapToM
    <2>5. priv' = 3
      BY <2>1 DEF TrapToM
    <2> QED
      BY <2>3, <2>4, <2>5 DEF TrapsInv, FrameInv, MprvOnlyInM, Privs
  <1> QED
    BY <1>2, <1>3

\* MRET and SRET.
LEMMA ReturnStep ==
    ASSUME TrapsInv, phase = "seq", phase' = "comb", ReturnM \/ ReturnS
    PROVE  /\ priv' \in Privs /\ mstatus' \in Status
           /\ frame' \in [{1, 3} -> [live : BOOLEAN, priv : Privs, ie : BOOLEAN]]
           /\ MprvOnlyInM' /\ FrameInv'
  <1>1. /\ mstatus \in Status /\ priv \in Privs
        /\ frame \in [{1, 3} -> [live : BOOLEAN, priv : Privs, ie : BOOLEAN]]
        /\ NoFrame \in [live : BOOLEAN, priv : Privs, ie : BOOLEAN] /\ ~NoFrame.live
    BY DEF TrapsInv, TypeOK, NoFrame, Privs
  <1>2. CASE ReturnM
    <2> DEFINE mprv == mstatus.mprv /\ mstatus.mpp = 3
               mie2 == mstatus.mie \/ mstatus.mpie
    <2>1. mprv \in BOOLEAN /\ mie2 \in BOOLEAN /\ 0 \in Privs
      BY DEF Privs
    <2>2. /\ mstatus' = [mstatus EXCEPT !.mprv = mprv, !.mpp = 0, !.mie = mie2, !.mpie = TRUE]
          /\ priv' = mstatus.mpp
      BY <1>1, <1>2 DEF ReturnM, Status
    <2>3. mprv => mstatus.mpp = 3
      OBVIOUS
    <2> HIDE DEF mprv, mie2
    <2>4. /\ mstatus' \in Status /\ mstatus'.mprv = mprv
          /\ mstatus'.sie = mstatus.sie /\ mstatus'.spie = mstatus.spie
          /\ mstatus'.spp = mstatus.spp
      BY <1>1, <2>1, <2>2 DEF Status
    <2>5. /\ frame'[1] = frame[1] /\ ~frame'[3].live
          /\ frame' \in [{1, 3} -> [live : BOOLEAN, priv : Privs, ie : BOOLEAN]]
      BY <1>1, <1>2 DEF ReturnM
    <2> QED
      BY <1>1, <2>2, <2>3, <2>4, <2>5, StatusFields DEF TrapsInv, FrameInv, MprvOnlyInM
  <1>3. CASE ReturnS
    <2> DEFINE sie2 == mstatus.sie \/ mstatus.spie
    <2>1. sie2 \in BOOLEAN
      OBVIOUS
    <2>2. /\ mstatus' = [mstatus EXCEPT !.mprv = FALSE, !.spp = 0, !.sie = sie2, !.spie = TRUE]
          /\ priv' = mstatus.spp
      BY <1>1, <1>3 DEF ReturnS, Status
    <2> HIDE DEF sie2
    <2>3. mstatus' \in Status /\ ~mstatus'.mprv /\ mstatus'.mie = mstatus.mie
      BY <1>1, <2>1, <2>2 DEF Status
    <2>4. /\ ~frame'[1].live /\ frame'[3] = frame[3]
          /\ frame' \in [{1, 3} -> [live : BOOLEAN, priv : Privs, ie : BOOLEAN]]
      BY <1>1, <1>3 DEF ReturnS
    <2> QED
      BY <1>1, <2>2, <2>3, <2>4, StatusFields DEF TrapsInv, FrameInv, MprvOnlyInM, Privs
  <1> QED
    BY <1>2, <1>3

\* Writes to mstatus and sstatus.
LEMMA StatusStep ==
    ASSUME TrapsInv, phase = "seq", phase' = "comb", WriteStatus, priv' = priv,
           dec.kind = "MSTATUS" => priv = 3
    PROVE  /\ mstatus' \in Status
           /\ frame' \in [{1, 3} -> [live : BOOLEAN, priv : Privs, ie : BOOLEAN]]
           /\ MprvOnlyInM' /\ FrameInv'
  <1>1. /\ mstatus \in Status /\ priv \in Privs
        /\ frame \in [{1, 3} -> [live : BOOLEAN, priv : Privs, ie : BOOLEAN]]
        /\ NoFrame \in [live : BOOLEAN, priv : Privs, ie : BOOLEAN] /\ ~NoFrame.live
    BY DEF TrapsInv, TypeOK, NoFrame, Privs
  <1>2. PICK new \in StatusValues :
        \/ /\ dec.kind = "MSTATUS"
           /\ mstatus' = new
           /\ frame' = [m \in {1, 3} |-> NoFrame]
        \/ /\ dec.kind = "SSTATUS"
           /\ mstatus' = SstatusFields(new)
           /\ frame' = [frame EXCEPT ![1] = NoFrame]
    BY DEF WriteStatus
  <1>3. new \in Status
    BY TrapsAssumption
  <1>4. CASE dec.kind = "MSTATUS"
    BY <1>1, <1>2, <1>3, <1>4 DEF FrameInv, MprvOnlyInM
  <1>5. CASE dec.kind = "SSTATUS"
    <2>1. mstatus' = SstatusFields(new) /\ frame' = [frame EXCEPT ![1] = NoFrame]
      BY <1>2, <1>5
    <2>2. mstatus' \in Status /\ mstatus'.mprv = mstatus.mprv /\ mstatus'.mie = mstatus.mie
      BY <1>1, <1>3, <2>1 DEF SstatusFields, Status
    <2> QED
      BY <1>1, <2>1, <2>2 DEF TrapsInv, FrameInv, MprvOnlyInM
  <1> QED
    BY <1>2, <1>4, <1>5

\* TrapsInv holds in every state.
THEOREM TrapsInvariant == Spec => []TrapsInv
  <1>1. Init => TrapsInv
    <2> SUFFICES ASSUME Init PROVE TrapsInv
      OBVIOUS
    <2>1. mstatus \in Status /\ ~mstatus.mprv
      BY DEF Init, Status, Privs
    <2>2. dec \in [kind : Kinds, cause : Causes \cup Irqs \cup {NoCause}, vec : {0, 1, 3}]
      BY DEF Init, Decision, Kinds
    <2>3. /\ frame \in [{1, 3} -> [live : BOOLEAN, priv : Privs, ie : BOOLEAN]]
          /\ ~frame[1].live /\ ~frame[3].live
      BY DEF Init, NoFrame, Privs
    <2>4. TypeOK
      BY <2>1, <2>2, <2>3 DEF Init, TypeOK, Privs
    <2> QED
      BY <2>1, <2>3, <2>4 DEF Init, TrapsInv, MprvOnlyInM, FrameInv, DecInv
  <1>2. TrapsInv /\ [Next]_vars => TrapsInv'
    <2> SUFFICES ASSUME TrapsInv, [Next]_vars PROVE TrapsInv'
      OBVIOUS
    <2>1. CASE Comb
      <3>1. /\ phase' = "seq"
            /\ UNCHANGED <<priv, mstatus, medeleg, mideleg, mie, mip, lines, frame>>
        BY <2>1 DEF Comb
      <3>2. TypeOK' /\ DecInv'
        <4>1. TypeOK /\ \A c : TrapPc(c)' = TrapPc(c)
          BY <3>1 DEF TrapsInv, TrapPc, DelegatedToS
        <4> QED
          BY <2>1, <3>1, <4>1, CombDecides DEF TypeOK, DecInv
      <3> QED
        BY <3>1, <3>2 DEF TrapsInv, MprvOnlyInM, FrameInv
    <2>2. CASE Seq
      <3>1. /\ phase = "seq" /\ phase' = "comb" /\ dec' = Decision("none")
            /\ lines' \subseteq Irqs
        BY <2>2 DEF Seq
      <3>2. dec' \in [kind : Kinds, cause : Causes \cup Irqs \cup {NoCause}, vec : {0, 1, 3}]
            /\ DecInv'
        BY <3>1 DEF Decision, Kinds, DecInv
      <3> DEFINE Priv == /\ priv' \in Privs /\ mstatus' \in Status
                         /\ frame' \in [{1, 3} -> [live : BOOLEAN, priv : Privs, ie : BOOLEAN]]
                         /\ MprvOnlyInM' /\ FrameInv'
                 Irq == /\ medeleg' \subseteq Causes
                        /\ mideleg' \subseteq Irqs /\ mie' \subseteq Irqs /\ mip' \subseteq Irqs
      <3>3. UNCHANGED <<priv, mstatus, frame>> => Priv
        BY DEF TrapsInv, TypeOK, MprvOnlyInM, FrameInv
      <3>4. UNCHANGED <<mie, mip, mideleg, medeleg>> => Irq
        BY DEF TrapsInv, TypeOK
      <3>5. CASE (Trap \/ ReturnM \/ ReturnS) /\ UNCHANGED <<mie, mip, mideleg, medeleg>>
        BY <3>1, <3>2, <3>4, <3>5, TrapStep, ReturnStep DEF TrapsInv, TypeOK
      <3>6. CASE WriteStatus /\ UNCHANGED <<priv, mie, mip, mideleg, medeleg>>
        <4>1. dec.kind = "MSTATUS" => priv = 3
          BY <3>1 DEF TrapsInv, DecInv
        <4>2. Priv
          BY <3>1, <3>6, <4>1, StatusStep DEF TrapsInv, TypeOK
        <4> QED
          BY <3>1, <3>2, <3>4, <3>6, <4>2 DEF TrapsInv, TypeOK
      <3>7. CASE WriteIrqCsr /\ UNCHANGED <<priv, mstatus, frame, medeleg>>
        <4>1. Irq
          BY <3>7 DEF WriteIrqCsr, Masked, TrapsInv, TypeOK
        <4> QED
          BY <3>1, <3>2, <3>3, <3>7, <4>1 DEF TrapsInv, TypeOK
      <3>8. CASE /\ dec.kind = "MEDELEG" /\ medeleg' \in Delegable
                 /\ UNCHANGED <<priv, mstatus, frame, mie, mip, mideleg>>
        <4>1. Irq
          BY <3>8, TrapsAssumption DEF TrapsInv, TypeOK
        <4> QED
          BY <3>1, <3>2, <3>3, <3>8, <4>1 DEF TrapsInv, TypeOK
      <3>9. CASE /\ dec.kind \in {"none", "stall"}
                 /\ UNCHANGED <<priv, mstatus, frame, mie, mip, mideleg, medeleg>>
        BY <3>1, <3>2, <3>3, <3>4, <3>9 DEF TrapsInv, TypeOK
      <3> QED
        BY <2>2, <3>5, <3>6, <3>7, <3>8, <3>9 DEF Seq
    <2>3. CASE UNCHANGED vars
      BY <2>3 DEF vars, TrapsInv, TypeOK, MprvOnlyInM, FrameInv, DecInv, TrapPc, DelegatedToS
    <2> QED
      BY <2>1, <2>2, <2>3 DEF Next
  <1> QED
    BY <1>1, <1>2, PTL DEF Spec

\* The trap CSRs keep their types: no field of mstatus takes a reserved value.
THEOREM TypeAlways == Spec => []TypeOK
  <1>1. TrapsInv => TypeOK
    BY DEF TrapsInv
  <1> QED
    BY <1>1, TrapsInvariant, PTL

\* MPRV is in force in M mode only.
THEOREM MprvOnlyInMAlways == Spec => []MprvOnlyInM
  <1>1. TrapsInv => MprvOnlyInM
    BY DEF TrapsInv
  <1> QED
    BY <1>1, TrapsInvariant, PTL

\* The handler whose address trap_pc gave runs in the mode trap chose.
THEOREM VectorMatchesModeAlways == Spec => VectorMatchesMode
  <1> DEFINE A == (phase = "seq" /\ dec.kind = "trap") => priv' = dec.vec
  <1>1. TrapsInv /\ [Next]_vars => [A]_vars
    <2> SUFFICES ASSUME TrapsInv, Next, phase = "seq", dec.kind = "trap"
                 PROVE  priv' = dec.vec
      OBVIOUS
    <2>1. Trap
      BY DEF Next, Comb, Seq, ReturnM, ReturnS, WriteStatus, WriteIrqCsr
    <2> QED
      BY <2>1 DEF Trap, TrapToS, TrapToM, TrapsInv, DecInv, TrapPc
  <1>2. Spec => [][A]_vars
    BY <1>1, TrapsInvariant, PTL DEF Spec
  <1> QED
    BY <1>2 DEF VectorMatchesMode

\* SRET restores what the trap into S saved, whatever M-mode traps came
\* between.
THEOREM SretRestoresAlways == Spec => SretRestores
  <1> DEFINE A == (phase = "seq" /\ dec.kind = "sret" /\ frame[1].live) =>
                     /\ priv' = frame[1].priv
                     /\ mstatus'.sie = frame[1].ie
  <1>1. TrapsInv /\ [Next]_vars => [A]_vars
    <2> SUFFICES ASSUME TrapsInv, Next, phase = "seq", dec.kind = "sret", frame[1].live
                 PROVE  priv' = frame[1].priv /\ mstatus'.sie = frame[1].ie
      OBVIOUS
    <2>1. ReturnS
      BY DEF Next, Comb, Seq, Trap, ReturnM, WriteStatus, WriteIrqCsr
    <2>2. mstatus \in Status /\ ~mstatus.sie /\ mstatus.spie = frame[1].ie
          /\ mstatus.spp = frame[1].priv
      BY DEF TrapsInv, TypeOK, FrameInv
    <2>3. mstatus'.sie = (mstatus.sie \/ mstatus.spie)
      BY <2>1, <2>2 DEF ReturnS, Status
    <2>4. (mstatus.sie \/ mstatus.spie) = mstatus.spie
      BY <2>2, StatusFields
    <2> QED
      BY <2>1, <2>2, <2>3, <2>4 DEF ReturnS
  <1>2. Spec => [][A]_vars
    BY <1>1, TrapsInvariant, PTL DEF Spec
  <1> QED
    BY <1>2 DEF SretRestores

\* A handler that has not touched mstatus is not interrupted for its own mode.
THEOREM HandlerNotReenteredAlways == Spec => HandlerNotReentered
  <1> DEFINE A == \A m \in {1, 3} :
                    (Handles(m) /\ dec.cause \in AllIrqs /\ priv = m) => ~frame[m].live
  <1>1. TrapsInv /\ [Next]_vars => [A]_vars
    <2> SUFFICES ASSUME TrapsInv, Next, NEW m \in {1, 3}, Handles(m),
                        dec.cause \in AllIrqs, priv = m, frame[m].live
                 PROVE  FALSE
      OBVIOUS
    <2>1. phase = "seq" /\ dec.kind = "trap" /\ priv' = m
      BY DEF Handles
    <2>2. Trap
      BY <2>1 DEF Next, Comb, Seq, ReturnM, ReturnS, WriteStatus, WriteIrqCsr
    <2>3. CASE m = 1
      <3>1. ~mstatus.sie
        BY <2>3 DEF TrapsInv, FrameInv
      <3>2. ~DelegatedToS(dec.cause)
        BY <3>1 DEF DelegatedToS
      <3> QED
        BY <2>1, <2>2, <2>3, <3>2 DEF Trap, TrapToM
    <2>4. CASE m = 3
      BY <2>1, <2>4 DEF TrapsInv, FrameInv, DecInv
    <2> QED
      BY <2>3, <2>4
  <1>2. Spec => [][A]_vars
    BY <1>1, TrapsInvariant, PTL DEF Spec
  <1> QED
    BY <1>2 DEF HandlerNotReentered
=============================================================================
