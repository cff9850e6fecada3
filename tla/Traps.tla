------------------------------- MODULE Traps -------------------------------
(***************************************************************************)
(* Traps, returns and interrupt delegation of src/src/exec.hpp, with the   *)
(* CSRs they read.                                                         *)
(*                                                                         *)
(* Comb is the falling edge: exec_comb decides what the instruction in     *)
(* EXEC does and computes the handler's address with trap_pc.  Seq is the  *)
(* next rising edge: exec_seq carries it out, deciding the delegation      *)
(* once more.  The devices move between the two.                           *)
(*                                                                         *)
(* Privileges are numbered as in the code: U 0, S 1, M 3.                  *)
(***************************************************************************)
EXTENDS Integers

CONSTANTS
    Irqs,           \* the interrupts the model has, of the six below
    Exceptions,     \* causes an instruction raises by itself, but for ECALL
    Delegable,      \* the values software gives medeleg
    StatusValues    \* the values software gives mstatus

AllIrqs == {"MEI", "MSI", "MTI", "SEI", "SSI", "STI"}
Ecalls == {"ECALL_U", "ECALL_S", "ECALL_M"}
Causes == Exceptions \cup Ecalls
Privs == {0, 1, 3}

Status == [sie : BOOLEAN, mie : BOOLEAN, spie : BOOLEAN, mpie : BOOLEAN,
           spp : {0, 1}, mpp : Privs, mprv : BOOLEAN, tw : BOOLEAN, tsr : BOOLEAN]

ASSUME TrapsAssumption ==
    /\ Irqs \subseteq AllIrqs
    /\ "ILLEGAL" \in Exceptions
    /\ Exceptions \cap (Ecalls \cup AllIrqs) = {}
    /\ Delegable \subseteq SUBSET Causes
    /\ StatusValues \subseteq Status

VARIABLES
    phase,
    priv, mstatus, medeleg, mideleg, mie,
    mip,       \* CSR_MIP: the bits software sets
    lines,     \* the bits the CLINT, the PLIC and stimecmp set
    dec,       \* _on_trap, _cause, _csr_sret, ..., and the mode of trap_pc
    frame      \* history: what the last trap into M or S interrupted, if
               \* nothing has touched mstatus since

vars == <<phase, priv, mstatus, medeleg, mideleg, mie, mip, lines, dec, frame>>

Kinds == {"none", "stall", "trap", "sret", "mret",
          "MSTATUS", "SSTATUS", "MIE", "SIE", "MIP", "SIP", "MIDELEG", "MEDELEG"}
CsrKinds == Kinds \ {"none", "stall", "trap", "sret", "mret"}
NoCause == "no cause"
NoFrame == [live |-> FALSE, priv |-> 0, ie |-> FALSE]

Decision(kind) == [kind |-> kind, cause |-> NoCause, vec |-> 0]

\* Reset: mstatus is 0x1800.
Init ==
    /\ phase = "comb"
    /\ priv = 3
    /\ mstatus = [sie |-> FALSE, mie |-> FALSE, spie |-> FALSE, mpie |-> FALSE,
                  spp |-> 0, mpp |-> 3, mprv |-> FALSE, tw |-> FALSE, tsr |-> FALSE]
    /\ medeleg = {} /\ mideleg = {} /\ mie = {} /\ mip = {} /\ lines = {}
    /\ dec = Decision("none")
    /\ frame = [m \in {1, 3} |-> NoFrame]

(***************************************************************************)
(* exec_comb                                                               *)
(***************************************************************************)

\* get_mip
Mip == mip \cup lines

\* check_interrupt: the enabled interrupts, and the one that is taken
FinalInt ==
    LET pending == Mip \cap mie
        s_en == priv < 1 \/ (priv = 1 /\ mstatus.sie)
        m_en == priv < 3 \/ mstatus.mie
    IN (IF m_en THEN pending \ mideleg ELSE {})
       \cup (IF s_en THEN pending \cap mideleg ELSE {})

Above(i) ==    \* the interrupts check_interrupt prefers to i
    IF i = "MEI" THEN {} ELSE IF i = "MSI" THEN {"MEI"}
    ELSE IF i = "MTI" THEN {"MEI", "MSI"} ELSE IF i = "SEI" THEN {"MEI", "MSI", "MTI"}
    ELSE IF i = "SSI" THEN {"MEI", "MSI", "MTI", "SEI"} ELSE AllIrqs \ {"STI"}

TakenIrq(i) == i \in FinalInt /\ FinalInt \cap Above(i) = {}

\* The delegation test trap_pc and trap each make.
DelegatedToS(cause) ==
    /\ priv < 3
    /\ IF cause \in AllIrqs THEN mstatus.sie /\ cause \in mideleg
                            ELSE cause \in medeleg

\* Slip: SIE is not asked for.
SlipTrapPc(cause) ==
    IF priv < 3 /\ cause \in (mideleg \cup medeleg) THEN 1 ELSE 3

\* trap_pc: whose vector, stvec or mtvec
TrapPc(cause) == IF DelegatedToS(cause) THEN 1 ELSE 3

OnTrap(cause) == dec' = [kind |-> "trap", cause |-> cause, vec |-> TrapPc(cause)]

Interrupt == \E i \in Irqs : TakenIrq(i) /\ OnTrap(i)

Ecall == OnTrap(IF priv = 3 THEN "ECALL_M" ELSE IF priv = 1 THEN "ECALL_S" ELSE "ECALL_U")

\* A fault of the fetch or of the data access, an illegal instruction.
Fault == \E c \in Exceptions : OnTrap(c)

Wfi ==
    IF priv < 1 \/ (priv = 1 /\ mstatus.tw) THEN OnTrap("ILLEGAL")
    ELSE dec' = Decision(IF Mip \cap mie = {} THEN "stall" ELSE "none")

Sret ==
    IF priv = 1 /\ mstatus.tsr THEN OnTrap("ILLEGAL") ELSE dec' = Decision("sret")

Mret == dec' = Decision("mret")

CsrLevel(k) == IF k \in {"SSTATUS", "SIE", "SIP"} THEN 1 ELSE 3

Csr(k) == IF CsrLevel(k) <= priv THEN dec' = Decision(k) ELSE OnTrap("ILLEGAL")

\* An interrupt waits until a multiplication or a data access that EXEC
\* already waits for (wb_stall) ends, well or with a fault.
Comb ==
    /\ phase = "comb" /\ phase' = "seq"
    /\ \/ Interrupt
       \/ FinalInt = {} /\ (Wfi \/ Ecall \/ Sret \/ Mret \/ \E k \in CsrKinds : Csr(k))
       \/ Fault
       \/ \E k \in {"none", "stall"} : dec' = Decision(k)
    /\ UNCHANGED <<priv, mstatus, medeleg, mideleg, mie, mip, lines, frame>>

(***************************************************************************)
(* exec_seq                                                                *)
(***************************************************************************)

\* Slip: added instead of or-ed.
SlipOrPriv(a, b) == a + b

\* mpp | priv, on the privileges 00, 01 and 11
OrPriv(a, b) == IF a < b THEN b ELSE a

\* Slip: SPP is or-ed like MPP.
SlipTrapToS ==
    /\ mstatus' = [mstatus EXCEPT !.spie = mstatus.sie, !.sie = FALSE,
                                  !.spp = IF priv = 1 THEN 1 ELSE @]
    /\ priv' = 1
    /\ frame' = [frame EXCEPT ![1] = [live |-> TRUE, priv |-> priv, ie |-> mstatus.sie]]

TrapToS ==
    /\ mstatus' = [mstatus EXCEPT !.spie = mstatus.sie, !.sie = FALSE,
                                  !.spp = IF priv = 1 THEN 1 ELSE 0]
    /\ priv' = 1
    /\ frame' = [frame EXCEPT ![1] = [live |-> TRUE, priv |-> priv, ie |-> mstatus.sie]]

\* Slip: MIE stays on in the handler.
SlipTrapToM ==
    /\ mstatus' = [mstatus EXCEPT !.mpie = mstatus.mie, !.mpp = OrPriv(@, priv)]
    /\ priv' = 3
    /\ frame' = [frame EXCEPT ![3] = [live |-> TRUE, priv |-> priv, ie |-> mstatus.mie]]

TrapToM ==
    /\ mstatus' = [mstatus EXCEPT !.mpie = mstatus.mie, !.mie = FALSE,
                                  !.mpp = OrPriv(@, priv)]
    /\ priv' = 3
    /\ frame' = [frame EXCEPT ![3] = [live |-> TRUE, priv |-> priv, ie |-> mstatus.mie]]

Trap ==
    /\ dec.kind = "trap"
    /\ IF DelegatedToS(dec.cause) THEN TrapToS ELSE TrapToM

\* Slip: MPRV survives.
SlipReturnM ==
    /\ dec.kind = "mret"
    /\ priv' = mstatus.mpp
    /\ mstatus' = [mstatus EXCEPT !.mpp = 0, !.mie = @ \/ mstatus.mpie, !.mpie = TRUE]
    /\ frame' = [frame EXCEPT ![3] = NoFrame]

\* return_from_trap
ReturnM ==
    /\ dec.kind = "mret"
    /\ priv' = mstatus.mpp
    /\ mstatus' = [mstatus EXCEPT !.mprv = @ /\ mstatus.mpp = 3,
                                  !.mpp = 0,
                                  !.mie = @ \/ mstatus.mpie,
                                  !.mpie = TRUE]
    /\ frame' = [frame EXCEPT ![3] = NoFrame]

ReturnS ==
    /\ dec.kind = "sret"
    /\ priv' = mstatus.spp
    /\ mstatus' = [mstatus EXCEPT !.mprv = FALSE,
                                  !.spp = 0,
                                  !.sie = @ \/ mstatus.spie,
                                  !.spie = TRUE]
    /\ frame' = [frame EXCEPT ![1] = NoFrame]

\* csr_mask and csr_wdata: a write replaces the bits of the mask.
Masked(old, mask, new) == (old \ mask) \cup (new \cap mask)

SstatusFields(new) == [mstatus EXCEPT !.sie = new.sie, !.spie = new.spie, !.spp = new.spp]

WriteStatus ==
    \E new \in StatusValues :
        \/ /\ dec.kind = "MSTATUS"
           /\ mstatus' = new
           /\ frame' = [m \in {1, 3} |-> NoFrame]
        \/ /\ dec.kind = "SSTATUS"
           /\ mstatus' = SstatusFields(new)
           /\ frame' = [frame EXCEPT ![1] = NoFrame]

WriteIrqCsr ==
    \E new \in SUBSET Irqs :
        \/ dec.kind = "MIE" /\ mie' = new /\ UNCHANGED <<mip, mideleg>>
        \/ dec.kind = "SIE" /\ mie' = Masked(mie, mideleg, new) /\ UNCHANGED <<mip, mideleg>>
        \/ dec.kind = "MIP" /\ mip' = Masked(mip, {"SSI", "SEI"}, new)
           /\ UNCHANGED <<mie, mideleg>>
        \/ dec.kind = "SIP" /\ mip' = Masked(mip, {"SSI"}, new) /\ UNCHANGED <<mie, mideleg>>
        \/ dec.kind = "MIDELEG" /\ mideleg' = new /\ UNCHANGED <<mie, mip>>

Seq ==
    /\ phase = "seq" /\ phase' = "comb"
    /\ \/ (Trap \/ ReturnM \/ ReturnS) /\ UNCHANGED <<mie, mip, mideleg, medeleg>>
       \/ WriteStatus /\ UNCHANGED <<priv, mie, mip, mideleg, medeleg>>
       \/ WriteIrqCsr /\ UNCHANGED <<priv, mstatus, frame, medeleg>>
       \/ /\ dec.kind = "MEDELEG" /\ medeleg' \in Delegable
          /\ UNCHANGED <<priv, mstatus, frame, mie, mip, mideleg>>
       \/ /\ dec.kind \in {"none", "stall"}
          /\ UNCHANGED <<priv, mstatus, frame, mie, mip, mideleg, medeleg>>
    /\ lines' \in SUBSET (Irqs \ {"SSI", "MSI"})    \* nothing drives these two
    /\ dec' = Decision("none")    \* as exec_comb begins

Next == Comb \/ Seq

Spec == Init /\ [][Next]_vars

(***************************************************************************)
(* What traps promise.                                                     *)
(***************************************************************************)

\* Types of the CSRs and of the decision.
TypeOK ==
    /\ phase \in {"comb", "seq"}
    /\ priv \in Privs
    /\ mstatus \in Status
    /\ medeleg \subseteq Causes
    /\ mideleg \subseteq Irqs /\ mie \subseteq Irqs /\ mip \subseteq Irqs
    /\ lines \subseteq Irqs
    /\ dec \in [kind : Kinds, cause : Causes \cup Irqs \cup {NoCause}, vec : {0, 1, 3}]
    /\ frame \in [{1, 3} -> [live : BOOLEAN, priv : Privs, ie : BOOLEAN]]

Handles(m) == phase = "seq" /\ dec.kind = "trap" /\ priv' = m

\* trap_pc at the falling edge and trap at the rising edge decide the
\* delegation separately and agree: the handler that runs is the one of the
\* mode it runs in, and in U mode no handler runs.
VectorMatchesMode ==
    [][(phase = "seq" /\ dec.kind = "trap") => priv' = dec.vec]_vars

\* MPRV is in force in M mode only, where MPP is the mode it refers to: it
\* never survives a return to S or U, and S and U cannot set it.
MprvOnlyInM == mstatus.mprv => priv = 3

\* A handler that has not touched mstatus is not interrupted by an interrupt
\* for its own mode: what it would save overwrites xEPC and xPP, which are
\* still needed.  M-mode traps may come and go in the S handler meanwhile.
HandlerNotReentered ==
    [][\A m \in {1, 3} :
         (Handles(m) /\ dec.cause \in AllIrqs /\ priv = m) => ~frame[m].live]_vars

\* SRET goes back to the mode, and to the interrupt enable, that the trap
\* into S interrupted.
SretRestores ==
    [][(phase = "seq" /\ dec.kind = "sret" /\ frame[1].live) =>
          /\ priv' = frame[1].priv
          /\ mstatus'.sie = frame[1].ie]_vars

\* The inductive invariant behind them: what a live frame says is still in
\* mstatus, and the decision of the falling edge still stands.
FrameInv ==
    /\ frame[1].live => /\ ~mstatus.sie
                        /\ mstatus.spie = frame[1].ie
                        /\ mstatus.spp = frame[1].priv
    /\ frame[3].live => ~mstatus.mie

DecInv ==
    phase = "seq" =>
        /\ dec.kind = "trap" =>
              /\ dec.vec = TrapPc(dec.cause)
              /\ dec.cause \in AllIrqs /\ priv = 3 => mstatus.mie
        /\ dec.kind = "MSTATUS" => priv = 3

\* The inductive invariant of the trap CSRs: no order of traps, returns and
\* CSR writes separates mstatus from the traps that are still to be undone.
TrapsInv == TypeOK /\ MprvOnlyInM /\ FrameInv /\ DecInv

\* "Set previous privilege": MRET goes back to the mode that the trap into
\* M interrupted.
MretRestores ==
    [][(phase = "seq" /\ dec.kind = "mret" /\ frame[3].live) =>
          priv' = frame[3].priv]_vars
=============================================================================
