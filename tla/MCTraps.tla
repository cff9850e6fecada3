------------------------------ MODULE MCTraps ------------------------------
(***************************************************************************)
(* Traps with a timer interrupt for M, a software interrupt that software  *)
(* may delegate, and one kind of exception.                                *)
(***************************************************************************)
EXTENDS Traps

MCIrqs == {"MTI", "SSI"}
MCExceptions == {"ILLEGAL"}
MCDelegable == {{}, {"ILLEGAL", "ECALL_U", "ECALL_S", "ECALL_M"}}
\* Software writes xIE and xPIE alike, and so the two virtualisation traps;
\* these and MPRV come with S as the previous mode and M's interrupts off.
MCStatusValues ==
    {st \in Status :
        /\ st.tw = st.tsr /\ st.mie = st.mpie /\ st.sie = st.spie
        /\ st.tw \/ st.mprv => st.mpp = 1 /\ ~st.mie /\ ~(st.tw /\ st.mprv)}
=============================================================================
