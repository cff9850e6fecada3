-------------------------------- MODULE Plic --------------------------------
(***************************************************************************)
(* PLIC_DEV of src/src/memory.hpp: one source, the UART (number 10), and   *)
(* two contexts, "M" and "S" of hart 0.  Interrupt numbers are 0 (none)    *)
(* and 10; claim_mask is the set of bits that are on.                      *)
(*                                                                         *)
(* Registers are accessed a word at a time, and the code takes a word byte *)
(* by byte: a load from byte 3 down to 0, a store from 0 up to 3.          *)
(***************************************************************************)
EXTENDS Integers

Contexts == {"M", "S"}
Source == 10

VARIABLES
    uart_priority, threshold, enable,    \* enable[c]: bit 10 of the enables
    source_pending, claim_mask,
    irq, clm, cmplt

plicConfig == <<uart_priority, threshold, enable>>
claimVars == <<claim_mask, irq, clm, cmplt>>
plicVars == <<plicConfig, source_pending, claimVars>>

PlicInit ==
    /\ uart_priority = 0
    /\ threshold = [c \in Contexts |-> 0] /\ enable = [c \in Contexts |-> FALSE]
    /\ source_pending = FALSE /\ claim_mask = {}
    /\ irq = [c \in Contexts |-> 0] /\ clm = [c \in Contexts |-> 0]
    /\ cmplt = [c \in Contexts |-> 0]

\* Slip: a claim does not keep the source from pending again.
SlipPending(level) == level

\* source_pending, with the UART's uart_irq()
Pending(level) == level /\ Source \notin claim_mask

Raised(c) == source_pending' /\ enable[c] /\ uart_priority > threshold[c]

\* Slip: the line is latched.
SlipLine(c) == IF Raised(c) THEN Source ELSE irq[c]

\* core0_m_irq, core0_s_irq: a claimed interrupt holds the line
Line(c) == IF Raised(c) THEN Source ELSE clm'[c]

\* Slip: a completion is remembered.
SlipUpdate(level) ==
    /\ source_pending' = Pending(level)
    /\ clm' = [c \in Contexts |-> IF cmplt[c] = clm[c] THEN 0 ELSE clm[c]]
    /\ irq' = [c \in Contexts |-> Line(c)]
    /\ UNCHANGED <<plicConfig, claim_mask, cmplt>>

Update(level) ==
    /\ source_pending' = Pending(level)
    /\ clm' = [c \in Contexts |-> IF cmplt[c] = clm[c] THEN 0 ELSE clm[c]]
    /\ irq' = [c \in Contexts |-> Line(c)]
    /\ cmplt' = [c \in Contexts |-> 0]
    /\ UNCHANGED <<plicConfig, claim_mask>>

\* read of the claim register: byte 3 masks the old claim and takes the new
\* one, which the other three mask.
Claim(c) ==
    /\ claim_mask' = claim_mask \cup {clm[c], irq[c]}
    /\ clm' = [clm EXCEPT ![c] = irq[c]]
    /\ UNCHANGED <<plicConfig, source_pending, irq, cmplt>>

\* Slip: the bytes unmask what was completed before.
SlipComplete(c, id) ==
    /\ claim_mask' = claim_mask \ {cmplt[c]}
    /\ cmplt' = [cmplt EXCEPT ![c] = id]
    /\ UNCHANGED <<plicConfig, source_pending, irq, clm>>

\* write of the claim register: byte 0 unmasks the old completion and sets
\* the new one, which the other three unmask.
Complete(c, id) ==
    /\ claim_mask' = claim_mask \ {cmplt[c], id}
    /\ cmplt' = [cmplt EXCEPT ![c] = id]
    /\ UNCHANGED <<plicConfig, source_pending, irq, clm>>

WritePriority(v) ==
    /\ uart_priority' = v
    /\ UNCHANGED <<threshold, enable, source_pending, claimVars>>

WriteThreshold(c, v) ==
    /\ threshold' = [threshold EXCEPT ![c] = v]
    /\ UNCHANGED <<uart_priority, enable, source_pending, claimVars>>

WriteEnable(c, v) ==
    /\ enable' = [enable EXCEPT ![c] = v]
    /\ UNCHANGED <<uart_priority, threshold, source_pending, claimVars>>
=============================================================================
