------------------------------- MODULE Isa -------------------------------
(***************************************************************************)
(* What the processor promises its program: instructions take effect one   *)
(* at a time, in program order, each on the state the one before it left.  *)
(* An exception or an interrupt falls between two instructions and saves   *)
(* the address of the one that did not happen.                             *)
(***************************************************************************)
EXTENDS Instructions

VARIABLES
    pc, regs,
    dmem,          \* the data word that "amo" works on
    image,         \* the fetch context
    epc, eimage,   \* what a trap saves and "eret" restores
    ie             \* interrupts are enabled

archVars == <<pc, regs, dmem, image, epc, eimage, ie>>

IsaInit ==
    /\ pc = Entry
    /\ regs = [r \in Regs |-> 0]
    /\ dmem = 0
    /\ \E c \in Boot : image = CodeOf[c]
    /\ epc = 0 /\ eimage = image
    /\ ie = FALSE

SetReg(r, v) == [regs EXCEPT ![r] = IF r = 0 THEN @ ELSE v]

Instruction == InstrAt(image, pc)
NextPc == Plus(pc, LenAt(image, pc))
Executes(op) == FaultAt(image, pc) = "none" /\ Instruction.op = op

Trap ==
    /\ epc' = pc /\ eimage' = image
    /\ pc' = TrapPc /\ image' = CodeOf[TrapContext]
    /\ ie' = FALSE
    /\ UNCHANGED <<regs, dmem>>

Interrupt == ie /\ Trap

\* "amo" may fault: whether it does is up to the address translation.
Exception ==
    /\ FaultAt(image, pc) # "none" \/ Executes("ecall") \/ Executes("ill")
       \/ Executes("amo")
    /\ Trap

Compute ==
    LET i == Instruction
        v == regs[i.rs]
    IN /\ \/ Executes("alu") /\ regs' = SetReg(i.rd, Plus(v, i.imm))
          \/ Executes("mul") /\ regs' = SetReg(i.rd, Plus(v, v))
          \/ (Executes("nop") \/ Executes("wfi")) /\ UNCHANGED regs
       /\ pc' = NextPc
       /\ UNCHANGED <<dmem, image, epc, eimage, ie>>

Amo ==
    LET i == Instruction IN
    /\ Executes("amo")
    /\ regs' = SetReg(i.rd, dmem)
    /\ dmem' = Plus(dmem, regs[i.rs])
    /\ pc' = NextPc
    /\ UNCHANGED <<image, epc, eimage, ie>>

Jump ==
    LET i == Instruction
        v == regs[i.rs]
    IN /\ \/ /\ Executes("br")
             /\ pc' = IF v # 0 THEN i.imm ELSE NextPc
             /\ UNCHANGED regs
          \/ /\ Executes("jal")
             /\ pc' = i.imm
             /\ regs' = SetReg(i.rd, NextPc)
          \/ /\ Executes("jalr")
             /\ pc' = v
             /\ regs' = SetReg(i.rd, NextPc)
       /\ UNCHANGED <<dmem, image, epc, eimage, ie>>

ChangeContext ==
    /\ Executes("ctx")
    /\ image' = CodeOf[Instruction.imm]
    /\ pc' = NextPc
    /\ UNCHANGED <<regs, dmem, epc, eimage, ie>>

Return ==
    /\ Executes("eret")
    /\ pc' = epc /\ image' = eimage
    /\ ie' = TRUE
    /\ UNCHANGED <<regs, dmem, epc, eimage>>

IsaNext ==
    Interrupt \/ Exception \/ Compute \/ Amo \/ Jump \/ ChangeContext \/ Return

IsaSpec == IsaInit /\ [][IsaNext]_archVars
=============================================================================
