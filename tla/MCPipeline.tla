----------------------------- MODULE MCPipeline -----------------------------
(***************************************************************************)
(* The pipeline on programs of twelve parcels.                             *)
(***************************************************************************)
EXTENDS Pipeline

C(op, rd, rs, imm) == [long |-> FALSE, op |-> op, rd |-> rd, rs |-> rs, imm |-> imm]
L(op, rd, rs) == [long |-> TRUE, op |-> op, rd |-> rd, rs |-> rs, imm |-> 0]
\* second parcel of a long instruction: an immediate that does not look
\* like a long instruction itself, and one that does
D(imm) == C("alu", 1, 1, imm)
DL(imm) == [D(imm) EXCEPT !.long = TRUE]
Nop == C("nop", 0, 0, 0)

Z == C("ill", 0, 0, 0)

Program(code) ==
    [a \in Addr |-> [bits |-> code[a + 1], pf |-> FALSE, af |-> FALSE]]

Unmapped(im, word, pf) ==
    [a \in Addr |-> IF a \in {word, word + 1}
                    THEN [bits |-> Z, pf |-> pf, af |-> ~pf] ELSE im[a]]

\* Programs start at address 2; addresses 0 and 1 lead back to it.

\* Forwarding from EXEC and from writeback; branches taken and not taken
\* over long instructions and onto a half word; a link register used at once.
Branches == Program(<<
    L("jal", 0, 0), D(2),
    C("alu", 1, 0, 1), L("alu", 2, 1), DL(8), L("br", 0, 1), D(9),
    C("ill", 0, 0, 0), C("ill", 0, 0, 0),
    C("jal", 1, 0, 11), C("br", 0, 0, 7), L("jalr", 2, 1)>>)
\* (the long jalr at 11 wraps: its second parcel is at 0)

\* Data accesses that feed each other, multiplications, waiting.
Memory == Program(<<
    L("jal", 0, 0), D(2),
    L("alu", 1, 0), D(3), C("amo", 2, 1, 0), L("mul", 1, 2), D(0), C("amo", 1, 1, 0),
    L("amo", 0, 0), D(3), C("alu", 2, 1, 1), C("wfi", 0, 0, 0)>>)

\* Changes of context in the middle of a straight line of code: the parcel
\* after the change differs between the two contexts.
Fences == Program(<<
    L("jal", 0, 0), D(2),
    C("alu", 1, 0, 1), L("ctx", 0, 0), D(3), C("alu", 2, 0, 1), C("ecall", 0, 0, 0),
    L("ctx", 0, 0), DL(3), C("alu", 1, 1, 2), C("alu", 2, 1, 1), C("jal", 0, 0, 2)>>)
Fences2 == Program(<<
    L("jal", 0, 0), D(2),
    C("alu", 2, 0, 2), Nop, Nop, C("alu", 2, 0, 3), C("ctx", 0, 0, 2), Nop, Nop,
    L("amo", 1, 1), D(0), C("ctx", 0, 0, 2)>>)

\* A long instruction that runs into an unmapped word; a jump into one.
Faults == Unmapped(Program(<<
    L("jal", 0, 0), D(2),
    L("alu", 1, 0), D(1), C("jal", 2, 0, 7), C("ill", 0, 0, 0), C("ill", 0, 0, 0),
    L("alu", 1, 1), Z, Z, Nop, Nop>>), 8, TRUE)
Denied == Unmapped(Branches, 8, FALSE)

Handler == Program(<<
    C("alu", 1, 0, 3), Nop, C("ill", 0, 0, 0), C("ill", 0, 0, 0), L("alu", 1, 0), D(1),
    C("ctx", 0, 0, 6), C("eret", 0, 0, 0), C("alu", 1, 0, 7), Nop, Nop, Nop>>)

\* A jump over data, the last parcel of which looks like a long instruction.
Skip == Program(<<
    Nop, Nop, C("jal", 1, 0, 6), Z, Z, DL(0), C("alu", 2, 0, 1), C("jal", 0, 0, 2),
    Nop, Nop, Nop, Nop>>)

MCCodeOf == [a \in Addr |->
    CASE a = 0 -> Branches [] a = 1 -> Memory [] a = 2 -> Fences [] a = 3 -> Fences2
      [] a = 4 -> Faults [] a = 5 -> Denied [] a = 7 -> Skip [] OTHER -> Handler]
MCImages == {MCCodeOf[a] : a \in Addr}
MCRegs == 0 .. 2
MCParcel == [long : BOOLEAN, op : Ops, rd : MCRegs, rs : MCRegs, imm : Addr]
MCLong == {p \in MCParcel : p.long}
MCZero == Z
MCGarbled == C("ill", 1, 1, 1)
MCBoot == 0 .. 5
SkipBoot == {7}
=============================================================================
