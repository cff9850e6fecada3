--------------------------- MODULE Instructions ---------------------------
(***************************************************************************)
(* The instruction classes of the processor model.                         *)
(*                                                                         *)
(* One operation stands for each class EXEC::exec_comb tells apart by its  *)
(* control: "alu" (one cycle), "mul" (the MEXT handshake), "amo" (the DMMU *)
(* handshake, reads and writes the data word), "br", "jal" and "jalr"      *)
(* (branch_taken), "ctx" (FENCE.I, SFENCE.VMA, accesses to SATP and to the *)
(* PMP: the fetch context changes and the pipeline flushes), "ecall",      *)
(* "eret" (MRET, SRET), "wfi" and "ill" (INVALID).  Registers hold         *)
(* addresses.  The second parcel of a long instruction carries its         *)
(* immediate.                                                              *)
(***************************************************************************)
EXTENDS CodeImage

CONSTANTS
    Regs,         \* register numbers; 0 is x0
    CodeOf,       \* the image a context number selects
    TrapPc,       \* entry of the trap handler (mtvec, stvec)
    TrapContext,  \* and the context it runs in
    Entry,        \* where execution starts (entry)
    Boot          \* the contexts the processor may start in

Ops == {"alu", "mul", "amo", "br", "jal", "jalr", "ctx", "ecall", "eret",
        "wfi", "ill", "nop"}

Value == Addr

ASSUME IsaAssumption ==
    /\ Parcel \subseteq [long : BOOLEAN, op : Ops, rd : Regs, rs : Regs, imm : Addr]
    /\ 0 \in Regs
    /\ CodeOf \in [Addr -> Images]
    /\ TrapPc \in Addr /\ Entry \in Addr
    /\ TrapContext \in Addr
    /\ Boot \subseteq Addr

\* Decode::decode and Decode::decompress
Decode(p, q) == [op |-> p.op, rd |-> p.rd, rs |-> p.rs, imm |-> q.imm]
Decompress(p) == [op |-> p.op, rd |-> p.rd, rs |-> p.rs, imm |-> p.imm]

\* The instruction whose parcels are p and, when it is long, q.
Instr(p, q) == IF p \in LongParcel THEN Decode(p, q) ELSE Decompress(p)

InstrAt(im, a) == Instr(im[a].bits, im[Plus(a, 1)].bits)
=============================================================================
