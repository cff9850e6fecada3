------------------------------ MODULE Pipeline ------------------------------
(***************************************************************************)
(* The processor of src/src/cpu.hpp, one action per point of the clock     *)
(* cycle at which processes run:                                           *)
(*                                                                         *)
(*   PosEdge   the rising edge: every *_seq process, each reading the      *)
(*             signals as they were before the edge;                       *)
(*   RspComb   one ns later: imem_rsp_comb and dmem_rsp_comb;              *)
(*   ExecComb  the falling edge: exec_comb;                                *)
(*   FifoComb  one ns later: fifo_state_comb.                              *)
(*                                                                         *)
(* The instruction classes are those of Instructions.  What address        *)
(* translation and the devices decide (how many steps a walk takes,        *)
(* whether a data access faults, when an interrupt is pending) is a        *)
(* nondeterministic choice; what is fetched is not.                        *)
(***************************************************************************)
EXTENDS FetchBuffer, Instructions

VARIABLES
    phase,
    fetch_pc, npc, branch_taken,
    i_state, i_req,       \* IMMU: 0 idle, 1 2 walk, 3 fetch; request to memory
    i_fault, i_image,     \* IMMU: i_page_fault or i_pmp_fault; latched context
    immu_ready,
    id_ex,                \* decoder to EXEC
    ex_pc, ex,            \* EXEC: its pc, and ex_write_rd, ex_rd, ex_rd_val
    act,                  \* what exec_seq must do (_on_trap, _csr_mret, ...)
    trap_epc,             \* _epc
    wb,                   \* wb_write_rd, wb_rd, wb_rd_val, wb_stall
    regs,
    mext_req, mext_rsp,
    ex_to_dmmu, d_state, d_fault, dmmu_to_mem, dmmu_to_ex,
    dmem,
    epc, eimage, ie,      \* the trap CSRs
    irq                   \* an enabled interrupt is pending (mie & mip)

preVars == <<fetch_pc>>
immuVars == <<i_state, i_req, i_fault, i_image>>
execOut == <<npc, branch_taken, ex, act, trap_epc, stall, flush, mext_req, ex_to_dmmu>>
csrVars == <<epc, eimage, ie, image>>
dmmuVars == <<d_state, d_fault, dmmu_to_mem>>
vars == <<fetchVars, phase, preVars, immuVars, immu_ready, id_ex, ex_pc, execOut,
          wb, regs, mext_rsp, dmmuVars, dmmu_to_ex, dmem, epc, eimage, ie, irq>>

Bubble == [flush |-> TRUE, op |-> "nop", rd |-> 0, rs_val |-> 0, imm |-> 0,
           pc |-> 0, len |-> 2, trap |-> FALSE]

NoWord == [h \in 0 .. 1 |-> ZeroSlot]

(***************************************************************************)
(* PreFetch::next_pc_seq                                                   *)
(***************************************************************************)
NextPcSeq ==
    fetch_pc' = IF branch_taken \/ flush THEN npc
                ELSE IF if_id_accept THEN Plus(WordBase(fetch_pc), 2)
                ELSE fetch_pc

(***************************************************************************)
(* MMU::imem_req_seq.  A translation of address a under image im ends with *)
(* the fetch, with a fault, or goes one level further down the page table. *)
(***************************************************************************)
FetchFault(im, a) == IF im[a].af THEN "access" ELSE IF im[a].pf THEN "page" ELSE "none"

StartFetch(im, a) ==
    /\ FetchFault(im, a) = "none"
    /\ i_state' = 3 /\ i_req' = TRUE /\ i_fault' = "none"

\* _i_page_fault leaves i_state alone; _i_pmp_fault comes with the new state.
FetchFaults(im, a, states) ==
    /\ FetchFault(im, a) # "none"
    /\ IF FetchFault(im, a) = "page" THEN UNCHANGED i_state ELSE i_state' \in states
    /\ i_req' = FALSE /\ i_fault' = FetchFault(im, a)

WalkDown(level) == i_state' = level /\ i_req' = TRUE /\ i_fault' = "none"

\* Slip: a flush does not give up the walk under way.
SlipImmuFlushed == flush /\ UNCHANGED <<immuVars, immu_pc>>

ImmuFlushed ==
    /\ flush
    /\ i_state' = 0 /\ i_req' = FALSE /\ i_fault' = "none"
    /\ UNCHANGED <<immu_pc, i_image>>

ImmuStart ==
    LET a == IF if_id_accept THEN fetch_pc ELSE immu_pc IN
    /\ ~flush /\ immu_ready
    /\ immu_pc' = a
    /\ i_image' = image
    /\ StartFetch(image, a) \/ FetchFaults(image, a, {1, 3}) \/ WalkDown(1)

ImmuWalk ==
    /\ ~flush /\ ~immu_ready /\ i_req
    /\ \/ i_state \in {1, 2} /\ StartFetch(i_image, immu_pc)
       \/ i_state \in {1, 2} /\ FetchFaults(i_image, immu_pc, {2, 3})
       \/ i_state = 1 /\ WalkDown(2)
    /\ UNCHANGED <<immu_pc, i_image>>

ImemReqSeq ==
    /\ immu_flush' = (~immu_ready /\ (flush \/ immu_flush))
    /\ ImmuFlushed \/ ImmuStart \/ ImmuWalk

\* imem_rsp_comb; memory answers a request at once.
ImemRspComb ==
    LET ack == ((i_state = 3 \/ immu_flush) /\ i_req) \/ i_fault # "none"
        faultWord == [h \in 0 .. 1 |-> [bits |-> ZeroParcel,
                                        pf |-> i_fault = "page",
                                        af |-> i_fault = "access"]]
    IN /\ rsp' = [ack |-> ack,
                  word |-> IF ~ack THEN NoWord
                           ELSE IF i_fault # "none" THEN faultWord
                           ELSE WordAt(i_image, immu_pc)]
       /\ immu_ready' = (ack \/ i_state = 0)

(***************************************************************************)
(* Decode::inst_decode_seq, with the operand forwarding of decode() and    *)
(* decompress().                                                           *)
(***************************************************************************)
\* Slip: no forwarding from EXEC.
SlipOperand(r) == IF wb.write /\ r # 0 /\ r = wb.rd THEN wb.val ELSE regs[r]

Operand(r) ==
    IF ex.write /\ r # 0 /\ r = ex.rd THEN ex.val
    ELSE IF wb.write /\ r # 0 /\ r = wb.rd THEN wb.val
    ELSE regs[r]

Decoded ==
    LET i == Instr(if_id.inst[0], if_id.inst[1]) IN
    [flush |-> FALSE, op |-> i.op, rd |-> i.rd, rs_val |-> Operand(i.rs),
     imm |-> i.imm, pc |-> if_id.pc,
     len |-> IF if_id.inst[0] \in LongParcel THEN 2 ELSE 1,
     trap |-> if_id.fault # "none" \/ i.op = "ill"]

\* Slip: the wrong path is not discarded.
SlipInstDecodeSeq ==
    id_ex' = IF stall THEN id_ex
             ELSE IF flush \/ if_id.flush THEN Bubble ELSE Decoded

InstDecodeSeq ==
    id_ex' = IF stall THEN id_ex
             ELSE IF flush \/ npc # if_id.pc \/ if_id.flush THEN Bubble
             ELSE Decoded

(***************************************************************************)
(* EXEC::exec_comb                                                         *)
(***************************************************************************)
TakesInterrupt == (~wb.stall \/ id_ex.op = "wfi") /\ irq /\ ie

WritesRd(op) == op \in {"alu", "mul", "amo", "jal", "jalr"}

\* The switch over id_ex.type is reached, and takes the case of op.
Runs(op) == ~TakesInterrupt /\ ~id_ex.flush /\ ~id_ex.trap /\ id_ex.op = op

\* _on_trap
OnTrap ==
    \/ TakesInterrupt
    \/ ~id_ex.flush /\ id_ex.trap
    \/ Runs("ecall")
    \/ Runs("amo") /\ dmmu_to_ex.fault

\* Slip: an interrupt does not withdraw the stall.
SlipStalls ==
    /\ ~id_ex.flush /\ ~id_ex.trap
    /\ \/ id_ex.op = "mul" /\ ~mext_rsp.ack
       \/ id_ex.op = "amo" /\ ~dmmu_to_ex.ack
       \/ id_ex.op = "wfi" /\ ~irq

\* _stall
Stalls ==
    \/ Runs("mul") /\ ~mext_rsp.ack
    \/ Runs("amo") /\ ~dmmu_to_ex.ack
    \/ Runs("wfi") /\ ~irq

\* _flush
Flushes == Runs("ctx") \/ Runs("eret")

\* _branch_taken
BranchTaken ==
    Runs("jal") \/ Runs("jalr") \/ (Runs("br") /\ id_ex.rs_val # 0)

\* _npc: a bubble stays where it is
TargetPc ==
    IF BranchTaken THEN IF Runs("jalr") THEN id_ex.rs_val ELSE id_ex.imm
    ELSE IF id_ex.flush THEN ex_pc ELSE Plus(ex_pc, id_ex.len)

\* _ex_rd_val
Result ==
    IF Runs("alu") THEN Plus(id_ex.rs_val, id_ex.imm)
    ELSE IF Runs("mul") THEN mext_rsp.result
    ELSE IF BranchTaken THEN Plus(id_ex.pc, id_ex.len)
    ELSE 0

\* The instruction completes: nothing traps it, stalls it or returns.
Retires == ~OnTrap /\ ~Runs("eret") /\ ~Stalls

\* npc
NextFetch ==
    IF OnTrap THEN TrapPc
    ELSE IF Runs("eret") THEN epc
    ELSE IF Stalls THEN ex_pc ELSE TargetPc

\* ex_write_rd, ex_rd, ex_rd_val
RdWrite ==
    [write |-> Retires /\ WritesRd(id_ex.op), rd |-> id_ex.rd,
     val |-> IF ~Retires THEN 0
             ELSE IF dmmu_to_ex.ack THEN dmmu_to_ex.rdata ELSE Result]

\* The effect on the CSRs, and _epc.
Effect ==
    IF OnTrap THEN "trap"
    ELSE IF Runs("eret") THEN "ret"
    ELSE IF Runs("ctx") THEN "ctx" ELSE "none"

SavedPc == IF Runs("ecall") THEN id_ex.pc ELSE ex_pc

ExecOutputs ==
    /\ branch_taken' = BranchTaken
    /\ npc' = NextFetch
    /\ ex' = RdWrite
    /\ ex_to_dmmu' = [req |-> Runs("amo") /\ ~wb.stall, wdata |-> id_ex.rs_val]
    /\ stall' = Stalls
    /\ flush' = (OnTrap \/ Flushes)
    /\ act' = Effect
    /\ trap_epc' = SavedPc
    \* mext_req_ack is written by a multiplication only
    /\ mext_req' = IF Runs("mul") THEN ~wb.stall ELSE mext_req

(***************************************************************************)
(* EXEC::exec_seq (trap, return_from_trap and the CSR writes that change   *)
(* the fetch context) and EXEC::writeback_seq                              *)
(***************************************************************************)
ExecSeq ==
    \/ /\ act = "trap"
       /\ epc' = trap_epc /\ eimage' = image
       /\ image' = CodeOf[TrapContext] /\ ie' = FALSE
    \/ /\ act = "ret"
       /\ image' = eimage /\ ie' = TRUE
       /\ UNCHANGED <<epc, eimage>>
    \/ /\ act = "ctx"
       /\ image' = CodeOf[id_ex.imm]
       /\ UNCHANGED <<epc, eimage, ie>>
    \/ act = "none" /\ UNCHANGED csrVars

WritebackSeq ==
    /\ wb' = [write |-> ex.write, rd |-> ex.rd, val |-> ex.val, stall |-> stall]
    /\ ex_pc' = npc

\* RegFile::write_seq
WriteSeq == regs' = [regs EXCEPT ![wb.rd] = IF wb.write /\ wb.rd # 0 THEN wb.val ELSE @]

\* Slip: the multiplier respects the stall that its own request causes.
SlipMextSeq ==
    mext_rsp' = IF mext_req /\ ~stall /\ id_ex.op = "mul"
                THEN [ack |-> TRUE, result |-> Plus(id_ex.rs_val, id_ex.rs_val)]
                ELSE [ack |-> FALSE, result |-> 0]

\* MEXT::mext_seq
MextSeq ==
    mext_rsp' = IF mext_req /\ id_ex.op = "mul"
                THEN [ack |-> TRUE, result |-> Plus(id_ex.rs_val, id_ex.rs_val)]
                ELSE [ack |-> FALSE, result |-> 0]

(***************************************************************************)
(* MMU::dmem_req_seq, and Memory::update_memory on the request it sent     *)
(* before the edge.                                                        *)
(***************************************************************************)
NoAccess == [req |-> FALSE, wdata |-> 0]

DAccess ==
    /\ d_state' = 3 /\ d_fault' = FALSE
    /\ dmmu_to_mem' = [req |-> TRUE, wdata |-> ex_to_dmmu.wdata]

\* A page fault leaves the DMMU idle; a PMP, PMA or alignment fault comes
\* with the state its request was for.
DFaults(level) ==
    /\ d_fault' = TRUE
    /\ d_state' \in {0, level, 3}
    /\ dmmu_to_mem' = NoAccess

\* A page-table read: a load, which memory answers and never applies.
DWalkDown(level) == d_state' = level /\ d_fault' = FALSE /\ dmmu_to_mem' = NoAccess

DIdle == d_state' = 0 /\ d_fault' = FALSE /\ dmmu_to_mem' = NoAccess

\* Slip: the DMMU stays in the state of its last access.
SlipDmemReqSeq ==
    \/ flush /\ DIdle
    \/ ~flush /\ d_state = 0 /\ ~ex_to_dmmu.req /\ DIdle
    \/ ~flush /\ d_state = 0 /\ ex_to_dmmu.req /\ (DAccess \/ DFaults(1) \/ DWalkDown(1))
    \/ ~flush /\ d_state = 1 /\ (DAccess \/ DFaults(2) \/ DWalkDown(2))
    \/ ~flush /\ d_state = 2 /\ (DAccess \/ DFaults(3))
    \/ ~flush /\ d_state = 3 /\ UNCHANGED dmmuVars

DmemReqSeq ==
    \/ flush /\ DIdle
    \/ ~flush /\ d_state = 0 /\ ~ex_to_dmmu.req /\ DIdle
    \/ ~flush /\ d_state = 0 /\ ex_to_dmmu.req /\ (DAccess \/ DFaults(1) \/ DWalkDown(1))
    \/ ~flush /\ d_state = 1 /\ (DAccess \/ DFaults(2) \/ DWalkDown(2))
    \/ ~flush /\ d_state = 2 /\ (DAccess \/ DFaults(3))
    \/ ~flush /\ d_state = 3 /\ DIdle

UpdateMemory ==
    dmem' = IF dmmu_to_mem.req THEN Plus(dmem, dmmu_to_mem.wdata) ELSE dmem

\* dmem_rsp_comb
DmemRspComb ==
    dmmu_to_ex' = [ack |-> (d_state = 3 /\ dmmu_to_mem.req) \/ d_fault,
                   fault |-> d_fault,
                   rdata |-> IF dmmu_to_mem.req THEN dmem ELSE 0]

(***************************************************************************)
(* The clock cycle.                                                        *)
(***************************************************************************)

\* Out of reset: everything empty, and the IMMU's first fetch is of
\* immu_pc's initial 0.
Init ==
    /\ FetchInit
    /\ \E c \in Boot : image = CodeOf[c]
    /\ i_image = image /\ eimage = image
    /\ phase = "rsp"
    /\ stall = FALSE /\ flush = FALSE /\ immu_flush = FALSE
    /\ immu_pc = 0 /\ fetch_pc = Entry /\ npc = Entry /\ branch_taken = FALSE
    /\ rsp = [ack |-> FALSE, word |-> NoWord]
    /\ i_state = 0 /\ i_req = FALSE /\ i_fault = "none" /\ immu_ready = TRUE
    /\ id_ex = Bubble
    /\ ex_pc = Entry
    /\ ex = [write |-> FALSE, rd |-> 0, val |-> 0]
    /\ act = "none" /\ trap_epc = 0
    /\ wb = [write |-> FALSE, rd |-> 0, val |-> 0, stall |-> FALSE]
    /\ regs = [r \in Regs |-> 0]
    /\ mext_req = FALSE /\ mext_rsp = [ack |-> FALSE, result |-> 0]
    /\ ex_to_dmmu = [req |-> FALSE, wdata |-> 0]
    /\ d_state = 0 /\ d_fault = FALSE /\ dmmu_to_mem = NoAccess
    /\ dmmu_to_ex = [ack |-> FALSE, fault |-> FALSE, rdata |-> 0]
    /\ dmem = 0
    /\ epc = 0 /\ ie = FALSE /\ irq = FALSE

PosEdge ==
    /\ phase = "pos" /\ phase' = "rsp"
    /\ NextPcSeq /\ ImemReqSeq /\ GetInstSeq /\ InstDecodeSeq
    /\ ExecSeq /\ WritebackSeq /\ WriteSeq /\ MextSeq
    /\ DmemReqSeq /\ UpdateMemory
    /\ irq' \in BOOLEAN    \* CLINT, PLIC and the timer
    /\ UNCHANGED <<rsp, immu_ready, dmmu_to_ex, execOut, if_id_accept>>

RspComb ==
    /\ phase = "rsp" /\ phase' = "neg"
    /\ ImemRspComb /\ DmemRspComb
    /\ UNCHANGED <<image, stall, flush, immu_flush, immu_pc, bufVars, if_id_accept,
                   preVars, immuVars, id_ex, ex_pc, npc, branch_taken, ex, act, trap_epc,
                   mext_req, ex_to_dmmu, wb, regs, mext_rsp, dmmuVars, dmem,
                   epc, eimage, ie, irq>>

ExecComb ==
    /\ phase = "neg" /\ phase' = "fifo"
    /\ ExecOutputs
    /\ UNCHANGED <<image, immu_flush, rsp, immu_pc, bufVars, if_id_accept, preVars,
                   immuVars, immu_ready, id_ex, ex_pc, wb, regs, mext_rsp, dmmuVars,
                   dmmu_to_ex, dmem, epc, eimage, ie, irq>>

FifoComb ==
    /\ phase = "fifo" /\ phase' = "pos"
    /\ FifoStateComb
    /\ UNCHANGED <<inVars, bufVars, preVars, immuVars, immu_ready, id_ex, ex_pc,
                   npc, branch_taken, ex, act, trap_epc, mext_req, ex_to_dmmu, wb, regs,
                   mext_rsp, dmmuVars, dmmu_to_ex, dmem, epc, eimage, ie, irq>>

Next == PosEdge \/ RspComb \/ ExecComb \/ FifoComb

Spec == Init /\ [][Next]_vars

(***************************************************************************)
(* What the pipeline promises.                                             *)
(***************************************************************************)

\* The registers as the next instruction must see them: the one in the
\* writeback stage has retired but is not in the register file yet.
ArchRegs ==
    [r \in Regs |-> IF wb.write /\ wb.rd = r /\ r # 0 THEN wb.val ELSE regs[r]]

Arch == INSTANCE Isa WITH pc <- ex_pc, regs <- ArchRegs

\* The pipeline executes the program, and nothing but the program, one
\* instruction at a time and in order, whatever the prefetcher ran ahead
\* to, however long translations and multiplications took, and wherever an
\* exception or interrupt fell.
RefinesIsa == Arch!IsaSpec

\* Types of the processor's registers and signals.
TypeOK ==
    /\ FetchTypeOK
    /\ phase \in {"rsp", "neg", "fifo", "pos"}
    /\ {fetch_pc, npc, ex_pc, epc, trap_epc} \subseteq Addr
    /\ i_state \in 0 .. 3 /\ d_state \in 0 .. 3
    /\ i_fault \in {"none", "access", "page"}
    /\ i_image \in Images /\ eimage \in Images
    /\ id_ex \in [flush : BOOLEAN, op : Ops, rd : Regs, rs_val : Value, imm : Addr,
                  pc : Addr, len : 1 .. 2, trap : BOOLEAN]
    /\ ex \in [write : BOOLEAN, rd : Regs, val : Value]
    /\ wb \in [write : BOOLEAN, rd : Regs, val : Value, stall : BOOLEAN]
    /\ regs \in [Regs -> Value]
    /\ act \in {"none", "trap", "ret", "ctx"}
    /\ mext_rsp \in [ack : BOOLEAN, result : Value]
    /\ ex_to_dmmu \in [req : BOOLEAN, wdata : Value]
    /\ dmmu_to_mem \in [req : BOOLEAN, wdata : Value]
    /\ dmmu_to_ex \in [ack : BOOLEAN, fault : BOOLEAN, rdata : Value]
    /\ dmem \in Value
    /\ {branch_taken, i_req, immu_ready, mext_req, d_fault, ie, irq} \subseteq BOOLEAN

\* An instruction reaches EXEC only at the address EXEC is about to execute:
\* the wrong path of a branch, and what was fetched before a flush, never do.
PrecisePc == ~id_ex.flush => id_ex.pc = ex_pc

\* stall and flush are never raised together.  The decoder updates id_ex
\* only when stall is low, so a flush under a stall would be lost.
StallExcludesFlush == ~(stall /\ flush)

\* The data port answers the instruction that asked, once: exec_comb takes
\* the answer's data for ex_rd_val whatever instruction it is executing.
AnswerMatchesRequest ==
    (phase # "rsp" /\ dmmu_to_ex.ack) =>
        ~id_ex.flush /\ id_ex.op = "amo" /\ wb.stall

\* A walk that read page tables in one context never completes in another,
\* and its answer always carries the word of the current context.
FetchSeesContext ==
    /\ (i_state # 0 \/ i_fault # "none") => i_image = image
    /\ (phase # "rsp" /\ rsp.ack) => rsp.word = WordAt(image, immu_pc)

\* No answer arrives while the answer of a flushed request is awaited, so
\* that fifo_state_comb, which does not look at immu_flush, agrees with
\* get_inst_seq, which does.
NoAnswerWhileDraining == phase # "rsp" => ~(immu_flush /\ rsp.ack)

\* What EXEC waits for is on its way: one edge after it began to wait, the
\* multiplier has answered, or the DMMU works or has failed.  Nothing else
\* would end the wait, as no interrupt is taken meanwhile.
WaitIsServed ==
    wb.stall =>
        /\ ~id_ex.flush /\ ~id_ex.trap
        /\ \/ id_ex.op = "mul" /\ mext_rsp.ack
           \/ id_ex.op = "amo" /\ (d_state # 0 \/ d_fault)
           \/ id_ex.op = "wfi"

(***************************************************************************)
(* The inductive invariant behind the invariants above.                    *)
(***************************************************************************)

Executed == phase \in {"fifo", "pos"}

\* A stalled instruction stays where it is; a step that changes the fetch
\* context flushes.
FlowInv ==
    /\ (Executed /\ stall) => npc = ex_pc
    /\ (Executed /\ act # "none") => flush

\* The DMMU works, or has just failed, for the "amo" in EXEC, which has
\* waited for it since the cycle it asked.
AccessInv ==
    /\ (d_state # 0 \/ d_fault) =>
          ~id_ex.flush /\ ~id_ex.trap /\ id_ex.op = "amo" /\ wb.stall
    /\ d_state = 3 => dmmu_to_mem.req \/ d_fault
    /\ phase # "rsp" =>
          /\ dmmu_to_ex.ack = ((d_state = 3 /\ dmmu_to_mem.req) \/ d_fault)
          /\ dmmu_to_ex.fault = d_fault
    /\ (Executed /\ d_fault) => flush
    /\ (Executed /\ d_state \in {1, 2} /\ ~d_fault) => stall
    /\ (Executed /\ ex_to_dmmu.req) =>
          stall /\ ~id_ex.flush /\ ~id_ex.trap /\ id_ex.op = "amo"

\* The IMMU is idle right after a flush, and the fault it reports is that of
\* the address and the context it works for.
ImmuInv ==
    /\ immu_flush => i_state = 0 /\ ~i_req /\ i_fault = "none"
    /\ i_fault # "none" => i_fault = FetchFault(i_image, immu_pc)
    /\ phase # "rsp" => (i_state = 0 => immu_ready)

\* The inductive invariant of the processor: the buffer's invariant, the
\* invariants above, and the three that make them inductive.
PipeInv ==
    /\ TypeOK /\ BufferInv
    /\ PrecisePc /\ StallExcludesFlush
    /\ FlowInv /\ AccessInv /\ ImmuInv
    /\ FetchSeesContext /\ NoAnswerWhileDraining

(***************************************************************************)
(* What makes the pipeline implement Isa, on top of PipeInv.               *)
(***************************************************************************)

\* EXEC holds the instruction of the program at its pc, with the operand
\* that the instructions before it left.
InstructionInv ==
    /\ ~id_ex.flush =>
          LET i == InstrAt(image, ex_pc) IN
          /\ id_ex.op = i.op /\ id_ex.rd = i.rd /\ id_ex.imm = i.imm
          /\ id_ex.len = LenAt(image, ex_pc)
          /\ id_ex.trap <=> FaultAt(image, ex_pc) # "none" \/ i.op = "ill"
          /\ id_ex.rs_val = ArchRegs[i.rs]
    /\ id_ex.flush => id_ex.op = "nop"

\* What EXEC put out at the falling edge still follows from its inputs at
\* the next rising edge.
OutputsInv ==
    Executed =>
        /\ npc = NextFetch /\ ex = RdWrite /\ act = Effect /\ trap_epc = SavedPc
        /\ stall <=> Stalls
        /\ flush <=> OnTrap \/ Flushes
        /\ ex_to_dmmu.wdata = id_ex.rs_val
        /\ ex_to_dmmu.req <=> Runs("amo") /\ ~wb.stall
        /\ Runs("mul") => (mext_req <=> ~wb.stall)

\* The access that memory is about to apply is the one of the "amo" in EXEC,
\* and the answer is what the word holds until then.
WordInv ==
    /\ dmmu_to_mem.req =>
          d_state = 3 /\ ~d_fault /\ dmmu_to_mem.wdata = id_ex.rs_val
    /\ (phase # "rsp" /\ dmmu_to_mem.req) => dmmu_to_ex.rdata = dmem

\* A product is that of the multiplication in EXEC, which has waited for it;
\* the answer to an earlier one never meets a new one.
ProductInv ==
    (mext_rsp.ack /\ id_ex.op = "mul") =>
        wb.stall /\ mext_rsp.result = Plus(id_ex.rs_val, id_ex.rs_val)

ArchInv == InstructionInv /\ OutputsInv /\ WordInv /\ ProductInv

\* The inductive invariant of the refinement: the stages agree, and what is
\* in them is the program.
IsaInv == PipeInv /\ ArchInv

(***************************************************************************)
(* Progress.  The clock never stops, and the timer keeps raising           *)
(* interrupts, which a WFI may need to go on.                              *)
(***************************************************************************)
Fairness == WF_vars(Next) /\ SF_vars(PosEdge /\ irq')

FairSpec == Spec /\ Fairness

\* An instruction, or a trap, completes at this rising edge.
Completes == phase = "pos" /\ ~stall /\ (~id_ex.flush \/ act = "trap")

\* The processor never hangs: after every branch, flush, fault and wait an
\* instruction completes again.
Progress == []<>Completes
=============================================================================
