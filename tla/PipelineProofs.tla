--------------------------- MODULE PipelineProofs ---------------------------
(***************************************************************************)
(* The invariants of the pipeline, for every program, every register file, *)
(* every size of the address space and every behaviour of translation,     *)
(* data accesses and interrupts: PipeInv is inductive.  On top of it, the  *)
(* pipeline implements Isa: IsaInv says what is in the stages, and every   *)
(* rising edge is an instruction, a trap or no step at all.                *)
(***************************************************************************)
EXTENDS Pipeline, FetchBufferLemmas

\* Sums of addresses are addresses.
LEMMA PlusAddr ==
    ASSUME NEW a \in Addr, NEW b \in Addr
    PROVE  Plus(a, b) \in Addr
  BY FetchAssumption DEF Plus, Addr

LEMMA SmallAddr == 0 \in Addr /\ 1 \in Addr /\ 2 \in Addr
  BY FetchAssumption DEF Addr

LEMMA WordBaseAddr ==
    ASSUME NEW a \in Addr
    PROVE  WordBase(a) \in Addr
  BY FetchAssumption DEF WordBase, Addr

\* What the record types say field by field, in the form the provers use.
LEMMA Types ==
    ASSUME TypeOK
    PROVE  /\ fetch_pc \in Addr /\ npc \in Addr /\ ex_pc \in Addr /\ epc \in Addr
           /\ trap_epc \in Addr /\ immu_pc \in Addr
           /\ image \in Images /\ i_image \in Images /\ eimage \in Images
           /\ rsp \in Response /\ if_id \in IfId
           /\ stall \in BOOLEAN /\ flush \in BOOLEAN /\ immu_flush \in BOOLEAN
           /\ if_id_accept \in BOOLEAN /\ branch_taken \in BOOLEAN
           /\ immu_ready \in BOOLEAN /\ mext_req \in BOOLEAN /\ d_fault \in BOOLEAN
           /\ ie \in BOOLEAN /\ irq \in BOOLEAN /\ i_req \in BOOLEAN
  BY DEF TypeOK, FetchTypeOK

(***************************************************************************)
(* Types.                                                                  *)
(***************************************************************************)

\* The decoder's registers keep their types.
LEMMA DecodeType ==
    ASSUME TypeOK, InstDecodeSeq
    PROVE  id_ex' \in [flush : BOOLEAN, op : Ops, rd : Regs, rs_val : Value, imm : Addr,
                       pc : Addr, len : 1 .. 2, trap : BOOLEAN]
  <1>1. Bubble \in [flush : BOOLEAN, op : Ops, rd : Regs, rs_val : Value, imm : Addr,
                    pc : Addr, len : 1 .. 2, trap : BOOLEAN]
    BY SmallAddr, IsaAssumption DEF Bubble, Ops, Value
  <1>2. Decoded \in [flush : BOOLEAN, op : Ops, rd : Regs, rs_val : Value, imm : Addr,
                     pc : Addr, len : 1 .. 2, trap : BOOLEAN]
    <2> DEFINE p == if_id.inst[0]
               q == if_id.inst[1]
               i == Instr(p, q)
    <2>1. p \in Parcel /\ q \in Parcel /\ if_id.pc \in Addr
      BY DEF TypeOK, FetchTypeOK, IfId
    <2>2. i.op \in Ops /\ i.rd \in Regs /\ i.rs \in Regs /\ i.imm \in Addr
      BY <2>1, IsaAssumption DEF Instr, Decode, Decompress
    <2>3. \A r \in Regs : Operand(r) \in Value
      BY DEF TypeOK, Operand
    <2>4. (IF p \in LongParcel THEN 2 ELSE 1) \in 1 .. 2
      OBVIOUS
    <2>5. (if_id.fault # "none" \/ i.op = "ill") \in BOOLEAN
      OBVIOUS
    <2> HIDE DEF i
    <2>6. Decoded = [flush |-> FALSE, op |-> i.op, rd |-> i.rd, rs_val |-> Operand(i.rs),
                     imm |-> i.imm, pc |-> if_id.pc,
                     len |-> IF p \in LongParcel THEN 2 ELSE 1,
                     trap |-> if_id.fault # "none" \/ i.op = "ill"]
      BY DEF Decoded, i
    <2> HIDE DEF p, q
    <2> QED
      BY <2>1, <2>2, <2>3, <2>4, <2>5, <2>6
  <1> QED
    BY <1>1, <1>2 DEF InstDecodeSeq, TypeOK

\* EXEC's outputs keep their types.
LEMMA ExecType ==
    ASSUME TypeOK, ExecOutputs
    PROVE  /\ branch_taken' \in BOOLEAN /\ stall' \in BOOLEAN /\ flush' \in BOOLEAN
           /\ npc' \in Addr /\ trap_epc' \in Addr
           /\ ex' \in [write : BOOLEAN, rd : Regs, val : Value]
           /\ ex_to_dmmu' \in [req : BOOLEAN, wdata : Value]
           /\ act' \in {"none", "trap", "ret", "ctx"}
           /\ mext_req' \in BOOLEAN
  <1>1. /\ id_ex.pc \in Addr /\ id_ex.imm \in Addr /\ id_ex.rs_val \in Addr
        /\ id_ex.len \in 1 .. 2 /\ id_ex.rd \in Regs
        /\ ex_pc \in Addr /\ epc \in Addr /\ mext_rsp.result \in Addr
        /\ dmmu_to_ex.rdata \in Addr /\ mext_req \in BOOLEAN
    BY DEF TypeOK, Value
  <1>2. Plus(ex_pc, id_ex.len) \in Addr /\ Plus(id_ex.pc, id_ex.len) \in Addr
        /\ Plus(id_ex.rs_val, id_ex.imm) \in Addr
    BY <1>1, PlusType, PlusAddr
  <1>3. TargetPc \in Addr /\ Result \in Addr
    BY <1>1, <1>2, SmallAddr DEF TargetPc, Result
  <1>4. BranchTaken \in BOOLEAN /\ Stalls \in BOOLEAN /\ OnTrap \in BOOLEAN
        /\ Flushes \in BOOLEAN /\ \A op : Runs(op) \in BOOLEAN
    BY DEF BranchTaken, Stalls, OnTrap, Flushes, Runs
  <1>5. npc' \in Addr /\ trap_epc' \in Addr
    BY <1>1, <1>3, IsaAssumption DEF ExecOutputs, NextFetch, SavedPc
  <1>6. ex' \in [write : BOOLEAN, rd : Regs, val : Value]
    <2> DEFINE w == Retires /\ WritesRd(id_ex.op)
               v == IF ~Retires THEN 0
                    ELSE IF dmmu_to_ex.ack THEN dmmu_to_ex.rdata ELSE Result
    <2>1. ex' = [write |-> w, rd |-> id_ex.rd, val |-> v]
      BY DEF ExecOutputs, RdWrite
    <2>2. w \in BOOLEAN /\ v \in Value
      BY <1>1, <1>3, SmallAddr DEF Value
    <2> HIDE DEF w, v
    <2> QED
      BY <1>1, <2>1, <2>2
  <1>7. ex_to_dmmu' \in [req : BOOLEAN, wdata : Value]
    <2> DEFINE r == Runs("amo") /\ ~wb.stall
    <2>1. ex_to_dmmu' = [req |-> r, wdata |-> id_ex.rs_val] /\ r \in BOOLEAN
      BY DEF ExecOutputs
    <2> HIDE DEF r
    <2> QED
      BY <1>1, <2>1 DEF Value
  <1>8. mext_req' \in BOOLEAN
    BY <1>1 DEF ExecOutputs
  <1> QED
    BY <1>4, <1>5, <1>6, <1>7, <1>8 DEF ExecOutputs, Effect

\* The answer of the instruction port is well formed.
LEMMA ImemRspType ==
    ASSUME TypeOK, ImemRspComb
    PROVE  rsp' \in Response /\ immu_ready' \in BOOLEAN
  <1> DEFINE ack == ((i_state = 3 \/ immu_flush) /\ i_req) \/ i_fault # "none"
             faultWord == [h \in 0 .. 1 |-> [bits |-> ZeroParcel,
                                             pf |-> i_fault = "page",
                                             af |-> i_fault = "access"]]
             word == IF ~ack THEN NoWord
                     ELSE IF i_fault # "none" THEN faultWord
                     ELSE WordAt(i_image, immu_pc)
  <1>1. faultWord \in [0 .. 1 -> Slot]
    <2> DEFINE pf == i_fault = "page"
               af == i_fault = "access"
    <2>1. pf \in BOOLEAN /\ af \in BOOLEAN
      OBVIOUS
    <2>2. faultWord = [h \in 0 .. 1 |-> [bits |-> ZeroParcel, pf |-> pf, af |-> af]]
      OBVIOUS
    <2> HIDE DEF pf, af, faultWord
    <2> QED
      BY <2>1, <2>2, FetchAssumption DEF Slot
  <1>2. NoWord \in [0 .. 1 -> Slot]
    BY FetchAssumption DEF NoWord, ZeroSlot, Slot
  <1>3. WordAt(i_image, immu_pc) \in [0 .. 1 -> Slot]
    BY Types, WordAtType
  <1>4. word \in [0 .. 1 -> Slot] /\ ack \in BOOLEAN
    BY <1>1, <1>2, <1>3
  <1>5. rsp' = [ack |-> ack, word |-> word]
    BY DEF ImemRspComb
  <1>6. immu_ready' \in BOOLEAN
    BY DEF ImemRspComb
  <1> HIDE DEF ack, word
  <1> QED
    BY <1>4, <1>5, <1>6 DEF Response

(***************************************************************************)
(* One lemma per step of the clock cycle.                                  *)
(***************************************************************************)

\* One nanosecond after the rising edge the two memory ports answer.
LEMMA RspCombKeeps ==
    ASSUME PipeInv, RspComb
    PROVE  PipeInv'
  <1> USE DEF PipeInv
  <1>1. /\ phase = "rsp" /\ phase' = "neg"
        /\ UNCHANGED <<image, stall, flush, immu_flush, immu_pc, bufVars, if_id_accept>>
        /\ UNCHANGED <<buffer, buffer_idx, buffer_addr, if_id>>
        /\ UNCHANGED <<fetch_pc, i_state, i_req, i_fault, i_image, id_ex, ex_pc, npc>>
        /\ UNCHANGED <<branch_taken, ex, act, trap_epc, mext_req, ex_to_dmmu, wb, regs>>
        /\ UNCHANGED <<mext_rsp, d_state, d_fault, dmmu_to_mem, dmem, epc, eimage>>
        /\ UNCHANGED <<ie, irq>>
        /\ ImemRspComb /\ DmemRspComb
    BY DEF RspComb, bufVars, preVars, immuVars, dmmuVars
  <1>2. rsp' \in Response /\ immu_ready' \in BOOLEAN
    BY <1>1, ImemRspType
  <1>3. BufferInv'
    BY <1>1, <1>2, Types, SignalsKeepInv
  <1> DEFINE dack == (d_state = 3 /\ dmmu_to_mem.req) \/ d_fault
             rdata == IF dmmu_to_mem.req THEN dmem ELSE 0
  <1>4. dmmu_to_ex' = [ack |-> dack, fault |-> d_fault, rdata |-> rdata]
        /\ dack \in BOOLEAN /\ rdata \in Value /\ d_fault \in BOOLEAN
    BY <1>1, SmallAddr DEF DmemRspComb, TypeOK, Value
  <1>5. dmmu_to_ex' \in [ack : BOOLEAN, fault : BOOLEAN, rdata : Value]
        /\ dmmu_to_ex'.ack = dack /\ dmmu_to_ex'.fault = d_fault
    <2> HIDE DEF dack, rdata
    <2> QED
      BY <1>4
  <1>6. TypeOK'
    BY <1>1, <1>2, <1>3, <1>5 DEF TypeOK, BufferInv
  <1>7. PrecisePc' /\ StallExcludesFlush' /\ FlowInv'
    BY <1>1 DEF PrecisePc, StallExcludesFlush, FlowInv, Executed
  <1>8. AccessInv'
    BY <1>1, <1>5 DEF AccessInv, Executed
  <1> DEFINE ack == ((i_state = 3 \/ immu_flush) /\ i_req) \/ i_fault # "none"
  <1>9. rsp'.ack = ack /\ immu_ready' = (ack \/ i_state = 0)
    BY <1>1 DEF ImemRspComb
  <1>10. ImmuInv'
    BY <1>1, <1>9, Types DEF ImmuInv, FetchFault
  <1>11. NoAnswerWhileDraining'
    BY <1>1, <1>9 DEF NoAnswerWhileDraining, ImmuInv
  <1>12. FetchSeesContext'
    <2> SUFFICES ASSUME ack PROVE rsp'.word = WordAt(image, immu_pc)
      BY <1>1, <1>9 DEF FetchSeesContext
    <2>1. i_image = image
      BY DEF FetchSeesContext, ImmuInv
    <2>2. CASE i_fault = "none"
      BY <1>1, <2>1, <2>2 DEF ImemRspComb
    <2>3. CASE i_fault # "none"
      <3>1. i_fault = FetchFault(image, immu_pc)
        BY <2>1, <2>3 DEF ImmuInv
      <3>2. image[immu_pc] \in Slot
        BY Types, FetchAssumption
      <3>3. image[immu_pc].af \/ image[immu_pc].pf
        BY <2>3, <3>1 DEF FetchFault
      <3>4. (i_fault = "page") = ~image[immu_pc].af /\ (i_fault = "access") = image[immu_pc].af
        BY <3>1, <3>2, <3>3 DEF FetchFault, Slot
      <3>5. WordAt(image, immu_pc) =
              [h \in 0 .. 1 |-> [bits |-> ZeroParcel, pf |-> ~image[immu_pc].af,
                                 af |-> image[immu_pc].af]]
        BY <3>3, Types, WordFaultAssumption
      <3>6. rsp'.word = [h \in 0 .. 1 |-> [bits |-> ZeroParcel, pf |-> i_fault = "page",
                                           af |-> i_fault = "access"]]
        BY <1>1, <2>3 DEF ImemRspComb
      <3> QED
        BY <3>4, <3>5, <3>6
    <2> QED
      BY <2>2, <2>3
  <1> QED
    BY <1>3, <1>6, <1>7, <1>8, <1>10, <1>11, <1>12

\* An instruction that waits neither traps nor returns nor flushes.
LEMMA StallsAlone ==
    ASSUME PipeInv, phase # "rsp", Stalls
    PROVE  ~OnTrap /\ ~Runs("eret") /\ ~Flushes
  BY DEF PipeInv, Stalls, OnTrap, Flushes, Runs, AccessInv, TypeOK

\* At the falling edge EXEC decides.
LEMMA ExecCombKeeps ==
    ASSUME PipeInv, ExecComb
    PROVE  PipeInv'
  <1> USE DEF PipeInv
  <1>1. /\ phase = "neg" /\ phase' = "fifo"
        /\ UNCHANGED <<image, immu_flush, rsp, immu_pc, bufVars, if_id_accept>>
        /\ UNCHANGED <<buffer, buffer_idx, buffer_addr, if_id>>
        /\ UNCHANGED <<fetch_pc, i_state, i_req, i_fault, i_image, immu_ready>>
        /\ UNCHANGED <<id_ex, ex_pc, wb, regs, mext_rsp, d_state, d_fault, dmmu_to_mem>>
        /\ UNCHANGED <<dmmu_to_ex, dmem, epc, eimage, ie, irq>>
        /\ ExecOutputs
    BY DEF ExecComb, bufVars, preVars, immuVars, dmmuVars
  <1>2. /\ branch_taken' \in BOOLEAN /\ stall' \in BOOLEAN /\ flush' \in BOOLEAN
        /\ npc' \in Addr /\ trap_epc' \in Addr
        /\ ex' \in [write : BOOLEAN, rd : Regs, val : Value]
        /\ ex_to_dmmu' \in [req : BOOLEAN, wdata : Value]
        /\ act' \in {"none", "trap", "ret", "ctx"}
        /\ mext_req' \in BOOLEAN
    BY <1>1, ExecType
  <1>3. BufferInv'
    BY <1>1, <1>2, Types, SignalsKeepInv
  <1>4. TypeOK'
    BY <1>1, <1>2, <1>3 DEF TypeOK, BufferInv
  <1>5. Stalls => ~OnTrap /\ ~Runs("eret") /\ ~Flushes
    BY <1>1, StallsAlone
  <1>6. stall' = Stalls /\ flush' = (OnTrap \/ Flushes)
        /\ (act' # "none" => OnTrap \/ Flushes)
        /\ (Stalls /\ ~OnTrap /\ ~Runs("eret") => npc' = ex_pc)
    BY <1>1 DEF ExecOutputs, NextFetch, Effect, Flushes
  <1>7. PrecisePc' /\ StallExcludesFlush' /\ FlowInv'
    BY <1>1, <1>5, <1>6 DEF PrecisePc, StallExcludesFlush, FlowInv
  <1>8. AccessInv'
    <2>1. /\ dmmu_to_ex.ack = ((d_state = 3 /\ dmmu_to_mem.req) \/ d_fault)
          /\ dmmu_to_ex.fault = d_fault
      BY <1>1 DEF AccessInv
    <2>2. d_state # 0 \/ d_fault => Runs("amo")
      <3>1. d_state # 0 \/ d_fault =>
               ~id_ex.flush /\ ~id_ex.trap /\ id_ex.op = "amo" /\ wb.stall
        BY DEF AccessInv
      <3> QED
        BY <3>1 DEF Runs, TakesInterrupt
    <2>3. d_fault => OnTrap
      BY <2>1, <2>2 DEF OnTrap
    <2>4. d_state \in {1, 2} /\ ~d_fault => Stalls
      <3>1. d_state \in {1, 2} /\ ~d_fault => ~dmmu_to_ex.ack
        BY <2>1, Types
      <3> QED
        BY <2>2, <3>1 DEF Stalls
    <2>5. ex_to_dmmu'.req = (Runs("amo") /\ ~wb.stall)
      BY <1>1 DEF ExecOutputs
    <2>6. Runs("amo") /\ ~wb.stall => Stalls
      <3>1. ~wb.stall => d_state = 0 /\ ~d_fault
        BY DEF AccessInv
      <3>2. ~wb.stall => ~dmmu_to_ex.ack
        BY <2>1, <3>1, Types
      <3> QED
        BY <3>2 DEF Stalls
    <2> QED
      BY <1>1, <1>6, <2>1, <2>3, <2>4, <2>5, <2>6 DEF AccessInv, Executed, Runs
  <1>9. ImmuInv' /\ FetchSeesContext' /\ NoAnswerWhileDraining'
    BY <1>1 DEF ImmuInv, FetchSeesContext, NoAnswerWhileDraining, FetchFault
  <1> QED
    BY <1>3, <1>4, <1>7, <1>8, <1>9

\* One nanosecond later the fetch buffer tells what it will take.
LEMMA FifoCombKeeps ==
    ASSUME PipeInv, FifoComb
    PROVE  PipeInv'
  <1> USE DEF PipeInv
  <1>1. /\ phase = "fifo" /\ phase' = "pos"
        /\ UNCHANGED <<image, stall, flush, immu_flush, rsp, immu_pc, bufVars>>
        /\ UNCHANGED <<buffer, buffer_idx, buffer_addr, if_id>>
        /\ UNCHANGED <<fetch_pc, i_state, i_req, i_fault, i_image, immu_ready>>
        /\ UNCHANGED <<id_ex, ex_pc, npc, branch_taken, ex, act, trap_epc, mext_req>>
        /\ UNCHANGED <<ex_to_dmmu, wb, regs, mext_rsp, d_state, d_fault, dmmu_to_mem>>
        /\ UNCHANGED <<dmmu_to_ex, dmem, epc, eimage, ie, irq>>
        /\ if_id_accept' = Accept
    BY DEF FifoComb, FifoStateComb, inVars, bufVars, preVars, immuVars, dmmuVars
  <1>2. Accept \in BOOLEAN
    BY Types DEF Accept, Response, Pops, Contiguous
  <1>3. BufferInv'
    BY <1>1, <1>2, Types, SignalsKeepInv
  <1>4. TypeOK'
    BY <1>1, <1>3 DEF TypeOK, BufferInv
  <1>5. PrecisePc' /\ StallExcludesFlush' /\ FlowInv' /\ AccessInv'
    BY <1>1 DEF PrecisePc, StallExcludesFlush, FlowInv, AccessInv, Executed
  <1>6. ImmuInv' /\ FetchSeesContext' /\ NoAnswerWhileDraining'
    BY <1>1 DEF ImmuInv, FetchSeesContext, NoAnswerWhileDraining, FetchFault
  <1> QED
    BY <1>3, <1>4, <1>5, <1>6

\* The CSRs that decide the fetch context: they change only with a flush.
LEMMA ExecSeqContext ==
    ASSUME PipeInv, ExecSeq, phase = "pos"
    PROVE  /\ image' \in Images /\ eimage' \in Images /\ epc' \in Addr /\ ie' \in BOOLEAN
           /\ ~flush => image' = image
  <1>1. CodeOf[TrapContext] \in Images /\ CodeOf[id_ex.imm] \in Images
    BY IsaAssumption DEF PipeInv, TypeOK
  <1>2. act # "none" => flush
    BY DEF PipeInv, FlowInv, Executed
  <1>3. /\ image \in Images /\ eimage \in Images /\ epc \in Addr /\ ie \in BOOLEAN
        /\ trap_epc \in Addr
    BY Types DEF PipeInv
  <1>4. /\ image' \in Images /\ eimage' \in Images /\ epc' \in Addr /\ ie' \in BOOLEAN
        /\ act = "none" => image' = image
    <2>1. CASE act = "trap"
      BY <1>1, <1>3, <2>1 DEF ExecSeq
    <2>2. CASE act = "ret"
      BY <1>1, <1>3, <2>2 DEF ExecSeq
    <2>3. CASE act = "ctx"
      BY <1>1, <1>3, <2>3 DEF ExecSeq
    <2>4. CASE act = "none"
      BY <1>3, <2>4 DEF ExecSeq, csrVars
    <2> QED
      BY <2>1, <2>2, <2>3, <2>4 DEF ExecSeq
  <1> QED
    BY <1>2, <1>4

\* The IMMU at the rising edge.
LEMMA ImemReqKeeps ==
    ASSUME PipeInv, ImemReqSeq, phase = "pos", phase' = "rsp",
           ~flush => image' = image
    PROVE  /\ immu_pc' \in Addr /\ immu_flush' \in BOOLEAN
           /\ i_state' \in 0 .. 3 /\ i_req' \in BOOLEAN
           /\ i_fault' \in {"none", "access", "page"} /\ i_image' \in Images
           /\ ImmuInv' /\ FetchSeesContext'
  <1>1. /\ fetch_pc \in Addr /\ immu_pc \in Addr /\ i_image \in Images /\ image \in Images
        /\ immu_flush \in BOOLEAN /\ flush \in BOOLEAN /\ immu_ready \in BOOLEAN
    BY Types DEF PipeInv
  <1>2. i_state \in 0 .. 3
    BY DEF PipeInv, TypeOK
  <1>3. immu_flush => immu_ready
    BY DEF PipeInv, ImmuInv
  <1>4. immu_flush' = (~immu_ready /\ (flush \/ immu_flush)) /\ (immu_flush' => flush)
    BY <1>1, <1>3 DEF ImemReqSeq
  <1>5. \A im, a : FetchFault(im, a) \in {"none", "access", "page"}
    BY DEF FetchFault
  <1>6. CASE ImmuFlushed
    <2>1. /\ i_state' = 0 /\ i_req' = FALSE /\ i_fault' = "none"
          /\ immu_pc' = immu_pc /\ i_image' = i_image
      BY <1>6 DEF ImmuFlushed
    <2>2. i_req' \in BOOLEAN /\ ~i_req'
      BY <2>1
    <2>3. i_state' \in 0 .. 3 /\ immu_flush' \in BOOLEAN
      BY <1>1, <1>4, <2>1
    <2> QED
      BY <1>1, <2>1, <2>2, <2>3 DEF ImmuInv, FetchSeesContext
  <1>7. CASE ImmuStart
    <2> DEFINE a == IF if_id_accept THEN fetch_pc ELSE immu_pc
    <2>1. /\ ~flush /\ immu_pc' = a /\ a \in Addr /\ i_image' = image /\ image' = image
          /\ (StartFetch(image, a) \/ FetchFaults(image, a, {1, 3}) \/ WalkDown(1))
      BY <1>1, <1>7 DEF ImmuStart
    <2> HIDE DEF a
    <2>2. /\ i_state' \in 0 .. 3
          /\ i_fault' \in {"none", "access", "page"}
          /\ i_fault' # "none" => i_fault' = FetchFault(image, a)
      BY <1>2, <1>5, <2>1 DEF StartFetch, FetchFaults, WalkDown
    <2>3. i_req' \in BOOLEAN
      BY <2>1 DEF StartFetch, FetchFaults, WalkDown
    <2> QED
      BY <1>1, <1>4, <2>1, <2>2, <2>3 DEF ImmuInv, FetchSeesContext
  <1>8. CASE ImmuWalk
    <2>1. ~flush /\ i_image' = i_image /\ immu_pc' = immu_pc /\ image' = image
          /\ i_state \in {1, 2} /\ i_image = image
      BY <1>8 DEF ImmuWalk, PipeInv, FetchSeesContext
    <2>2. /\ i_state' \in 0 .. 3
          /\ i_fault' \in {"none", "access", "page"}
          /\ i_fault' # "none" => i_fault' = FetchFault(i_image, immu_pc)
      BY <1>2, <1>5, <1>8 DEF ImmuWalk, StartFetch, FetchFaults, WalkDown
    <2>3. i_req' \in BOOLEAN
      BY <1>8 DEF ImmuWalk, StartFetch, FetchFaults, WalkDown
    <2> QED
      BY <1>1, <1>4, <2>1, <2>2, <2>3 DEF ImmuInv, FetchSeesContext
  <1> QED
    BY <1>6, <1>7, <1>8 DEF ImemReqSeq

\* The DMMU at the rising edge.
LEMMA DmemReqKeeps ==
    ASSUME PipeInv, DmemReqSeq, InstDecodeSeq, WritebackSeq, phase = "pos", phase' = "rsp"
    PROVE  /\ d_state' \in 0 .. 3 /\ d_fault' \in BOOLEAN
           /\ dmmu_to_mem' \in [req : BOOLEAN, wdata : Value]
           /\ AccessInv'
  <1> USE DEF PipeInv
  <1>1. d_state \in 0 .. 3 /\ ex_to_dmmu.wdata \in Value /\ 0 \in Value
    BY SmallAddr DEF TypeOK, Value
  <1>2. /\ DAccess => d_state' = 3 /\ ~d_fault' /\ d_fault' \in BOOLEAN
        /\ DIdle => d_state' = 0 /\ ~d_fault' /\ d_fault' \in BOOLEAN
        /\ \A n : DFaults(n) => d_state' \in {0, n, 3} /\ d_fault' /\ d_fault' \in BOOLEAN
        /\ \A n : DWalkDown(n) => d_state' = n /\ ~d_fault' /\ d_fault' \in BOOLEAN
    BY Zenon DEF DAccess, DIdle, DFaults, DWalkDown
  <1>3. DAccess => dmmu_to_mem' \in [req : BOOLEAN, wdata : Value] /\ dmmu_to_mem'.req
    BY <1>1 DEF DAccess
  <1>4. NoAccess \in [req : BOOLEAN, wdata : Value]
    BY <1>1 DEF NoAccess
  <1>5. /\ DIdle => dmmu_to_mem' \in [req : BOOLEAN, wdata : Value]
        /\ \A n : DFaults(n) \/ DWalkDown(n) =>
                     dmmu_to_mem' \in [req : BOOLEAN, wdata : Value]
    BY <1>4, Zenon DEF DIdle, DFaults, DWalkDown
  <1> DEFINE Busy == \/ d_state = 0 /\ ex_to_dmmu.req
                     \/ d_state \in {1, 2}
  <1>6. \/ DIdle
        \/ /\ ~flush /\ Busy
           /\ \/ DAccess
              \/ \E n \in 1 .. 3 : DFaults(n)
              \/ \E n \in 1 .. 2 : DWalkDown(n)
    BY DEF DmemReqSeq
  <1>7. CASE DIdle
    BY <1>2, <1>7, <1>5 DEF AccessInv, Executed
  <1>8. CASE /\ ~flush /\ Busy
             /\ \/ DAccess
                \/ \E n \in 1 .. 3 : DFaults(n)
                \/ \E n \in 1 .. 2 : DWalkDown(n)
    <2>1. /\ d_state' \in 0 .. 3 /\ d_fault' \in BOOLEAN
          /\ dmmu_to_mem' \in [req : BOOLEAN, wdata : Value]
          /\ d_state' = 3 => dmmu_to_mem'.req \/ d_fault'
      <3>1. CASE DAccess
        BY <1>2, <1>3, <1>5, <3>1
      <3>2. CASE \E n \in 1 .. 3 : DFaults(n)
        BY <1>2, <1>3, <1>5, <3>2
      <3>3. CASE \E n \in 1 .. 2 : DWalkDown(n)
        BY <1>2, <1>3, <1>5, <3>3
      <3> QED
        BY <1>8, <3>1, <3>2, <3>3
    <2>2. ~d_fault
      BY <1>8 DEF AccessInv, Executed
    <2>3. stall /\ ~id_ex.flush /\ ~id_ex.trap /\ id_ex.op = "amo"
      BY <1>8, <2>2 DEF AccessInv, Executed
    <2>4. id_ex' = id_ex /\ wb'.stall = stall
      BY <2>3 DEF InstDecodeSeq, WritebackSeq
    <2> QED
      BY <2>1, <2>3, <2>4 DEF AccessInv, Executed
  <1> QED
    BY <1>6, <1>7, <1>8

\* The rising edge.
LEMMA PosEdgeKeeps ==
    ASSUME PipeInv, PosEdge
    PROVE  PipeInv'
  <1> USE DEF PipeInv
  <1>1. /\ phase = "pos" /\ phase' = "rsp"
        /\ UNCHANGED <<rsp, immu_ready, dmmu_to_ex, if_id_accept>>
        /\ UNCHANGED <<npc, branch_taken, ex, act, trap_epc, stall, flush, mext_req,
                       ex_to_dmmu>>
        /\ irq' \in BOOLEAN
        /\ NextPcSeq /\ ImemReqSeq /\ GetInstSeq /\ InstDecodeSeq
        /\ ExecSeq /\ WritebackSeq /\ WriteSeq /\ MextSeq
        /\ DmemReqSeq /\ UpdateMemory
    BY DEF PosEdge, execOut
  <1>2. /\ image' \in Images /\ eimage' \in Images /\ epc' \in Addr /\ ie' \in BOOLEAN
        /\ ~flush => image' = image
    BY <1>1, ExecSeqContext
  <1>3. /\ immu_pc' \in Addr /\ immu_flush' \in BOOLEAN
        /\ i_state' \in 0 .. 3 /\ i_req' \in BOOLEAN
        /\ i_fault' \in {"none", "access", "page"} /\ i_image' \in Images
        /\ ImmuInv' /\ FetchSeesContext'
    BY <1>1, <1>2, ImemReqKeeps
  <1>4. BufferInv'
    <2>1. Receives => rsp.word = WordAt(image, immu_pc)
      BY <1>1 DEF Receives, FetchSeesContext
    <2> QED
      BY <1>1, <1>2, <1>3, <2>1, Types, GetInstKeepsInv
  <1>5. /\ d_state' \in 0 .. 3 /\ d_fault' \in BOOLEAN
        /\ dmmu_to_mem' \in [req : BOOLEAN, wdata : Value]
        /\ AccessInv'
    BY <1>1, DmemReqKeeps
  <1>6. fetch_pc' \in Addr /\ ex_pc' \in Addr
    <2>1. fetch_pc \in Addr /\ npc \in Addr
      BY Types
    <2>2. Plus(WordBase(fetch_pc), 2) \in Addr
      BY <2>1, WordBaseAddr, SmallAddr, PlusAddr
    <2> QED
      BY <1>1, <2>1, <2>2 DEF NextPcSeq, WritebackSeq
  <1>7. wb' \in [write : BOOLEAN, rd : Regs, val : Value, stall : BOOLEAN]
    <2>1. ex.write \in BOOLEAN /\ ex.rd \in Regs /\ ex.val \in Value /\ stall \in BOOLEAN
      BY Types DEF TypeOK
    <2> QED
      BY <1>1, <2>1 DEF WritebackSeq
  <1>8. regs' \in [Regs -> Value]
    BY <1>1 DEF WriteSeq, TypeOK
  <1>9. mext_rsp' \in [ack : BOOLEAN, result : Value]
    <2>1. Plus(id_ex.rs_val, id_ex.rs_val) \in Value /\ 0 \in Value
      BY PlusAddr, SmallAddr DEF TypeOK, Value
    <2> QED
      BY <1>1, <2>1 DEF MextSeq
  <1>10. dmem' \in Value
    BY <1>1, PlusAddr DEF UpdateMemory, TypeOK, Value
  <1>11. TypeOK'
    BY <1>1, <1>2, <1>3, <1>4, <1>5, <1>6, <1>7, <1>8, <1>9, <1>10, DecodeType
    DEF TypeOK, BufferInv
  <1>12. PrecisePc'
    <2>1. ex_pc' = npc
      BY <1>1 DEF WritebackSeq
    <2>2. CASE stall
      BY <1>1, <2>1, <2>2 DEF InstDecodeSeq, PrecisePc, FlowInv, Executed
    <2>3. CASE ~stall /\ (flush \/ npc # if_id.pc \/ if_id.flush)
      BY <1>1, <2>3 DEF InstDecodeSeq, PrecisePc, Bubble
    <2>4. CASE ~stall /\ ~(flush \/ npc # if_id.pc \/ if_id.flush)
      BY <1>1, <2>1, <2>4 DEF InstDecodeSeq, PrecisePc, Decoded
    <2> QED
      BY <2>2, <2>3, <2>4
  <1>13. StallExcludesFlush' /\ FlowInv' /\ NoAnswerWhileDraining'
    BY <1>1 DEF StallExcludesFlush, FlowInv, Executed, NoAnswerWhileDraining
  <1> QED
    BY <1>3, <1>4, <1>5, <1>11, <1>12, <1>13

(***************************************************************************)
(* The theorems.                                                           *)
(***************************************************************************)

\* PipeInv holds in every state of every execution.
THEOREM PipeInvariant == Spec => []PipeInv
  <1>1. Init => PipeInv
    <2> SUFFICES ASSUME Init PROVE PipeInv
      OBVIOUS
    <2>1. PICK c \in Boot : image = CodeOf[c]
      BY DEF Init
    <2>2. image \in Images /\ 0 \in Addr /\ Entry \in Addr /\ 0 \in Regs
      BY <2>1, IsaAssumption, SmallAddr
    <2>3. rsp \in Response
      BY NoResponse DEF Init, NoWord
    <2>4. BufferInv
      BY <2>2, <2>3, InitInv DEF Init
    <2>5. id_ex \in [flush : BOOLEAN, op : Ops, rd : Regs, rs_val : Value, imm : Addr,
                     pc : Addr, len : 1 .. 2, trap : BOOLEAN]
      BY <2>2 DEF Init, Bubble, Ops, Value
    <2>6. TypeOK
      <3>1. /\ ex \in [write : BOOLEAN, rd : Regs, val : Value]
            /\ wb \in [write : BOOLEAN, rd : Regs, val : Value, stall : BOOLEAN]
            /\ mext_rsp \in [ack : BOOLEAN, result : Value]
            /\ ex_to_dmmu \in [req : BOOLEAN, wdata : Value]
            /\ dmmu_to_mem \in [req : BOOLEAN, wdata : Value]
            /\ dmmu_to_ex \in [ack : BOOLEAN, fault : BOOLEAN, rdata : Value]
            /\ regs \in [Regs -> Value] /\ dmem \in Value
        BY <2>2 DEF Init, Value, NoAccess
      <3>2. {branch_taken, i_req, immu_ready, mext_req, d_fault, ie, irq} \subseteq BOOLEAN
        BY DEF Init
      <3>3. {fetch_pc, npc, ex_pc, epc, trap_epc} \subseteq Addr
            /\ i_state \in 0 .. 3 /\ d_state \in 0 .. 3
        BY <2>2 DEF Init
      <3> QED
        BY <2>2, <2>4, <2>5, <3>1, <3>2, <3>3 DEF Init, TypeOK, BufferInv
    <2>7. PrecisePc /\ StallExcludesFlush /\ FlowInv /\ AccessInv
      BY DEF Init, PrecisePc, StallExcludesFlush, FlowInv, AccessInv, Executed, Bubble
    <2>8. ImmuInv /\ FetchSeesContext /\ NoAnswerWhileDraining
      BY DEF Init, ImmuInv, FetchSeesContext, NoAnswerWhileDraining
    <2> QED
      BY <2>4, <2>6, <2>7, <2>8 DEF PipeInv
  <1>2. PipeInv /\ [Next]_vars => PipeInv'
    <2> SUFFICES ASSUME PipeInv, [Next]_vars PROVE PipeInv'
      OBVIOUS
    <2>1. CASE Next
      BY <2>1, PosEdgeKeeps, RspCombKeeps, ExecCombKeeps, FifoCombKeeps DEF Next
    <2>2. CASE UNCHANGED vars
      <3>1. /\ UNCHANGED <<image, stall, flush, immu_flush, rsp, immu_pc, bufVars>>
            /\ UNCHANGED <<if_id_accept, phase, fetch_pc, i_state, i_req, i_fault, i_image>>
            /\ UNCHANGED <<immu_ready, id_ex, ex_pc, npc, branch_taken, ex, act, trap_epc>>
            /\ UNCHANGED <<mext_req, ex_to_dmmu, wb, regs, mext_rsp, d_state, d_fault>>
            /\ UNCHANGED <<dmmu_to_mem, dmmu_to_ex, dmem, epc, eimage, ie, irq>>
        BY <2>2 DEF vars, fetchVars, inVars, preVars, immuVars, execOut, dmmuVars
      <3>2. BufferInv'
        BY <3>1, Types, SignalsKeepInv DEF PipeInv
      <3>3. TypeOK'
        BY <3>1, <3>2 DEF PipeInv, TypeOK, BufferInv
      <3>4. PrecisePc' /\ StallExcludesFlush' /\ FlowInv' /\ AccessInv'
        BY <3>1 DEF PipeInv, PrecisePc, StallExcludesFlush, FlowInv, AccessInv, Executed
      <3>5. ImmuInv' /\ FetchSeesContext' /\ NoAnswerWhileDraining'
        BY <3>1 DEF PipeInv, ImmuInv, FetchSeesContext, NoAnswerWhileDraining, FetchFault
      <3> QED
        BY <3>2, <3>3, <3>4, <3>5 DEF PipeInv
    <2> QED
      BY <2>1, <2>2
  <1> QED
    BY <1>1, <1>2, PTL DEF Spec

\* Types, and the instruction in EXEC is at the pc EXEC is about to execute:
\* neither the wrong path of a branch nor anything fetched before a flush
\* is ever executed.
THEOREM PreciseAlways == Spec => [](TypeOK /\ PrecisePc)
  <1>1. PipeInv => TypeOK /\ PrecisePc
    BY DEF PipeInv
  <1> QED
    BY <1>1, PipeInvariant, PTL

\* EXEC never stalls the decoder in a cycle in which it flushes it.
THEOREM StallExcludesFlushAlways == Spec => []StallExcludesFlush
  <1>1. PipeInv => StallExcludesFlush
    BY DEF PipeInv
  <1> QED
    BY <1>1, PipeInvariant, PTL

\* The answer of the data port belongs to the instruction in EXEC.
THEOREM AnswerMatchesRequestAlways == Spec => []AnswerMatchesRequest
  <1>1. PipeInv => AnswerMatchesRequest
    <2> SUFFICES ASSUME PipeInv, phase # "rsp", dmmu_to_ex.ack
                 PROVE  ~id_ex.flush /\ id_ex.op = "amo" /\ wb.stall
      BY DEF AnswerMatchesRequest
    <2>1. (d_state = 3 /\ dmmu_to_mem.req) \/ d_fault
      BY DEF PipeInv, AccessInv
    <2>2. d_state # 0 \/ d_fault
      BY <2>1
    <2> QED
      BY <2>2 DEF PipeInv, AccessInv
  <1> QED
    BY <1>1, PipeInvariant, PTL

\* No page walk, and no answer of the instruction port, crosses a change of
\* the fetch context; no answer arrives while one is being dropped.
THEOREM FetchSeesContextAlways == Spec => [](FetchSeesContext /\ NoAnswerWhileDraining)
  <1>1. PipeInv => FetchSeesContext /\ NoAnswerWhileDraining
    BY DEF PipeInv
  <1> QED
    BY <1>1, PipeInvariant, PTL

\* While the IMMU waits for the answer to a request that a flush abandoned,
\* nothing is handed to the fetch buffer as an answer.
THEOREM NoAnswerWhileDrainingAlways == Spec => []NoAnswerWhileDraining
  <1>1. PipeInv => NoAnswerWhileDraining
    BY DEF PipeInv
  <1> QED
    BY <1>1, PipeInvariant, PTL

\* The registers between the stages keep their types.
THEOREM TypeAlways == Spec => []TypeOK
  <1>1. PipeInv => TypeOK
    BY DEF PipeInv
  <1> QED
    BY <1>1, PipeInvariant, PTL

\* In the pipeline too, the decoder is only ever offered the program.
THEOREM PipelineOffersProgram == Spec => []OfferIsProgram
  <1>1. PipeInv => OfferIsProgram
    BY BufferOffersProgram DEF PipeInv
  <1> QED
    BY <1>1, PipeInvariant, PTL

(***************************************************************************)
(* The pipeline implements Isa.  ArchInv first: it is inductive together   *)
(* with PipeInv.                                                           *)
(***************************************************************************)

\* The registers after a rising edge: what the instruction in EXEC wrote,
\* and what the decoder's forwarding finds.
LEMMA ArchRegsStep ==
    ASSUME TypeOK, WritebackSeq, WriteSeq
    PROVE  /\ ArchRegs \in [Regs -> Value]
           /\ ArchRegs' = IF ex.write
                          THEN [ArchRegs EXCEPT ![ex.rd] = IF ex.rd = 0 THEN @ ELSE ex.val]
                          ELSE ArchRegs
           /\ \A r \in Regs : ArchRegs'[r] = Operand(r)
  <1>1. /\ wb \in [write : BOOLEAN, rd : Regs, val : Value, stall : BOOLEAN]
        /\ ex \in [write : BOOLEAN, rd : Regs, val : Value]
        /\ regs \in [Regs -> Value]
    BY DEF TypeOK
  <1>2. wb'.write = ex.write /\ wb'.rd = ex.rd /\ wb'.val = ex.val
    BY DEF WritebackSeq
  <1>3. ArchRegs' = [r \in Regs |-> IF ex.write /\ ex.rd = r /\ r # 0 THEN ex.val ELSE regs'[r]]
    BY <1>2 DEF ArchRegs
  <1>4. \A r \in Regs : regs'[r] = ArchRegs[r]
    BY <1>1 DEF WriteSeq, ArchRegs
  <1>5. ArchRegs \in [Regs -> Value]
    BY <1>1 DEF ArchRegs
  <1>6. \A r \in Regs : ArchRegs'[r] = Operand(r)
    BY <1>1, <1>3, <1>4 DEF Operand, ArchRegs
  <1>7. CASE ex.write
    <2> DEFINE after == [ArchRegs EXCEPT ![ex.rd] = IF ex.rd = 0 THEN @ ELSE ex.val]
    <2>1. ArchRegs' = [r \in Regs |-> after[r]]
      BY <1>1, <1>3, <1>4, <1>5, <1>7
    <2>2. after = [r \in Regs |-> after[r]]
      BY <1>5
    <2> QED
      BY <1>5, <1>6, <1>7, <2>1, <2>2
  <1>8. CASE ~ex.write
    <2>1. ArchRegs' = [r \in Regs |-> ArchRegs[r]]
      BY <1>3, <1>4, <1>8
    <2> QED
      BY <1>5, <1>6, <1>8, <2>1
  <1> QED
    BY <1>1, <1>7, <1>8

\* What EXEC decides depends on signals that only a rising edge changes.
LEMMA SameInputs ==
    ASSUME UNCHANGED <<id_ex, ex_pc, wb, mext_rsp, dmmu_to_ex, epc, ie, irq>>
    PROVE  /\ \A op : Runs(op)' = Runs(op)
           /\ OnTrap' = OnTrap /\ Stalls' = Stalls /\ Flushes' = Flushes
           /\ NextFetch' = NextFetch /\ RdWrite' = RdWrite
           /\ Effect' = Effect /\ SavedPc' = SavedPc
  <1>1. TakesInterrupt' = TakesInterrupt
    BY DEF TakesInterrupt
  <1>2. \A op : Runs(op)' = Runs(op)
    BY <1>1 DEF Runs
  <1>3. OnTrap' = OnTrap /\ Stalls' = Stalls /\ Flushes' = Flushes
        /\ BranchTaken' = BranchTaken
    BY <1>1, <1>2 DEF OnTrap, Stalls, Flushes, BranchTaken
  <1>4. TargetPc' = TargetPc /\ Result' = Result /\ Retires' = Retires
    BY <1>2, <1>3 DEF TargetPc, Result, Retires
  <1>5. NextFetch' = NextFetch /\ RdWrite' = RdWrite
        /\ Effect' = Effect /\ SavedPc' = SavedPc
    BY <1>2, <1>3, <1>4 DEF NextFetch, RdWrite, Effect, SavedPc
  <1> QED
    BY <1>2, <1>3, <1>5

LEMMA InitArch == Init => ArchInv
  BY DEF Init, ArchInv, InstructionInv, OutputsInv, WordInv, ProductInv, Executed, Bubble,
         NoAccess

LEMMA RspCombArch ==
    ASSUME PipeInv, ArchInv, RspComb
    PROVE  ArchInv'
  <1>1. /\ phase = "rsp" /\ phase' = "neg"
        /\ UNCHANGED <<image, id_ex, ex_pc, wb, regs, mext_rsp, d_state, d_fault,
                       dmmu_to_mem, dmem>>
        /\ DmemRspComb
    BY DEF RspComb, dmmuVars
  <1>2. InstructionInv'
    BY <1>1 DEF ArchInv, InstructionInv, ArchRegs
  <1>3. OutputsInv' /\ ProductInv'
    BY <1>1 DEF ArchInv, OutputsInv, ProductInv, Executed
  <1>4. WordInv'
    BY <1>1 DEF ArchInv, WordInv, DmemRspComb
  <1> QED
    BY <1>2, <1>3, <1>4 DEF ArchInv

LEMMA ExecCombArch ==
    ASSUME PipeInv, ArchInv, ExecComb
    PROVE  ArchInv'
  <1>1. /\ phase = "neg" /\ phase' = "fifo"
        /\ UNCHANGED <<image, regs, d_state, d_fault, dmmu_to_mem, dmem>>
        /\ UNCHANGED <<id_ex, ex_pc, wb, mext_rsp, dmmu_to_ex, epc, ie, irq>>
        /\ ExecOutputs
    BY DEF ExecComb, dmmuVars
  <1>2. InstructionInv' /\ WordInv' /\ ProductInv'
    BY <1>1 DEF ArchInv, InstructionInv, WordInv, ProductInv, ArchRegs
  <1>3. OutputsInv'
    BY <1>1, SameInputs DEF OutputsInv, ExecOutputs
  <1> QED
    BY <1>2, <1>3 DEF ArchInv

LEMMA FifoCombArch ==
    ASSUME PipeInv, ArchInv, FifoComb
    PROVE  ArchInv'
  <1>1. /\ phase = "fifo" /\ phase' = "pos"
        /\ UNCHANGED <<image, regs, d_state, d_fault, dmmu_to_mem, dmem>>
        /\ UNCHANGED <<id_ex, ex_pc, wb, mext_rsp, dmmu_to_ex, epc, ie, irq>>
        /\ UNCHANGED <<npc, ex, act, trap_epc, stall, flush, ex_to_dmmu, mext_req>>
    BY DEF FifoComb, inVars, dmmuVars
  <1>2. InstructionInv' /\ WordInv' /\ ProductInv'
    BY <1>1 DEF ArchInv, InstructionInv, WordInv, ProductInv, ArchRegs
  <1>3. OutputsInv'
    BY <1>1, SameInputs DEF ArchInv, OutputsInv, Executed
  <1> QED
    BY <1>2, <1>3 DEF ArchInv

\* The fields of what EXEC writes.
LEMMA RdWriteIs ==
    /\ RdWrite.write <=> Retires /\ WritesRd(id_ex.op)
    /\ RdWrite.rd = id_ex.rd
    /\ Retires => RdWrite.val = IF dmmu_to_ex.ack THEN dmmu_to_ex.rdata ELSE Result
  <1> DEFINE w == Retires /\ WritesRd(id_ex.op)
             v == IF ~Retires THEN 0
                  ELSE IF dmmu_to_ex.ack THEN dmmu_to_ex.rdata ELSE Result
  <1>1. RdWrite = [write |-> w, rd |-> id_ex.rd, val |-> v]
    BY DEF RdWrite
  <1>2. w \in BOOLEAN
    OBVIOUS
  <1> HIDE DEF w, v
  <1>3. RdWrite.write = w /\ RdWrite.rd = id_ex.rd /\ RdWrite.val = v
    BY <1>1
  <1> QED
    BY <1>2, <1>3 DEF w, v

\* When memory is about to apply an access, its "amo" completes.
LEMMA AccessAtEdge ==
    ASSUME PipeInv, ArchInv, phase = "pos", dmmu_to_mem.req
    PROVE  /\ id_ex.op = "amo" /\ Runs("amo")
           /\ dmmu_to_ex.ack /\ ~dmmu_to_ex.fault
           /\ dmmu_to_ex.rdata = dmem /\ dmmu_to_mem.wdata = id_ex.rs_val
  <1>1. d_state = 3 /\ ~d_fault /\ dmmu_to_mem.wdata = id_ex.rs_val
        /\ dmmu_to_ex.rdata = dmem
    BY DEF ArchInv, WordInv
  <1>2. ~id_ex.flush /\ ~id_ex.trap /\ id_ex.op = "amo" /\ wb.stall
    BY <1>1 DEF PipeInv, AccessInv
  <1>3. /\ dmmu_to_ex.ack = ((d_state = 3 /\ dmmu_to_mem.req) \/ d_fault)
        /\ dmmu_to_ex.fault = d_fault
    BY DEF PipeInv, AccessInv
  <1>4. dmmu_to_ex.ack /\ ~dmmu_to_ex.fault
    BY <1>1, <1>3
  <1> QED
    BY <1>1, <1>2, <1>4 DEF Runs, TakesInterrupt

\* A stalled instruction changes nothing.
LEMMA StalledEdge ==
    ASSUME PipeInv, ArchInv, phase = "pos", stall
    PROVE  /\ Stalls /\ ~OnTrap /\ ~flush /\ ~ex.write /\ npc = ex_pc /\ act = "none"
           /\ ~dmmu_to_mem.req
  <1>1. Stalls /\ npc = ex_pc /\ ~flush /\ act = "none"
    BY DEF PipeInv, ArchInv, OutputsInv, FlowInv, StallExcludesFlush, Executed, TypeOK
  <1>2. ~OnTrap
    BY <1>1, StallsAlone
  <1>3. ~ex.write
    BY <1>1, RdWriteIs DEF ArchInv, OutputsInv, Executed, Retires
  <1>4. ~dmmu_to_mem.req
    <2> SUFFICES ASSUME dmmu_to_mem.req PROVE FALSE
      OBVIOUS
    <2>1. dmmu_to_ex.ack /\ id_ex.op = "amo"
      BY AccessAtEdge
    <2> QED
      BY <1>1, <2>1 DEF Stalls, Runs
  <1> QED
    BY <1>1, <1>2, <1>3, <1>4

\* The decoder takes the next instruction: it is the one of the program, and
\* forwarding gives it the registers as its predecessors leave them.
LEMMA DecodedArch ==
    ASSUME PipeInv, ArchInv, PosEdge, id_ex' = Decoded,
           ~stall, ~flush, npc = if_id.pc, ~if_id.flush
    PROVE  InstructionInv'
  <1> DEFINE i == Instr(if_id.inst[0], if_id.inst[1])
             a == if_id.pc
  <1>1. /\ WritebackSeq /\ WriteSeq /\ ExecSeq /\ phase = "pos"
    BY DEF PosEdge
  <1>2. ex_pc' = a /\ image' = image
    BY <1>1, ExecSeqContext DEF WritebackSeq
  <1>3. /\ if_id.inst[0] = image[a].bits
        /\ LongAt(image, a) => if_id.inst[1] = image[Plus(a, 1)].bits
        /\ if_id.fault = FaultAt(image, a)
    BY BufferOffersProgram DEF PipeInv, OfferIsProgram
  <1>4. i = InstrAt(image, a)
    BY <1>3 DEF InstrAt, Instr, LongAt, Decompress
  <1>5. i.rs \in Regs
    <2>1. if_id.inst[0] \in Parcel /\ if_id.inst[1] \in Parcel
      BY DEF PipeInv, TypeOK, FetchTypeOK, IfId
    <2> QED
      BY <2>1, IsaAssumption DEF Instr, Decode, Decompress
  <1>6. Operand(i.rs) = ArchRegs'[i.rs]
    BY <1>1, <1>5, ArchRegsStep DEF PipeInv
  <1> HIDE DEF i, a
  <1>7. /\ id_ex'.flush = FALSE /\ id_ex'.op = i.op /\ id_ex'.rd = i.rd /\ id_ex'.imm = i.imm
        /\ id_ex'.rs_val = Operand(i.rs)
        /\ id_ex'.len = LenAt(image, a)
        /\ id_ex'.trap = (if_id.fault # "none" \/ i.op = "ill")
    BY <1>3 DEF Decoded, i, LenAt, LongAt
  <1> QED
    BY <1>2, <1>3, <1>4, <1>6, <1>7 DEF InstructionInv

LEMMA PosEdgeArch ==
    ASSUME PipeInv, ArchInv, PosEdge
    PROVE  ArchInv'
  <1>1. /\ phase = "pos" /\ phase' = "rsp"
        /\ InstDecodeSeq /\ ExecSeq /\ WritebackSeq /\ WriteSeq /\ MextSeq
        /\ DmemReqSeq /\ UpdateMemory
    BY DEF PosEdge
  <1>2. InstructionInv'
    <2>1. CASE stall
      <3>1. /\ ~flush /\ ~ex.write /\ npc = ex_pc
        BY <1>1, <2>1, StalledEdge
      <3>2. id_ex' = id_ex /\ ex_pc' = ex_pc /\ image' = image
        BY <1>1, <2>1, <3>1, ExecSeqContext DEF InstDecodeSeq, WritebackSeq
      <3>3. ArchRegs' = ArchRegs
        BY <1>1, <3>1, ArchRegsStep DEF PipeInv
      <3> QED
        BY <3>2, <3>3 DEF ArchInv, InstructionInv
    <2>2. CASE id_ex' = Bubble
      BY <2>2 DEF InstructionInv, Bubble
    <2> QED
      BY <1>1, <2>1, <2>2, DecodedArch DEF InstDecodeSeq
  <1>3. OutputsInv'
    BY <1>1 DEF OutputsInv, Executed
  <1>4. WordInv'
    <2> SUFFICES ASSUME dmmu_to_mem'.req
                 PROVE  d_state' = 3 /\ ~d_fault' /\ dmmu_to_mem'.wdata = id_ex'.rs_val
      BY <1>1 DEF WordInv
    <2>1. DAccess /\ ~flush /\ ((d_state = 0 /\ ex_to_dmmu.req) \/ d_state \in {1, 2})
      BY <1>1 DEF DmemReqSeq, DIdle, DFaults, DWalkDown, NoAccess
    <2>2. d_state' = 3 /\ ~d_fault' /\ dmmu_to_mem'.wdata = ex_to_dmmu.wdata
      BY <2>1 DEF DAccess
    <2>3. ex_to_dmmu.wdata = id_ex.rs_val
      BY <1>1 DEF ArchInv, OutputsInv, Executed
    <2>4. stall
      BY <1>1, <2>1 DEF PipeInv, AccessInv, Executed
    <2>5. id_ex' = id_ex
      BY <1>1, <2>4 DEF InstDecodeSeq
    <2> QED
      BY <2>2, <2>3, <2>5
  <1>5. ProductInv'
    <2> SUFFICES ASSUME mext_rsp'.ack, id_ex'.op = "mul"
                 PROVE  wb'.stall /\ mext_rsp'.result = Plus(id_ex'.rs_val, id_ex'.rs_val)
      BY DEF ProductInv
    <2>1. mext_req /\ id_ex.op = "mul" /\ mext_rsp'.result = Plus(id_ex.rs_val, id_ex.rs_val)
      BY <1>1 DEF MextSeq
    <2>2. CASE stall
      BY <1>1, <2>1, <2>2 DEF InstDecodeSeq, WritebackSeq
    <2>3. CASE ~stall
      <3>1. ~flush
        BY <1>1, <2>3 DEF InstDecodeSeq, Bubble
      <3>2. ~OnTrap /\ ~Stalls
        BY <1>1, <2>3, <3>1 DEF ArchInv, OutputsInv, Executed
      <3>3. ~id_ex.flush
        BY <2>1 DEF ArchInv, InstructionInv
      <3>4. Runs("mul")
        BY <2>1, <3>2, <3>3 DEF Runs, OnTrap
      <3>5. mext_rsp.ack /\ ~wb.stall
        BY <1>1, <2>1, <3>2, <3>4 DEF Stalls, ArchInv, OutputsInv, Executed
      <3> QED
        BY <2>1, <3>5 DEF ArchInv, ProductInv
    <2> QED
      BY <2>2, <2>3
  <1> QED
    BY <1>2, <1>3, <1>4, <1>5 DEF ArchInv

\* ArchInv holds in every state: EXEC works on the program's instruction
\* with the program's operand, and answers from memory and from the
\* multiplier belong to it.
THEOREM ArchInvariant == Spec => []ArchInv
  <1>1. ArchInv /\ UNCHANGED vars => ArchInv'
    <2> SUFFICES ASSUME ArchInv, UNCHANGED vars PROVE ArchInv'
      OBVIOUS
    <2>1. /\ UNCHANGED <<phase, image, regs, d_state, d_fault, dmmu_to_mem, dmem>>
          /\ UNCHANGED <<id_ex, ex_pc, wb, mext_rsp, dmmu_to_ex, epc, ie, irq>>
          /\ UNCHANGED <<npc, ex, act, trap_epc, stall, flush, ex_to_dmmu, mext_req>>
      BY DEF vars, fetchVars, inVars, dmmuVars, execOut
    <2>2. InstructionInv' /\ WordInv' /\ ProductInv'
      BY <2>1 DEF ArchInv, InstructionInv, WordInv, ProductInv, ArchRegs
    <2>3. OutputsInv'
      BY <2>1, SameInputs DEF ArchInv, OutputsInv, Executed
    <2> QED
      BY <2>2, <2>3 DEF ArchInv
  <1>2. PipeInv /\ ArchInv /\ [Next]_vars => ArchInv'
    BY <1>1, PosEdgeArch, RspCombArch, ExecCombArch, FifoCombArch DEF Next
  <1> QED
    BY <1>2, InitArch, PipeInvariant, PTL DEF Spec

\* IsaInv, the inductive invariant of the refinement, holds in every state.
THEOREM IsaInvariant == Spec => []IsaInv
  <1>1. PipeInv /\ ArchInv => IsaInv
    BY DEF IsaInv
  <1> QED
    BY <1>1, PipeInvariant, ArchInvariant, PTL

(***************************************************************************)
(* No wait is forgotten.                                                   *)
(***************************************************************************)

\* The edge at which EXEC begins to wait carries its request to the
\* multiplier or to the DMMU; at a later one the DMMU is in the midst of a
\* walk, which ends in an access or a fault.
LEMMA PosEdgeWait ==
    ASSUME IsaInv, WaitIsServed, PosEdge
    PROVE  WaitIsServed'
  <1>1. /\ phase = "pos"
        /\ InstDecodeSeq /\ WritebackSeq /\ MextSeq /\ DmemReqSeq
    BY DEF PosEdge
  <1>2. wb'.stall = stall
    BY <1>1 DEF WritebackSeq
  <1> SUFFICES ASSUME stall PROVE WaitIsServed'
    BY <1>2 DEF WaitIsServed
  <1>3. Stalls /\ ~flush
    BY <1>1, StalledEdge DEF IsaInv
  <1>4. id_ex' = id_ex
    BY <1>1 DEF InstDecodeSeq
  <1>5. ~id_ex.flush /\ ~id_ex.trap
    BY <1>3 DEF Stalls, Runs
  <1>6. CASE Runs("mul") /\ ~mext_rsp.ack
    <2>1. id_ex.op = "mul"
      BY <1>6 DEF Runs
    <2>2. ~wb.stall
      BY <1>6, <2>1 DEF WaitIsServed
    <2>3. mext_req
      BY <1>1, <1>6, <2>2 DEF IsaInv, ArchInv, OutputsInv, Executed
    <2>4. mext_rsp'.ack
      BY <1>1, <2>1, <2>3 DEF MextSeq
    <2> QED
      BY <1>4, <1>5, <2>1, <2>4 DEF WaitIsServed
  <1>7. CASE Runs("amo") /\ ~dmmu_to_ex.ack
    <2>1. id_ex.op = "amo"
      BY <1>7 DEF Runs
    <2>2. ~d_fault /\ d_state \in 0 .. 2
      BY <1>1, <1>7 DEF IsaInv, PipeInv, AccessInv, TypeOK
    <2>3. d_state = 0 => ex_to_dmmu.req
      <3> SUFFICES ASSUME d_state = 0 PROVE ex_to_dmmu.req
        OBVIOUS
      <3>1. ~wb.stall
        BY <2>1, <2>2 DEF WaitIsServed
      <3> QED
        BY <1>1, <1>7, <3>1 DEF IsaInv, ArchInv, OutputsInv, Executed
    <2>4. d_state' # 0 \/ d_fault'
      BY <1>1, <1>3, <2>2, <2>3 DEF DmemReqSeq, DAccess, DFaults, DWalkDown
    <2> QED
      BY <1>4, <1>5, <2>1, <2>4 DEF WaitIsServed
  <1>8. CASE Runs("wfi")
    BY <1>4, <1>5, <1>8 DEF WaitIsServed, Runs
  <1> QED
    BY <1>3, <1>6, <1>7, <1>8 DEF Stalls

\* What EXEC waits for is on its way whenever it waits: a multiplication or a
\* data access whose request was lost would hang the processor, as EXEC
\* takes no interrupt while it waits for either.
THEOREM WaitIsServedAlways == Spec => []WaitIsServed
  <1>1. Init => WaitIsServed
    BY DEF Init, WaitIsServed
  <1>2. ASSUME WaitIsServed, UNCHANGED <<id_ex, wb, mext_rsp, d_state, d_fault>>
        PROVE  WaitIsServed'
    BY <1>2 DEF WaitIsServed
  <1>3. IsaInv /\ WaitIsServed /\ [Next]_vars => WaitIsServed'
    <2> SUFFICES ASSUME IsaInv, WaitIsServed, [Next]_vars PROVE WaitIsServed'
      OBVIOUS
    <2>1. CASE RspComb
      BY <1>2, <2>1 DEF RspComb, dmmuVars
    <2>2. CASE ExecComb
      BY <1>2, <2>2 DEF ExecComb, dmmuVars
    <2>3. CASE FifoComb
      BY <1>2, <2>3 DEF FifoComb, dmmuVars
    <2>4. CASE UNCHANGED vars
      BY <1>2, <2>4 DEF vars, dmmuVars
    <2> QED
      BY <2>1, <2>2, <2>3, <2>4, PosEdgeWait DEF Next
  <1> QED
    BY <1>1, <1>3, IsaInvariant, PTL DEF Spec

(***************************************************************************)
(* Every rising edge is a step of Isa or none.                             *)
(***************************************************************************)

\* The instance Arch reads the program as the pipeline does.
LEMMA SameProgram ==
    /\ \A a, b : Arch!Plus(a, b) = Plus(a, b)
    /\ Arch!Instruction = InstrAt(image, ex_pc)
    /\ Arch!NextPc = Plus(ex_pc, LenAt(image, ex_pc))
    /\ \A op : Arch!Executes(op) <=>
                  FaultAt(image, ex_pc) = "none" /\ InstrAt(image, ex_pc).op = op
    /\ Arch!FaultAt(image, ex_pc) = FaultAt(image, ex_pc)
  <1>1. \A a, b : Arch!Plus(a, b) = Plus(a, b)
    BY DEF Arch!Plus, Plus
  <1>2. Arch!Instruction = InstrAt(image, ex_pc)
    BY <1>1 DEF Arch!Instruction, Arch!InstrAt, Arch!Instr, Arch!Decode, Arch!Decompress,
                InstrAt, Instr, Decode, Decompress
  <1>3. Arch!LenAt(image, ex_pc) = LenAt(image, ex_pc)
    BY DEF Arch!LenAt, Arch!LongAt, LenAt, LongAt
  <1>4. Arch!FaultAt(image, ex_pc) = FaultAt(image, ex_pc)
    BY <1>1 DEF Arch!FaultAt, Arch!FirstFault, Arch!LongAt, FaultAt, FirstFault, LongAt
  <1> QED
    BY <1>1, <1>2, <1>3, <1>4 DEF Arch!NextPc, Arch!Executes

\* What EXEC runs, Isa executes.
LEMMA RunsExecutes ==
    ASSUME PipeInv, ArchInv, NEW op, Runs(op)
    PROVE  /\ Arch!Executes(op)
           /\ id_ex.rd = Arch!Instruction.rd /\ id_ex.imm = Arch!Instruction.imm
           /\ id_ex.rs_val = ArchRegs[Arch!Instruction.rs]
           /\ Plus(ex_pc, id_ex.len) = Arch!NextPc
           /\ Plus(id_ex.pc, id_ex.len) = Arch!NextPc
  <1>1. ~id_ex.flush /\ ~id_ex.trap /\ id_ex.op = op
    BY DEF Runs
  <1>2. id_ex.pc = ex_pc
    BY <1>1 DEF PipeInv, PrecisePc
  <1> QED
    BY <1>1, <1>2, SameProgram DEF ArchInv, InstructionInv

\* A trap: nothing of the instruction happens, and its address is saved.
LEMMA TrapEdge ==
    ASSUME PipeInv, ArchInv, PosEdge, OnTrap
    PROVE  Arch!Interrupt \/ Arch!Exception
  <1>1. /\ phase = "pos" /\ ExecSeq /\ WritebackSeq /\ WriteSeq /\ UpdateMemory
    BY DEF PosEdge
  <1>2. npc = TrapPc /\ act = "trap" /\ ~ex.write
    BY <1>1, RdWriteIs DEF ArchInv, OutputsInv, Executed, NextFetch, Effect, Retires
  <1>3. trap_epc = ex_pc
    BY <1>1 DEF ArchInv, OutputsInv, Executed, SavedPc, PipeInv, PrecisePc, Runs
  <1>4. ~dmmu_to_mem.req
    BY <1>1, AccessAtEdge DEF OnTrap, Runs
  <1>5. /\ ex_pc' = TrapPc /\ dmem' = dmem /\ ArchRegs' = ArchRegs
        /\ epc' = ex_pc /\ eimage' = image /\ image' = CodeOf[TrapContext] /\ ie' = FALSE
    <2>1. ex_pc' = TrapPc /\ dmem' = dmem
      BY <1>1, <1>2, <1>4 DEF WritebackSeq, UpdateMemory
    <2>2. ArchRegs' = ArchRegs
      BY <1>1, <1>2, ArchRegsStep DEF PipeInv
    <2>3. epc' = ex_pc /\ eimage' = image /\ image' = CodeOf[TrapContext] /\ ie' = FALSE
      BY <1>1, <1>2, <1>3 DEF ExecSeq
    <2> QED
      BY <2>1, <2>2, <2>3
  <1>6. Arch!Trap
    BY <1>5 DEF Arch!Trap
  <1>7. CASE TakesInterrupt
    BY <1>6, <1>7 DEF TakesInterrupt, Arch!Interrupt
  <1>8. CASE ~id_ex.flush /\ id_ex.trap
    <2>1. Arch!FaultAt(image, ex_pc) # "none" \/ Arch!Executes("ill")
      BY <1>8, SameProgram DEF ArchInv, InstructionInv
    <2> QED
      BY <1>6, <2>1 DEF Arch!Exception
  <1>9. CASE Runs("ecall") \/ Runs("amo")
    BY <1>6, <1>9, RunsExecutes DEF Arch!Exception
  <1> QED
    BY <1>7, <1>8, <1>9 DEF OnTrap

\* A return.
LEMMA ReturnEdge ==
    ASSUME PipeInv, ArchInv, PosEdge, ~OnTrap, Runs("eret")
    PROVE  Arch!Return
  <1>1. /\ phase = "pos" /\ ExecSeq /\ WritebackSeq /\ WriteSeq /\ UpdateMemory
    BY DEF PosEdge
  <1>2. npc = epc /\ act = "ret" /\ ~ex.write
    BY <1>1, RdWriteIs DEF ArchInv, OutputsInv, Executed, NextFetch, Effect, Retires
  <1>3. ~dmmu_to_mem.req
    BY <1>1, AccessAtEdge DEF Runs
  <1>4. /\ ex_pc' = epc /\ dmem' = dmem /\ ArchRegs' = ArchRegs
        /\ epc' = epc /\ eimage' = eimage /\ image' = eimage /\ ie' = TRUE
    <2>1. ex_pc' = epc /\ dmem' = dmem
      BY <1>1, <1>2, <1>3 DEF WritebackSeq, UpdateMemory
    <2>2. ArchRegs' = ArchRegs
      BY <1>1, <1>2, ArchRegsStep DEF PipeInv
    <2>3. epc' = epc /\ eimage' = eimage /\ image' = eimage /\ ie' = TRUE
      BY <1>1, <1>2 DEF ExecSeq
    <2> QED
      BY <2>1, <2>2, <2>3
  <1> QED
    BY <1>4, RunsExecutes DEF Arch!Return

\* The edge at which an instruction completes, as far as all of them agree:
\* what it writes, where execution goes on, and that "ctx" alone touches the
\* CSRs.
LEMMA RetireEdge ==
    ASSUME PipeInv, ArchInv, PosEdge, Retires
    PROVE  /\ ex_pc' = TargetPc
           /\ WritesRd(id_ex.op) => ArchRegs' = Arch!SetReg(id_ex.rd,
                  IF dmmu_to_ex.ack THEN dmmu_to_ex.rdata ELSE Result)
           /\ ~WritesRd(id_ex.op) => ArchRegs' = ArchRegs
           /\ ~Runs("amo") => dmem' = dmem /\ ~dmmu_to_ex.ack
           /\ epc' = epc /\ eimage' = eimage /\ ie' = ie
           /\ image' = IF Runs("ctx") THEN CodeOf[id_ex.imm] ELSE image
  <1>1. /\ phase = "pos" /\ ExecSeq /\ WritebackSeq /\ WriteSeq /\ UpdateMemory
    BY DEF PosEdge
  <1>2. ~OnTrap /\ ~Runs("eret") /\ ~Stalls
    BY DEF Retires
  <1>3. npc = TargetPc /\ act = (IF Runs("ctx") THEN "ctx" ELSE "none")
    BY <1>1, <1>2 DEF ArchInv, OutputsInv, Executed, NextFetch, Effect
  <1>4. /\ ex.write <=> WritesRd(id_ex.op)
        /\ ex.rd = id_ex.rd
        /\ ex.val = IF dmmu_to_ex.ack THEN dmmu_to_ex.rdata ELSE Result
    BY <1>1, RdWriteIs DEF ArchInv, OutputsInv, Executed
  <1>5. ex_pc' = TargetPc
    BY <1>1, <1>3 DEF WritebackSeq
  <1>6. ArchRegs' = IF ex.write
                    THEN [ArchRegs EXCEPT ![ex.rd] = IF ex.rd = 0 THEN @ ELSE ex.val]
                    ELSE ArchRegs
    BY <1>1, ArchRegsStep DEF PipeInv
  <1>7. ~Runs("amo") => dmem' = dmem
    BY <1>1, AccessAtEdge DEF UpdateMemory
  <1>8. ~Runs("amo") => ~dmmu_to_ex.ack
    <2> SUFFICES ASSUME dmmu_to_ex.ack PROVE Runs("amo")
      OBVIOUS
    <2>1. (d_state = 3 /\ dmmu_to_mem.req) \/ d_fault
      BY <1>1 DEF PipeInv, AccessInv
    <2>2. ~id_ex.flush /\ ~id_ex.trap /\ id_ex.op = "amo" /\ wb.stall
      BY <2>1 DEF PipeInv, AccessInv
    <2> QED
      BY <2>2 DEF Runs, TakesInterrupt
  <1>9. /\ epc' = epc /\ eimage' = eimage /\ ie' = ie
        /\ image' = IF Runs("ctx") THEN CodeOf[id_ex.imm] ELSE image
    <2>1. CASE Runs("ctx")
      BY <1>1, <1>3, <2>1 DEF ExecSeq
    <2>2. CASE ~Runs("ctx")
      BY <1>1, <1>3, <2>2 DEF ExecSeq, csrVars
    <2> QED
      BY <2>1, <2>2
  <1>10. WritesRd(id_ex.op) => ArchRegs' = Arch!SetReg(id_ex.rd,
             IF dmmu_to_ex.ack THEN dmmu_to_ex.rdata ELSE Result)
    BY <1>4, <1>6 DEF Arch!SetReg
  <1> QED
    BY <1>4, <1>5, <1>6, <1>7, <1>8, <1>9, <1>10

LEMMA ComputeEdge ==
    ASSUME PipeInv, ArchInv, PosEdge, Retires,
           NEW op \in {"alu", "mul", "nop", "wfi"}, Runs(op)
    PROVE  Arch!Compute
  <1>1. id_ex.op = op /\ ~id_ex.flush /\ (\A o : Runs(o) => o = op)
    BY DEF Runs
  <1>2. ~BranchTaken
    BY <1>1 DEF BranchTaken
  <1>3. TargetPc = Arch!NextPc
    BY <1>1, <1>2, RunsExecutes DEF TargetPc
  <1>4. /\ ex_pc' = Arch!NextPc /\ dmem' = dmem /\ ~dmmu_to_ex.ack
        /\ UNCHANGED <<image, epc, eimage, ie>>
    BY <1>1, <1>3, RetireEdge
  <1>5. /\ Arch!Executes(op) /\ id_ex.rd = Arch!Instruction.rd
        /\ id_ex.imm = Arch!Instruction.imm
        /\ id_ex.rs_val = ArchRegs[Arch!Instruction.rs]
    BY RunsExecutes
  <1>6. CASE op = "alu"
    <2>1. ArchRegs' = Arch!SetReg(id_ex.rd, Plus(id_ex.rs_val, id_ex.imm))
      BY <1>1, <1>4, <1>6, RetireEdge DEF WritesRd, Result
    <2> QED
      BY <1>4, <1>5, <1>6, <2>1, SameProgram DEF Arch!Compute
  <1>7. CASE op = "mul"
    <2>1. mext_rsp.ack
      BY <1>7 DEF Retires, Stalls
    <2>2. Result = Plus(id_ex.rs_val, id_ex.rs_val)
      BY <1>1, <1>7, <2>1 DEF Result, ArchInv, ProductInv
    <2>3. ArchRegs' = Arch!SetReg(id_ex.rd, Plus(id_ex.rs_val, id_ex.rs_val))
      BY <1>1, <1>4, <1>7, <2>2, RetireEdge DEF WritesRd
    <2> QED
      BY <1>4, <1>5, <1>7, <2>3, SameProgram DEF Arch!Compute
  <1>8. CASE op \in {"nop", "wfi"}
    <2>1. ArchRegs' = ArchRegs
      BY <1>1, <1>8, RetireEdge DEF WritesRd
    <2> QED
      BY <1>4, <1>5, <1>8, <2>1 DEF Arch!Compute
  <1> QED
    BY <1>6, <1>7, <1>8

LEMMA AmoEdge ==
    ASSUME PipeInv, ArchInv, PosEdge, Retires, Runs("amo")
    PROVE  Arch!Amo
  <1>1. id_ex.op = "amo" /\ ~id_ex.flush /\ phase = "pos" /\ UpdateMemory
    BY DEF Runs, PosEdge
  <1>2. ~BranchTaken /\ ~Runs("ctx")
    BY <1>1 DEF BranchTaken, Runs
  <1>3. TargetPc = Arch!NextPc
    BY <1>1, <1>2, RunsExecutes DEF TargetPc
  <1>4. dmmu_to_ex.ack /\ ~dmmu_to_ex.fault
    BY DEF Retires, Stalls, OnTrap
  <1>5. dmmu_to_mem.req
    BY <1>1, <1>4 DEF PipeInv, AccessInv
  <1>6. dmmu_to_ex.rdata = dmem /\ dmmu_to_mem.wdata = id_ex.rs_val
    BY <1>1, <1>5, AccessAtEdge
  <1>7. dmem' = Plus(dmem, id_ex.rs_val)
    BY <1>1, <1>5, <1>6 DEF UpdateMemory
  <1>8. ArchRegs' = Arch!SetReg(id_ex.rd, dmem)
    BY <1>1, <1>4, <1>6, RetireEdge DEF WritesRd
  <1>9. ex_pc' = Arch!NextPc /\ UNCHANGED <<image, epc, eimage, ie>>
    BY <1>2, <1>3, RetireEdge
  <1> QED
    BY <1>7, <1>8, <1>9, RunsExecutes, SameProgram DEF Arch!Amo

LEMMA JumpEdge ==
    ASSUME PipeInv, ArchInv, PosEdge, Retires,
           NEW op \in {"br", "jal", "jalr"}, Runs(op)
    PROVE  Arch!Jump
  <1>1. id_ex.op = op /\ ~id_ex.flush /\ (\A o : Runs(o) => o = op)
    BY DEF Runs
  <1>2. /\ Arch!Executes(op) /\ id_ex.rd = Arch!Instruction.rd
        /\ id_ex.imm = Arch!Instruction.imm
        /\ id_ex.rs_val = ArchRegs[Arch!Instruction.rs]
        /\ Plus(ex_pc, id_ex.len) = Arch!NextPc
        /\ Plus(id_ex.pc, id_ex.len) = Arch!NextPc
    BY RunsExecutes
  <1>3. /\ ex_pc' = TargetPc /\ dmem' = dmem /\ ~dmmu_to_ex.ack
        /\ UNCHANGED <<image, epc, eimage, ie>>
    BY <1>1, RetireEdge
  <1>4. CASE op = "br"
    <2>1. ArchRegs' = ArchRegs
      BY <1>1, <1>4, RetireEdge DEF WritesRd
    <2>2. TargetPc = IF id_ex.rs_val # 0 THEN id_ex.imm ELSE Arch!NextPc
      BY <1>1, <1>2, <1>4 DEF TargetPc, BranchTaken
    <2> QED
      BY <1>2, <1>3, <1>4, <2>1, <2>2 DEF Arch!Jump
  <1>5. CASE op \in {"jal", "jalr"}
    <2>1. BranchTaken /\ Result = Arch!NextPc
      BY <1>1, <1>2, <1>5 DEF Result, BranchTaken
    <2>2. ArchRegs' = Arch!SetReg(id_ex.rd, Arch!NextPc)
      BY <1>1, <1>3, <1>5, <2>1, RetireEdge DEF WritesRd
    <2>3. TargetPc = IF op = "jalr" THEN id_ex.rs_val ELSE id_ex.imm
      BY <1>1, <1>5, <2>1 DEF TargetPc
    <2> QED
      BY <1>2, <1>3, <1>5, <2>2, <2>3 DEF Arch!Jump
  <1> QED
    BY <1>4, <1>5

LEMMA ContextEdge ==
    ASSUME PipeInv, ArchInv, PosEdge, Retires, Runs("ctx")
    PROVE  Arch!ChangeContext
  <1>1. id_ex.op = "ctx" /\ ~id_ex.flush
    BY DEF Runs
  <1>2. ~BranchTaken /\ ~Runs("amo")
    BY <1>1 DEF BranchTaken, Runs
  <1>3. TargetPc = Arch!NextPc
    BY <1>1, <1>2, RunsExecutes DEF TargetPc
  <1>4. /\ ex_pc' = Arch!NextPc /\ dmem' = dmem /\ ArchRegs' = ArchRegs
        /\ UNCHANGED <<epc, eimage, ie>> /\ image' = CodeOf[id_ex.imm]
    BY <1>1, <1>2, <1>3, RetireEdge DEF WritesRd
  <1> QED
    BY <1>4, RunsExecutes DEF Arch!ChangeContext

\* Nothing in EXEC: nothing happens.
LEMMA BubbleEdge ==
    ASSUME PipeInv, ArchInv, PosEdge, Retires, id_ex.flush
    PROVE  UNCHANGED <<ex_pc, ArchRegs, dmem, image, epc, eimage, ie>>
  <1>1. id_ex.op = "nop" /\ \A op : ~Runs(op)
    BY DEF ArchInv, InstructionInv, Runs
  <1>2. TargetPc = ex_pc
    BY <1>1 DEF TargetPc, BranchTaken
  <1> QED
    BY <1>1, <1>2, RetireEdge DEF WritesRd

LEMMA StallEdge ==
    ASSUME PipeInv, ArchInv, PosEdge, Stalls
    PROVE  UNCHANGED <<ex_pc, ArchRegs, dmem, image, epc, eimage, ie>>
  <1>1. /\ phase = "pos" /\ ExecSeq /\ WritebackSeq /\ WriteSeq /\ UpdateMemory
    BY DEF PosEdge
  <1>2. stall
    BY <1>1 DEF ArchInv, OutputsInv, Executed
  <1>3. ~ex.write /\ npc = ex_pc /\ act = "none" /\ ~dmmu_to_mem.req
    BY <1>1, <1>2, StalledEdge
  <1>4. ex_pc' = ex_pc /\ dmem' = dmem
    BY <1>1, <1>3 DEF WritebackSeq, UpdateMemory
  <1>5. ArchRegs' = ArchRegs
    BY <1>1, <1>3, ArchRegsStep DEF PipeInv
  <1>6. UNCHANGED <<image, epc, eimage, ie>>
    BY <1>1, <1>3 DEF ExecSeq, csrVars
  <1> QED
    BY <1>4, <1>5, <1>6

LEMMA PosEdgeIsa ==
    ASSUME PipeInv, ArchInv, PosEdge
    PROVE  Arch!IsaNext \/ UNCHANGED <<ex_pc, ArchRegs, dmem, image, epc, eimage, ie>>
  <1>1. CASE OnTrap
    BY <1>1, TrapEdge DEF Arch!IsaNext
  <1>2. CASE ~OnTrap /\ Runs("eret")
    BY <1>2, ReturnEdge DEF Arch!IsaNext
  <1>3. CASE Stalls
    BY <1>3, StallEdge
  <1>4. CASE Retires /\ id_ex.flush
    BY <1>4, BubbleEdge
  <1>5. CASE Retires /\ ~id_ex.flush
    <2>1. Runs(id_ex.op) /\ id_ex.op \in Ops /\ id_ex.op # "ill"
      BY <1>5 DEF Retires, OnTrap, Runs, PipeInv, TypeOK, ArchInv, InstructionInv
    <2>2. ~Runs("ecall") /\ ~Runs("eret")
      BY <1>5 DEF Retires, OnTrap
    <2>3. id_ex.op \in {"alu", "mul", "nop", "wfi"} \cup {"amo"} \cup {"br", "jal", "jalr"}
                       \cup {"ctx"}
      BY <2>1, <2>2 DEF Ops
    <2>4. CASE id_ex.op \in {"alu", "mul", "nop", "wfi"}
      BY <1>5, <2>1, <2>4, ComputeEdge DEF Arch!IsaNext
    <2>5. CASE id_ex.op = "amo"
      BY <1>5, <2>1, <2>5, AmoEdge DEF Arch!IsaNext
    <2>6. CASE id_ex.op \in {"br", "jal", "jalr"}
      BY <1>5, <2>1, <2>6, JumpEdge DEF Arch!IsaNext
    <2>7. CASE id_ex.op = "ctx"
      BY <1>5, <2>1, <2>7, ContextEdge DEF Arch!IsaNext
    <2> QED
      BY <2>3, <2>4, <2>5, <2>6, <2>7
  <1> QED
    BY <1>1, <1>2, <1>3, <1>4, <1>5 DEF Retires

\* The pipeline implements the machine that executes one instruction at a
\* time, for every program and register file, whatever the prefetcher ran
\* ahead to, however long translations and multiplications take, and
\* wherever an exception or interrupt falls.
THEOREM PipelineImplementsIsa == Spec => RefinesIsa
  <1>1. Init => Arch!IsaInit
    <2> SUFFICES ASSUME Init PROVE ArchRegs = [r \in Regs |-> 0]
      BY DEF Init, Arch!IsaInit
    <2> QED
      BY DEF Init, ArchRegs
  <1>2. ASSUME PipeInv, ArchInv, [Next]_vars
        PROVE  Arch!IsaNext \/ UNCHANGED <<ex_pc, ArchRegs, dmem, image, epc, eimage, ie>>
    <2>1. CASE PosEdge
      BY <1>2, <2>1, PosEdgeIsa
    <2>2. CASE RspComb \/ ExecComb \/ FifoComb \/ UNCHANGED vars
      BY <2>2 DEF RspComb, ExecComb, FifoComb, vars, fetchVars, inVars, ArchRegs
    <2> QED
      BY <1>2, <2>1, <2>2 DEF Next
  <1> QED
    BY <1>1, <1>2, PipeInvariant, ArchInvariant, PTL
       DEF Spec, RefinesIsa, Arch!IsaSpec, Arch!archVars
=============================================================================
