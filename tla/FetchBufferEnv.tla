--------------------------- MODULE FetchBufferEnv ---------------------------
(***************************************************************************)
(* The fetch buffer closed with the most general surroundings: an IMMU     *)
(* that may answer any address at any time, an EXEC that may stall or      *)
(* flush in any cycle.  Only two things are assumed of them, both shown of *)
(* the real ones in Pipeline: an answer carries the word of the current    *)
(* image, and the image changes only at a rising edge that also flushes.   *)
(***************************************************************************)
EXTENDS FetchBuffer

VARIABLE phase   \* "inputs" -> "fifo" -> "pos", once per clock cycle

envVars == <<fetchVars, phase>>

EnvInit ==
    /\ FetchInit
    /\ image \in Images
    /\ stall = FALSE /\ flush = FALSE /\ immu_flush = FALSE
    /\ immu_pc = 0
    /\ rsp = [ack |-> FALSE, word |-> [h \in 0 .. 1 |-> ZeroSlot]]
    /\ phase = "inputs"

\* The IMMU after the rising edge and EXEC at the falling edge.
Inputs ==
    /\ phase = "inputs"
    /\ immu_pc' \in Addr
    /\ \E ack \in BOOLEAN :
          rsp' = [ack |-> ack,
                  word |-> IF ack THEN WordAt(image, immu_pc')
                           ELSE [h \in 0 .. 1 |-> ZeroSlot]]
    /\ stall' \in BOOLEAN /\ flush' \in BOOLEAN /\ immu_flush' \in BOOLEAN
    /\ phase' = "fifo"
    /\ UNCHANGED <<image, bufVars, if_id_accept>>

Fifo ==
    /\ phase = "fifo"
    /\ FifoStateComb
    /\ phase' = "pos"
    /\ UNCHANGED <<inVars, bufVars>>

PosEdge ==
    /\ phase = "pos"
    /\ GetInstSeq
    /\ IF flush THEN image' \in Images ELSE UNCHANGED image
    /\ phase' = "inputs"
    /\ UNCHANGED <<stall, flush, immu_flush, rsp, immu_pc, if_id_accept>>

EnvNext == Inputs \/ Fifo \/ PosEdge

EnvSpec == EnvInit /\ [][EnvNext]_envVars

\* The inductive invariant of the buffer.
EnvInv ==
    /\ BufferInv
    /\ phase \in {"inputs", "fifo", "pos"}
    /\ (phase # "inputs" /\ rsp.ack) => rsp.word = WordAt(image, immu_pc)
    /\ phase = "pos" => if_id_accept = Accept

\* fifo_state_comb and get_inst_seq agree: at a rising edge that does not
\* flush, an offered word ends up in the buffer exactly when the prefetcher
\* was told that it would, so that no word is skipped and none taken twice.
AcceptedIsStored ==
    [][ (phase = "pos" /\ ~flush /\ Receives) =>
            (if_id_accept <=>
                Plus(buffer_addr', buffer_idx') = Plus(WordBase(immu_pc), 2))
      ]_envVars
=============================================================================
