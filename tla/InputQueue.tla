----------------------------- MODULE InputQueue -----------------------------
(***************************************************************************)
(* What the UART's receive side promises: a queue of Capacity characters.  *)
(* A line that does not fit is cut off; what is read comes out in the      *)
(* order it went in, each character once.                                  *)
(***************************************************************************)
EXTENDS Integers, Sequences

CONSTANTS
    Capacity,    \* characters the queue holds
    Lines        \* the texts the keyboard may send at once

VARIABLES
    typed,       \* lines sent so far
    queue,       \* characters received and not read
    last         \* the character software read last

NoChar == "no character"

QueueInit == typed = 0 /\ queue = << >> /\ last = NoChar

Put ==
    \E line \in Lines :
        LET room == Capacity - Len(queue)
            n == IF Len(line) <= room THEN Len(line) ELSE room
        IN /\ typed' = typed + 1
           /\ queue' = queue \o SubSeq(line, 1, n)
           /\ UNCHANGED last

Get ==
    /\ queue # << >>
    /\ last' = Head(queue)
    /\ queue' = Tail(queue)
    /\ UNCHANGED typed

QueueSpec == QueueInit /\ [][Put \/ Get]_<<typed, queue, last>>
=============================================================================
