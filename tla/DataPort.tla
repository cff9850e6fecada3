------------------------------ MODULE DataPort ------------------------------
(***************************************************************************)
(* RAM behind the data port (src/src/memory.hpp): mem_access answers a     *)
(* request and update_memory applies it at the next edge.  Nobody else     *)
(* writes RAM and the port takes one request at a time, so an access is    *)
(* one step.  Memory is bytes, and every byte has a reservation of its     *)
(* own.                                                                    *)
(*                                                                         *)
(* Two threads of one hart count in a word, each by a load-reserved, an    *)
(* addition and a store-conditional, or by an AMO.  Between any two        *)
(* instructions the system may switch threads; as systems on this          *)
(* architecture do, it executes a store-conditional of its own on the way, *)
(* to give up a reservation the interrupted thread may hold.               *)
(***************************************************************************)
EXTENDS Integers

CONSTANTS
    Base,          \* values of a byte (256)
    WordBytes,     \* bytes of a word (4)
    Counter,       \* address of the shared word
    Scratch,       \* address of the system's own word
    Threads,
    MaxCount       \* bound on increments

VARIABLES
    dmem, dreserve,
    running,       \* the thread that has the hart
    at, reg,       \* where each thread is, and what it loaded
    count          \* increments that threads believe to have made

vars == <<dmem, dreserve, running, at, reg, count>>

Lanes(a) == {a + i : i \in 0 .. WordBytes - 1}
Addr == Lanes(Counter) \cup Lanes(Scratch)

(***************************************************************************)
(* RAM and the byte lanes of the bus.                                      *)
(***************************************************************************)

\* The loop over the bytes of a word, highest first.
ReadWord(a) ==
    LET acc[i \in 0 .. WordBytes] ==
            IF i = 0 THEN 0 ELSE acc[i - 1] * Base + dmem[a + WordBytes - i]
    IN acc[WordBytes]

Lane(v, i) == (v \div Base ^ i) % Base

\* RAM::write of every byte takes its reservation away.
WriteWord(a, v) ==
    /\ dmem' = [b \in Addr |-> IF b \in Lanes(a) THEN Lane(v, b - a) ELSE dmem[b]]
    /\ dreserve' = dreserve \ Lanes(a)

\* LR answers the word and reserves its bytes.
LoadReserved(a) == dreserve' = dreserve \cup Lanes(a) /\ UNCHANGED dmem

\* SC looks at the word's first byte; when it fails nothing changes.
ScSucceeds(a) == a \in dreserve

StoreConditional(a, v) ==
    IF ScSucceeds(a) THEN WriteWord(a, v) ELSE UNCHANGED <<dmem, dreserve>>

\* AMOADD
AmoAdd(a, v) == WriteWord(a, ReadWord(a) + v)

(***************************************************************************)
(* Software.                                                               *)
(***************************************************************************)
Init ==
    /\ dmem = [b \in Addr |-> 0] /\ dreserve = {}
    /\ running \in Threads
    /\ at = [t \in Threads |-> "start"] /\ reg = [t \in Threads |-> 0]
    /\ count = 0

Reserve(t) ==
    /\ at[t] = "start" /\ count < MaxCount
    /\ LoadReserved(Counter)
    /\ reg' = [reg EXCEPT ![t] = ReadWord(Counter)]
    /\ at' = [at EXCEPT ![t] = "loaded"]
    /\ UNCHANGED <<running, count>>

Commit(t) ==
    /\ at[t] = "loaded"
    /\ StoreConditional(Counter, reg[t] + 1)
    /\ count' = IF ScSucceeds(Counter) THEN count + 1 ELSE count
    /\ at' = [at EXCEPT ![t] = "start"]
    /\ UNCHANGED <<running, reg>>

Bump(t) ==
    /\ at[t] = "start" /\ count < MaxCount
    /\ AmoAdd(Counter, 1)
    /\ count' = count + 1
    /\ UNCHANGED <<running, at, reg>>

Switch ==
    /\ running' \in Threads \ {running}
    /\ StoreConditional(Scratch, 0)
    /\ UNCHANGED <<at, reg, count>>

Next == Reserve(running) \/ Commit(running) \/ Bump(running) \/ Switch

Spec == Init /\ [][Next]_vars

\* No increment is lost: the word holds as many as were made, however the
\* system switched between the threads.
NoLostUpdate == ReadWord(Counter) = count % Base ^ WordBytes
=============================================================================
