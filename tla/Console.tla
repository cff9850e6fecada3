------------------------------- MODULE Console -------------------------------
(***************************************************************************)
(* The console: run_ui_console of src/src/utils.hpp in one process, and    *)
(* the simulator's TB_State::next_cycle, Testbench::clock and the console  *)
(* part of plat_update of src/src/tb.hpp in another.  They share the       *)
(* SharedState page and nothing orders their accesses: an action is one    *)
(* access to the page, or a few that are as if made at one instant.        *)
(*                                                                         *)
(* Left out: printing (:p), the timer (:timeirq) and malformed commands.   *)
(* Lines are sequences of characters.  The argument of a command is read   *)
(* as an unsigned long long, stored in the page as a uint32_t, and, if it  *)
(* is a count, taken over into an int.                                     *)
(***************************************************************************)
EXTENDS Integers, Sequences

CONSTANTS
    BufLen,      \* size of SharedState::uart_buf: 128
    Lines,       \* the lines a user types that do not begin with a colon
    Half,        \* 2^31: an int is less, a uint32_t less than twice that
    Steps,       \* arguments of :step
    Breaks,      \* arguments of :b
    Pcs,         \* values of ex_pc
    MaxInput     \* lines and commands typed in a behaviour

Newline == "\n"
Nul == "NUL"

ASSUME ConsoleAssumption ==
    /\ BufLen \in Nat \ {0} /\ MaxInput \in Nat
    /\ Half \in Nat \ {0}
    /\ Steps \subseteq Nat \ {0} /\ Breaks \subseteq Nat \ {0}
    /\ Pcs \subseteq 0 .. 2 * Half - 1
    /\ \A line \in Lines : line \in Seq(STRING) /\ line # << >>

VARIABLES
    \* SharedState
    start, force_run, force_stop, breakpoint, brk_pc, new_step_cycles, uart_buf,
    \* run_ui_console: the line being copied and how much of it has been
    line, copied, pending, typed,
    \* the simulator: where it is, TB_State, the processor's pc
    at, state, step_cycles, pc, len,
    \* history
    accepted,     \* the text the console took over from the user
    delivered,    \* the text keyboard_input was given
    asked,        \* the argument of the :step that is in the page, as typed
    taken,        \* the one the simulator counts, as typed; 0: not a :step
    allowed       \* cycles the user's commands leave to run; -1: any number

sharedVars == <<start, force_run, force_stop, breakpoint, brk_pc, new_step_cycles, uart_buf>>
uiVars == <<line, copied, pending, typed>>
simVars == <<at, state, step_cycles, pc, len>>
texts == <<accepted, delivered>>
budget == <<taken, allowed>>
history == <<texts, asked, budget>>
vars == <<sharedVars, uiVars, simVars, history>>

\* Conversion of an unsigned long long to uint32_t, and of that to int.
ToUint(n) == n % (2 * Half)
ToInt(u) == IF u < Half THEN u ELSE u - 2 * Half

Init ==
    /\ start = FALSE /\ force_run = FALSE /\ force_stop = FALSE
    /\ breakpoint = FALSE /\ brk_pc = 0 /\ new_step_cycles = 0
    /\ uart_buf = [i \in 0 .. BufLen - 1 |-> Nul]
    /\ line = << >> /\ copied = 0 /\ pending = "none" /\ typed = 0
    /\ at = "init" /\ state = 0 /\ step_cycles = 0 /\ len = 0 /\ pc \in Pcs
    /\ accepted = << >> /\ delivered = << >>
    /\ asked = 0 /\ taken = 0 /\ allowed = 0

(***************************************************************************)
(* run_ui_console                                                          *)
(***************************************************************************)
Reading == line = << >> /\ pending = "none"
Types == Reading /\ typed < MaxInput /\ typed' = typed + 1

\* next_cycle will look at a :stop before it resets it: the machine runs, and
\* next_cycle is not between the two.
Heard == state = 1 /\ at \notin {"resume", "clear_run", "clear_stop"}

\* :c, :stop, :step n, :d are one store, :b and :r two.  A :stop leaves the
\* cycle that is due, if one is.
Command ==
    /\ Types
    /\ \/ /\ force_run' = TRUE /\ pending' \in {"none", "start"}
          /\ UNCHANGED <<force_stop, new_step_cycles, breakpoint, brk_pc, asked, budget>>
       \/ /\ force_stop' = TRUE
          /\ IF Heard THEN taken' = 0 /\ allowed' = (IF at = "strlen" THEN 1 ELSE 0)
                      ELSE UNCHANGED budget
          /\ UNCHANGED <<force_run, new_step_cycles, breakpoint, brk_pc, pending, asked>>
       \/ /\ asked' \in Steps /\ new_step_cycles' = ToUint(asked')
          /\ UNCHANGED <<force_run, force_stop, breakpoint, brk_pc, pending, budget>>
       \/ /\ breakpoint' = TRUE /\ pending' = "brk_pc"
          /\ UNCHANGED <<force_run, force_stop, new_step_cycles, brk_pc, asked, budget>>
       \/ /\ breakpoint' = FALSE
          /\ UNCHANGED <<force_run, force_stop, new_step_cycles, brk_pc, pending, asked, budget>>
    /\ UNCHANGED <<start, uart_buf, line, copied, simVars, texts>>

SecondStore ==
    /\ \/ pending = "start" /\ start' = TRUE /\ UNCHANGED brk_pc
       \/ pending = "brk_pc" /\ brk_pc' \in {ToUint(n) : n \in Breaks} /\ UNCHANGED start
    /\ pending' = "none"
    /\ UNCHANGED <<force_run, force_stop, breakpoint, new_step_cycles, uart_buf,
                   line, copied, typed, simVars, history>>

\* Slip: a long line is not cut.
SlipCut(l) == Len(l)

\* The characters of a line that are copied, and where the newline goes: in
\* a full buffer, over the last of them.
Cut(l) == IF Len(l) < BufLen THEN Len(l) ELSE BufLen
NewlineAt(l) == IF Len(l) < BufLen THEN Len(l) ELSE BufLen - 1

\* What the line is in uart_buf in the end.
Sent(l) == Append(SubSeq(l, 1, NewlineAt(l)), Newline)

\* A line is taken if the last one is gone, and dropped otherwise.
TakeLine ==
    /\ Types
    /\ \/ /\ uart_buf[0] = Nul
          /\ \E l \in Lines : line' = l /\ accepted' = accepted \o Sent(l)
          /\ copied' = 0
       \/ uart_buf[0] # Nul /\ UNCHANGED <<line, copied, accepted>>
    /\ UNCHANGED <<sharedVars, pending, simVars, delivered, asked, budget>>

CopyChar ==
    /\ line # << >>
    /\ \/ /\ copied < Cut(line)
          /\ uart_buf' = [uart_buf EXCEPT ![copied] = line[copied + 1]]
          /\ copied' = copied + 1 /\ UNCHANGED line
       \/ /\ copied = Cut(line)
          /\ uart_buf' = [uart_buf EXCEPT ![NewlineAt(line)] = Newline]
          /\ copied' = 0 /\ line' = << >>
    /\ UNCHANGED <<start, force_run, force_stop, breakpoint, brk_pc, new_step_cycles,
                   pending, typed, simVars, history>>

Ui == Command \/ SecondStore \/ TakeLine \/ CopyChar

(***************************************************************************)
(* The simulator: init, then a heartbeat at a time.                        *)
(***************************************************************************)
Shared(v) == UNCHANGED <<start, breakpoint, brk_pc, uart_buf>> /\ UNCHANGED v

\* LinuxMode::init
WaitForStart ==
    /\ at = "init" /\ start /\ at' = "load"
    /\ UNCHANGED <<sharedVars, uiVars, state, step_cycles, pc, len, history>>

\* A count in the page is tested, loaded and cleared in three accesses.
TestSteps ==
    /\ at = "load"
    /\ at' = IF new_step_cycles > 0 THEN "load_steps" ELSE "decide"
    /\ UNCHANGED <<sharedVars, uiVars, state, step_cycles, pc, len, history>>

LoadSteps ==
    /\ at = "load_steps" /\ at' = "clear_steps"
    /\ step_cycles' = ToInt(new_step_cycles)
    /\ taken' = asked /\ allowed' = asked
    /\ UNCHANGED <<sharedVars, uiVars, state, pc, len, texts, asked>>

ClearSteps ==
    /\ at = "clear_steps" /\ at' = "decide"
    /\ new_step_cycles' = 0 /\ asked' = 0
    /\ Shared(<<force_run, force_stop>>)
    /\ UNCHANGED <<uiVars, state, step_cycles, pc, len, texts, budget>>

\* Slip: the cycle that starts a :step does not count.
SlipCount(st, n) == IF n > 0 /\ state = 1 THEN n - st ELSE n

\* A step count that is positive is decremented when the cycle runs.
Count(st, n) == IF n > 0 THEN n - st ELSE n

\* next_cycle's two states, and what a running machine that is not stopped
\* looks at next.
Decide ==
    /\ at = "decide" /\ at' = IF state = 1 /\ ~force_stop THEN "resume" ELSE "clear_run"
    /\ \/ /\ state = 0 /\ force_run
          /\ state' = 1 /\ step_cycles' = -1 /\ taken' = 0 /\ allowed' = -1
       \/ /\ state = 0 /\ ~force_run
          /\ state' = IF step_cycles > 0 THEN 1 ELSE 0
          /\ step_cycles' = Count(state', step_cycles) /\ UNCHANGED budget
       \/ /\ state = 1 /\ force_stop
          /\ state' = 0 /\ step_cycles' = 0 /\ taken' = 0 /\ allowed' = 0
       \/ state = 1 /\ ~force_stop /\ UNCHANGED <<state, step_cycles, budget>>
    /\ UNCHANGED <<sharedVars, uiVars, pc, len, texts, asked>>

Resume ==
    /\ at = "resume" /\ at' = "clear_run"
    /\ state' = IF (breakpoint /\ brk_pc = pc) \/ step_cycles = 0 THEN 0 ELSE 1
    /\ step_cycles' = Count(state', step_cycles)
    /\ UNCHANGED <<sharedVars, uiVars, pc, len, history>>

ClearRun ==
    /\ at = "clear_run" /\ at' = "clear_stop"
    /\ force_run' = FALSE
    /\ Shared(<<force_stop, new_step_cycles>>)
    /\ UNCHANGED <<uiVars, state, step_cycles, pc, len, history>>

ClearStop ==
    /\ at = "clear_stop" /\ at' = IF state = 1 THEN "strlen" ELSE "load"
    /\ force_stop' = FALSE
    /\ Shared(<<force_run, new_step_cycles>>)
    /\ UNCHANGED <<uiVars, state, step_cycles, pc, len, history>>

\* Slip: a text without a terminator is none.
SlipStrlen ==
    IF \A i \in 0 .. BufLen - 1 : uart_buf[i] # Nul THEN 0
    ELSE CHOOSE n \in 0 .. BufLen - 1 : uart_buf[n] = Nul /\ \A i \in 0 .. n - 1 : uart_buf[i] # Nul

\* What follows the page's last place is zero.
Strlen ==
    IF \A i \in 0 .. BufLen - 1 : uart_buf[i] # Nul THEN BufLen
    ELSE CHOOSE n \in 0 .. BufLen - 1 : uart_buf[n] = Nul /\ \A i \in 0 .. n - 1 : uart_buf[i] # Nul

\* A clock cycle of the processor begins; plat_update looks for input.
Cycle ==
    /\ at = "strlen"
    /\ len' = Strlen
    /\ at' = IF Strlen = 0 THEN "load" ELSE "input"
    /\ pc' \in Pcs
    /\ allowed' = IF allowed > 0 THEN allowed - 1 ELSE allowed
    /\ UNCHANGED <<sharedVars, uiVars, state, step_cycles, texts, asked, taken>>

KeyboardInput ==
    /\ at = "input" /\ at' = "clear"
    /\ delivered' = delivered \o [i \in 1 .. len |-> uart_buf[i - 1]]
    /\ UNCHANGED <<sharedVars, uiVars, state, step_cycles, pc, len, accepted, asked, budget>>

\* From the last character down to the first, which is what TakeLine looks at.
ClearChar ==
    /\ at = "clear"
    /\ len' = len - 1
    /\ uart_buf' = [uart_buf EXCEPT ![len - 1] = Nul]
    /\ at' = IF len = 1 THEN "load" ELSE "clear"
    /\ UNCHANGED <<start, force_run, force_stop, breakpoint, brk_pc, new_step_cycles,
                   uiVars, state, step_cycles, pc, history>>

Sim ==
    \/ WaitForStart \/ TestSteps \/ LoadSteps \/ ClearSteps \/ Decide \/ Resume
    \/ ClearRun \/ ClearStop \/ Cycle \/ KeyboardInput \/ ClearChar

Next == Ui \/ Sim

Spec == Init /\ [][Next]_vars

\* The simulator never waits; the console finishes the copy it is in.
FairSpec == Spec /\ WF_vars(Sim) /\ WF_vars(SecondStore \/ CopyChar)

(***************************************************************************)
(* What the console promises.                                              *)
(***************************************************************************)

\* Types of the shared page and of the two processes.
TypeOK ==
    /\ {start, force_run, force_stop, breakpoint} \subseteq BOOLEAN
    /\ {brk_pc, new_step_cycles} \subseteq 0 .. 2 * Half - 1
    /\ DOMAIN uart_buf = 0 .. BufLen - 1
    /\ copied \in 0 .. BufLen /\ pending \in {"none", "start", "brk_pc"}
    /\ state \in 0 .. 1 /\ len \in 0 .. BufLen
    /\ step_cycles \in -Half .. Half - 1
    /\ pc \in Pcs
    /\ {asked, taken} \subseteq Steps \cup {0} /\ allowed \in Nat \cup {-1}

\* The count is still one when it has become an int.
Counted(n) == ToUint(n) < Half

\* A :step whose count an int can hold runs no more cycles than were typed,
\* and after a :stop that is heard only the cycle that is due runs, whatever
\* was typed before and in between.
StepNeverOverruns == at = "strlen" /\ Counted(taken) => allowed # 0

\* What is copied next is of a line, within the buffer, and a text that is
\* taken over is not empty.
CopyInv ==
    /\ line # << >> => line \in Lines /\ copied <= Cut(line)
    /\ at \in {"input", "clear"} => len > 0

\* Cycles that TB_State's count leaves to run: next_cycle counts a cycle
\* before it runs.
Remaining ==
    IF at \in {"clear_run", "clear_stop", "strlen"} /\ state = 1
    THEN step_cycles + 1 ELSE step_cycles

\* A :stop was heard and next_cycle has yet to look at it.
Halting == force_stop /\ Heard

\* TB_State's count is what the command taken leaves to run, less what the
\* conversion to uint32_t took from it; until a :stop is heard.
CountInv ==
    /\ at \in {"init", "load", "load_steps", "clear_steps", "decide", "resume", "clear_run",
               "clear_stop", "strlen", "input", "clear"}
    /\ at = "strlen" => state = 1
    /\ new_step_cycles = ToUint(asked)
    /\ Halting /\ at = "strlen" => allowed = 1
    /\ ~Halting /\ Counted(taken) =>
          \/ taken = 0 /\ step_cycles = -1 /\ allowed = -1
          \/ step_cycles >= 0 /\ allowed = Remaining + (taken - ToUint(taken))

\* The inductive invariant.
ConsoleInv == TypeOK /\ CopyInv /\ CountInv

\* The console is never shut for good: while the machine runs, the first
\* place of uart_buf, without which no line is taken, becomes free again,
\* even after two lines ran into each other.
LinesTakenAgain == uart_buf[0] # Nul ~> (uart_buf[0] = Nul \/ state = 0)

\* "Send message to UART if ':' is not the first char": what arrives at the
\* UART is what was taken over from the user, in its order.
LinesArrive ==
    /\ Len(delivered) <= Len(accepted)
    /\ delivered = SubSeq(accepted, 1, Len(delivered))
=============================================================================
