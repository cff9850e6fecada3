--------------------------- MODULE ConsoleProofs ---------------------------
(***************************************************************************)
(* Proofs about Console, for any buffer, any size of a word, any lines and *)
(* any arguments of commands, and any number of them: copying stays within *)
(* uart_buf, and counting keeps to what was typed as far as an int can, in *)
(* every interleaving of the two processes.                                *)
(***************************************************************************)
EXTENDS Console, TLAPS, WellFoundedInduction

LEMMA Constants ==
    /\ BufLen \in Nat \ {0} /\ Half \in Nat \ {0}
    /\ Steps \subseteq Nat \ {0} /\ Breaks \subseteq Nat \ {0}
    /\ \A l \in Lines : Len(l) \in Nat
    /\ \A l \in Lines : Cut(l) \in 0 .. BufLen /\ NewlineAt(l) \in 0 .. BufLen - 1
<1>1. /\ BufLen \in Nat \ {0} /\ Half \in Nat \ {0}
      /\ Steps \subseteq Nat \ {0} /\ Breaks \subseteq Nat \ {0}
  BY ConsoleAssumption
<1>2. \A l \in Lines : Len(l) \in Nat
  BY ConsoleAssumption
<1> QED BY <1>1, <1>2 DEF Cut, NewlineAt

\* Conversions: a uint32_t is never more than what was typed, and an int has
\* its value when it is less than 2^31 and is negative otherwise.
LEMMA ToUintIs ==
    /\ ToUint(0) = 0
    /\ \A n \in Nat : ToUint(n) \in 0 .. 2 * Half - 1 /\ ToUint(n) <= n
<1>1. Half \in Nat \ {0}
  BY Constants
<1>2. 0 % (2 * Half) = 0
  BY <1>1
<1>3. ASSUME NEW n \in Nat
      PROVE  n % (2 * Half) \in 0 .. 2 * Half - 1 /\ n % (2 * Half) <= n
  <2> DEFINE w == 2 * Half
  <2>1. w \in Nat \ {0}
    BY <1>1
  <2> HIDE DEF w
  <2>2. n % w \in 0 .. w - 1
    BY <2>1
  <2>3. CASE n < w
    <3>1. n % w = n
      BY <2>1, <2>3
    <3> QED BY <2>2, <3>1 DEF w
  <2>4. CASE w <= n
    <3>1. n % w <= n
      BY <2>1, <2>2, <2>4
    <3> QED BY <2>2, <3>1 DEF w
  <2> QED BY <2>1, <2>3, <2>4
<1> QED BY <1>2, <1>3 DEF ToUint

LEMMA TakenIs ==
    ASSUME TypeOK
    PROVE  taken \in Nat /\ ToUint(taken) \in Nat /\ ToUint(taken) <= taken
<1>1. taken \in Nat
  <2>1. taken \in Steps \cup {0}
    BY DEF TypeOK
  <2>2. Steps \subseteq Nat
    BY Constants
  <2> QED BY <2>1, <2>2
<1>2. ToUint(taken) \in 0 .. 2 * Half - 1 /\ ToUint(taken) <= taken
  BY <1>1, ToUintIs
<1> QED BY <1>1, <1>2, Constants

LEMMA ToIntIs ==
    ASSUME NEW u \in 0 .. 2 * Half - 1
    PROVE  /\ ToInt(u) \in -Half .. Half - 1
           /\ u < Half => ToInt(u) = u
  BY Constants DEF ToInt

\* strlen() finds the first NUL, or runs to the end of the buffer.
LEMMA StrlenType == ASSUME BufLen \in Nat \ {0} PROVE Strlen \in 0 .. BufLen
<1> DEFINE R == {ss \in Nat \X Nat : ss[1] < ss[2]}
           S == {i \in 0 .. BufLen - 1 : uart_buf[i] = Nul}
<1>1. CASE S = {}
  BY <1>1 DEF Strlen
<1>2. CASE S # {}
  <2>1. IsWellFoundedOn(R, Nat)
    BY NatLessThanWellFounded DEF OpToRel
  <2>2. S \subseteq Nat
    OBVIOUS
  <2>3. PICK x \in S : \A y \in S : ~(<<y, x>> \in R)
    <3> HIDE DEF R, S
    <3> QED BY <1>2, <2>1, <2>2, WFMin
  <2>4. \A y \in S : ~(y < x)
    <3> SUFFICES ASSUME NEW y \in S PROVE ~(y < x)
      OBVIOUS
    <3>1. <<y, x>> \in Nat \X Nat /\ <<y, x>>[1] = y /\ <<y, x>>[2] = x
      BY <2>2
    <3> QED BY <2>3, <3>1
  <2>5. x \in 0 .. BufLen - 1 /\ uart_buf[x] = Nul /\ \A i \in 0 .. x - 1 : uart_buf[i] # Nul
    BY <2>4
  <2>6. Strlen \in 0 .. BufLen - 1
    BY <2>5 DEF Strlen
  <2> QED BY <2>6
<1> QED BY <1>1, <1>2

LEMMA InitInv == Init => ConsoleInv
<1> SUFFICES ASSUME Init PROVE ConsoleInv
  OBVIOUS
<1>1. DOMAIN uart_buf = 0 .. BufLen - 1
  BY DEF Init
<1>2. TypeOK
  <2>1. 0 \in 0 .. 2 * Half - 1 /\ 0 \in -Half .. Half - 1 /\ 0 \in 0 .. BufLen
    BY Constants
  <2>2. /\ {start, force_run, force_stop, breakpoint} \subseteq BOOLEAN
        /\ pending \in {"none", "start", "brk_pc"}
        /\ {asked, taken} \subseteq Steps \cup {0}
    BY DEF Init
  <2>3. /\ {brk_pc, new_step_cycles} \subseteq 0 .. 2 * Half - 1
        /\ copied \in 0 .. BufLen /\ len \in 0 .. BufLen
        /\ step_cycles \in -Half .. Half - 1
    BY <2>1 DEF Init
  <2>4. state \in 0 .. 1 /\ pc \in Pcs /\ allowed \in Nat \cup {-1}
    BY DEF Init
  <2> QED BY <1>1, <2>2, <2>3, <2>4 DEF TypeOK
<1>3. CountInv
  BY ToUintIs DEF Init, CountInv, Halting, Heard, Remaining
<1> QED BY <1>2, <1>3 DEF Init, ConsoleInv, CopyInv

\* What CountInv is about.
countVars == <<at, state, step_cycles, force_stop, new_step_cycles, asked, taken, allowed>>

LEMMA CountKept ==
    ASSUME CountInv, UNCHANGED countVars
    PROVE  CountInv'
<1>1. Halting' = Halting /\ Remaining' = Remaining
  BY DEF countVars, Halting, Heard, Remaining
<1> QED BY <1>1 DEF countVars, CountInv, Counted

\* A command changes what is in the page and, if it is a :stop that will be
\* heard, the cycles that may run.
LEMMA CommandStep ==
    ASSUME ConsoleInv, Command
    PROVE  ConsoleInv'
<1>1. TypeOK /\ CopyInv /\ CountInv
  BY DEF ConsoleInv
<1>2. UNCHANGED <<start, uart_buf, line, copied, at, state, step_cycles, pc, len>>
  BY DEF Command, simVars
<1>3. /\ UNCHANGED <<new_step_cycles, asked>>
      \/ /\ asked' \in Steps /\ new_step_cycles' = ToUint(asked')
         /\ UNCHANGED <<force_stop, taken, allowed>>
  BY DEF Command, budget
<1>4. asked' \in Steps \cup {0} /\ new_step_cycles' \in 0 .. 2 * Half - 1
      /\ new_step_cycles' = ToUint(asked')
  <2>1. CASE UNCHANGED <<new_step_cycles, asked>>
    BY <1>1, <2>1 DEF TypeOK, CountInv
  <2>2. CASE asked' \in Steps /\ new_step_cycles' = ToUint(asked')
    BY <2>2, Constants, ToUintIs
  <2> QED BY <1>3, <2>1, <2>2
<1>5. \/ UNCHANGED <<force_stop, taken, allowed>>
      \/ force_stop' /\ Heard /\ taken' = 0 /\ allowed' = IF at = "strlen" THEN 1 ELSE 0
      \/ force_stop' /\ ~Heard /\ UNCHANGED <<taken, allowed>>
  BY DEF Command, budget
<1>6. TypeOK'
  <2>1. taken' \in Steps \cup {0} /\ allowed' \in Nat \cup {-1}
    BY <1>1, <1>5 DEF TypeOK
  <2>2. /\ brk_pc' = brk_pc /\ pending' \in {"none", "start", "brk_pc"}
        /\ {force_run', force_stop', breakpoint'} \subseteq BOOLEAN
    BY <1>1 DEF Command, TypeOK
  <2> QED BY <1>1, <1>2, <1>4, <2>1, <2>2 DEF TypeOK
<1>7. CopyInv'
  BY <1>1, <1>2 DEF CopyInv, Cut
<1>8. CountInv'
  <2>1. Heard' = Heard /\ Remaining' = Remaining
    BY <1>2 DEF Heard, Remaining
  <2>2. CASE UNCHANGED <<force_stop, taken, allowed>>
    <3>1. Halting' = Halting
      BY <2>1, <2>2 DEF Halting
    <3> QED BY <1>1, <1>2, <1>4, <2>1, <2>2, <3>1 DEF CountInv, Counted
  <2>3. CASE force_stop' /\ Heard /\ taken' = 0 /\ allowed' = IF at = "strlen" THEN 1 ELSE 0
    <3>1. Halting'
      BY <2>1, <2>3 DEF Halting
    <3> QED BY <1>1, <1>2, <1>4, <2>3, <3>1 DEF CountInv
  <2>4. CASE force_stop' /\ ~Heard /\ UNCHANGED <<taken, allowed>>
    <3>1. ~Halting' /\ ~Halting
      BY <2>1, <2>4 DEF Halting
    <3> QED BY <1>1, <1>2, <1>4, <2>1, <2>4, <3>1 DEF CountInv, Counted
  <2> QED BY <1>5, <2>2, <2>3, <2>4
<1> QED BY <1>6, <1>7, <1>8 DEF ConsoleInv

LEMMA UiStep == ConsoleInv /\ Ui => ConsoleInv'
<1> SUFFICES ASSUME ConsoleInv, Ui PROVE ConsoleInv'
  OBVIOUS
<1> USE DEF ConsoleInv, sharedVars, simVars, history, budget
<1>1. CASE Command
  BY <1>1, CommandStep
<1>2. CASE SecondStore
  <2>1. brk_pc' \in 0 .. 2 * Half - 1
    BY <1>2, Constants, ToUintIs DEF SecondStore, TypeOK
  <2>2. TypeOK' /\ CopyInv'
    BY <1>2, <2>1 DEF SecondStore, TypeOK, CopyInv, Cut
  <2> QED BY <1>2, <2>2, CountKept DEF SecondStore, countVars
<1>3. CASE TakeLine
  <2>1. TypeOK' /\ CopyInv'
    BY <1>3, Constants DEF TakeLine, Types, TypeOK, CopyInv
  <2> QED BY <1>3, <2>1, CountKept DEF TakeLine, countVars
<1>4. CASE CopyChar
  <2>1. line \in Lines /\ copied \in Nat /\ copied <= Cut(line) /\ Cut(line) \in 0 .. BufLen
    BY <1>4, Constants DEF CopyChar, CopyInv, TypeOK
  <2>2. copied' \in 0 .. BufLen /\ (line' # << >> => line' = line /\ copied' <= Cut(line))
    BY <1>4, <2>1, Constants DEF CopyChar
  <2>3. DOMAIN uart_buf' = 0 .. BufLen - 1
    BY <1>4 DEF CopyChar, TypeOK
  <2>4. TypeOK' /\ CopyInv'
    BY <1>4, <2>1, <2>2, <2>3 DEF CopyChar, TypeOK, CopyInv
  <2> QED BY <1>4, <2>4, CountKept DEF CopyChar, countVars
<1> QED BY <1>1, <1>2, <1>3, <1>4 DEF Ui

\* The count that is loaded is the one typed, as far as an int can hold it.
LEMMA LoadStepsStep ==
    ASSUME ConsoleInv, LoadSteps
    PROVE  ConsoleInv'
<1>1. TypeOK /\ CopyInv /\ CountInv
  BY DEF ConsoleInv
<1>2. /\ at = "load_steps" /\ at' = "clear_steps"
      /\ step_cycles' = ToInt(new_step_cycles) /\ taken' = asked /\ allowed' = asked
      /\ UNCHANGED <<start, force_run, force_stop, breakpoint, brk_pc, new_step_cycles, uart_buf,
                     line, copied, pending, state, pc, len, asked>>
  BY DEF LoadSteps, sharedVars, uiVars
<1>3. asked \in Nat /\ new_step_cycles = ToUint(asked) /\ new_step_cycles \in 0 .. 2 * Half - 1
  <2>1. asked \in Steps \cup {0} /\ new_step_cycles \in 0 .. 2 * Half - 1
    BY <1>1 DEF TypeOK
  <2>2. Steps \subseteq Nat
    BY Constants
  <2>3. new_step_cycles = ToUint(asked)
    BY <1>1 DEF CountInv
  <2> QED BY <2>1, <2>2, <2>3
<1>4. step_cycles' \in -Half .. Half - 1 /\ (new_step_cycles < Half => step_cycles' = new_step_cycles)
  BY <1>2, <1>3, ToIntIs
<1>5. TypeOK' /\ CopyInv'
  BY <1>1, <1>2, <1>3, <1>4 DEF TypeOK, CopyInv, Cut
<1>6. Counted(taken)' => step_cycles' >= 0 /\ allowed' = Remaining' + (taken' - ToUint(taken'))
  <2> SUFFICES ASSUME ToUint(asked) < Half
               PROVE  step_cycles' >= 0 /\ allowed' = Remaining' + (taken' - ToUint(taken'))
    BY <1>2 DEF Counted
  <2>1. step_cycles' = ToUint(asked) /\ Remaining' = step_cycles'
    BY <1>2, <1>3, <1>4 DEF Remaining
  <2> HIDE DEF ToUint
  <2> QED BY <1>2, <1>3, <2>1
<1>7. CountInv'
  BY <1>1, <1>2, <1>6 DEF CountInv
<1> QED BY <1>5, <1>7 DEF ConsoleInv

\* next_cycle counts the cycle that is to run; a :stop that was heard ends
\* the command.
LEMMA DecideStep ==
    ASSUME ConsoleInv, Decide \/ Resume
    PROVE  ConsoleInv'
<1>1. TypeOK /\ CopyInv /\ CountInv
  BY DEF ConsoleInv
<1>2. /\ at \in {"decide", "resume"} /\ at' \in {"resume", "clear_run"} /\ state \in 0 .. 1
      /\ UNCHANGED <<start, force_run, force_stop, breakpoint, brk_pc, new_step_cycles, uart_buf,
                     line, copied, pending, pc, len, asked>>
  <2>1. CASE Decide
    BY <1>1, <2>1 DEF Decide, sharedVars, uiVars, TypeOK
  <2>2. CASE Resume
    BY <1>1, <2>2 DEF Resume, sharedVars, uiVars, history, TypeOK
  <2> QED BY <2>1, <2>2
<1>3. ~Halting'
  BY <1>2 DEF Halting, Heard
<1>4. step_cycles \in Int /\ Half \in Nat \ {0} /\ step_cycles \in -Half .. Half - 1
  BY <1>1, Constants DEF TypeOK
<1> DEFINE Carried(s, n, t, a, r) ==
              /\ s \in 0 .. 1 /\ n \in -Half .. Half - 1
              /\ t \in Steps \cup {0} /\ a \in Nat \cup {-1}
              /\ Counted(t) => \/ t = 0 /\ n = -1 /\ a = -1
                               \/ n >= 0 /\ a = r + (t - ToUint(t))
<1>5. Remaining' = IF at' = "clear_run" /\ state' = 1 THEN step_cycles' + 1 ELSE step_cycles'
  BY <1>2 DEF Remaining
<1>6. Carried(state', step_cycles', taken', allowed', Remaining')
  <2>1. CASE Decide /\ state = 0 /\ force_run
    BY <1>4, <2>1 DEF Decide
  <2>2. CASE Decide /\ state = 1 /\ force_stop
    BY <1>4, <1>5, <2>2, ToUintIs DEF Decide
  <2>3. CASE Decide /\ state = 1 /\ ~force_stop
    <3>1. ~Halting /\ Remaining = step_cycles
      BY <1>2, <2>3 DEF Halting, Heard, Remaining, Decide
    <3>2. Carried(state, step_cycles, taken, allowed, step_cycles)
      BY <1>1, <1>2, <3>1 DEF CountInv, TypeOK
    <3>3. at' = "resume" /\ UNCHANGED <<state, step_cycles, taken, allowed>>
      BY <2>3 DEF Decide, budget
    <3>4. Remaining' = step_cycles
      BY <1>5, <3>3
    <3> QED BY <3>2, <3>3, <3>4
  <2>4. CASE Resume \/ (Decide /\ state = 0 /\ ~force_run)
    <3>1. ~Halting /\ Remaining = step_cycles
      BY <1>2, <2>4 DEF Halting, Heard, Remaining, Resume
    <3>2. Carried(state, step_cycles, taken, allowed, step_cycles)
      BY <1>1, <1>2, <3>1 DEF CountInv, TypeOK
    <3>3. /\ state' \in 0 .. 1 /\ UNCHANGED <<taken, allowed>>
          /\ step_cycles' = IF step_cycles > 0 THEN step_cycles - state' ELSE step_cycles
          /\ state' = 1 => step_cycles # 0
          /\ at' = "clear_run"
      BY <2>4 DEF Decide, Resume, Count, budget, history
    <3>4. /\ step_cycles' \in -Half .. Half - 1
          /\ step_cycles >= 0 => step_cycles' >= 0 /\ Remaining' = step_cycles
          /\ step_cycles = -1 => step_cycles' = -1
      <4>1. CASE state' = 0
        <5>1. step_cycles' = step_cycles /\ Remaining' = step_cycles
          BY <1>4, <1>5, <3>3, <4>1
        <5> QED BY <1>4, <5>1
      <4>2. CASE state' = 1 /\ step_cycles > 0
        <5>1. step_cycles' = step_cycles - 1
          BY <3>3, <4>2
        <5>2. Remaining' = step_cycles' + 1
          BY <1>5, <3>3, <4>2
        <5> QED BY <1>4, <4>2, <5>1, <5>2
      <4>3. CASE state' = 1 /\ ~(step_cycles > 0)
        <5>1. step_cycles' = step_cycles /\ step_cycles # 0
          BY <3>3, <4>3
        <5> QED BY <1>4, <4>3, <5>1
      <4> QED BY <3>3, <4>1, <4>2, <4>3
    <3> HIDE DEF Counted
    <3> QED BY <3>2, <3>3, <3>4
  <2> QED BY <1>2, <2>1, <2>2, <2>3, <2>4
<1>7. TypeOK' /\ CopyInv'
  BY <1>1, <1>2, <1>6 DEF TypeOK, CopyInv, Cut
<1>8. CountInv'
  BY <1>1, <1>2, <1>3, <1>6 DEF CountInv, Counted
<1> QED BY <1>7, <1>8 DEF ConsoleInv

\* The cycle that next_cycle counted runs.
LEMMA CycleStep ==
    ASSUME ConsoleInv, Cycle
    PROVE  ConsoleInv'
<1>1. TypeOK /\ CopyInv /\ CountInv
  BY DEF ConsoleInv
<1>2. /\ at = "strlen" /\ at' \in {"load", "input"} /\ state = 1
      /\ at' = "input" => len' # 0
      /\ len' = Strlen /\ pc' \in Pcs
      /\ allowed' = IF allowed > 0 THEN allowed - 1 ELSE allowed
      /\ UNCHANGED <<start, force_run, force_stop, breakpoint, brk_pc, new_step_cycles, uart_buf,
                     line, copied, pending, state, step_cycles, asked, taken>>
  BY <1>1 DEF Cycle, sharedVars, uiVars, CountInv
<1>3. len' \in 0 .. BufLen
  BY <1>2, StrlenType, Constants
<1>4. TypeOK' /\ CopyInv'
  BY <1>1, <1>2, <1>3, Constants DEF TypeOK, CopyInv, Cut
<1>5. Halting' = Halting /\ Remaining = step_cycles + 1 /\ Remaining' = step_cycles
  BY <1>2 DEF Halting, Heard, Remaining
<1>6. ASSUME ~Halting, Counted(taken)
      PROVE  \/ taken = 0 /\ step_cycles = -1 /\ allowed' = -1
             \/ step_cycles >= 0 /\ allowed' = step_cycles + (taken - ToUint(taken))
  <2>1. CASE taken = 0 /\ step_cycles = -1 /\ allowed = -1
    BY <1>2, <2>1
  <2>2. CASE step_cycles >= 0 /\ allowed = Remaining + (taken - ToUint(taken))
    <3>1. taken \in Nat /\ ToUint(taken) \in Nat /\ ToUint(taken) <= taken
      BY <1>1, TakenIs
    <3>2. step_cycles \in Nat
      BY <1>1, <2>2, Constants DEF TypeOK
    <3> HIDE DEF ToUint
    <3> QED BY <1>2, <1>5, <2>2, <3>1, <3>2
  <2> QED BY <1>1, <1>6, <2>1, <2>2 DEF CountInv
<1>7. CountInv'
  BY <1>1, <1>2, <1>5, <1>6 DEF CountInv, Counted
<1> QED BY <1>4, <1>7 DEF ConsoleInv

LEMMA SimStep == ConsoleInv /\ Sim => ConsoleInv'
<1> SUFFICES ASSUME ConsoleInv, Sim PROVE ConsoleInv'
  OBVIOUS
<1> USE DEF ConsoleInv, sharedVars, uiVars, history, budget
<1>1. CASE WaitForStart
  BY <1>1 DEF WaitForStart, TypeOK, CopyInv, CountInv, Counted, Halting, Heard, Remaining
<1>2. CASE TestSteps
  BY <1>2 DEF TestSteps, TypeOK, CopyInv, CountInv, Counted, Halting, Heard, Remaining
<1>3. CASE ClearSteps
  BY <1>3, ToUintIs, Constants DEF ClearSteps, Shared, TypeOK, CopyInv, CountInv, Counted,
                                   Halting, Heard, Remaining
<1>4. CASE ClearRun
  BY <1>4 DEF ClearRun, Shared, TypeOK, CopyInv, CountInv, Counted, Halting, Heard, Remaining
<1>5. CASE ClearStop
  BY <1>5 DEF ClearStop, Shared, TypeOK, CopyInv, CountInv, Counted, Halting, Heard, Remaining
<1>6. CASE KeyboardInput
  BY <1>6 DEF KeyboardInput, TypeOK, CopyInv, CountInv, Counted, Halting, Heard, Remaining
<1>7. CASE ClearChar
  BY <1>7, Constants DEF ClearChar, TypeOK, CopyInv, CountInv, Counted, Halting, Heard, Remaining
<1> QED BY <1>1, <1>2, <1>3, <1>4, <1>5, <1>6, <1>7, LoadStepsStep, DecideStep, CycleStep DEF Sim

\* Copying stays within uart_buf, and the int that counts is what the :step
\* taken leaves to run, less what narrowing it took, in every interleaving of
\* console and simulator.
THEOREM ConsoleInvariant == Spec => []ConsoleInv
<1>1. ConsoleInv /\ UNCHANGED vars => ConsoleInv'
  <2> SUFFICES ASSUME ConsoleInv, UNCHANGED vars PROVE ConsoleInv'
    OBVIOUS
  <2>1. TypeOK' /\ CopyInv' /\ UNCHANGED countVars
    BY DEF vars, sharedVars, uiVars, simVars, history, budget, countVars, ConsoleInv, TypeOK,
           CopyInv, Cut
  <2> QED BY <2>1, CountKept DEF ConsoleInv
<1> QED BY <1>1, InitInv, UiStep, SimStep, PTL DEF Spec, Next

\* A :step that an int can count runs no more cycles than were typed, and
\* after a :stop that is heard only the cycle that is due runs.
THEOREM StepNeverOverrunsAlways == Spec => []StepNeverOverruns
<1>1. ConsoleInv => StepNeverOverruns
  <2> SUFFICES ASSUME ConsoleInv, at = "strlen", Counted(taken) PROVE allowed # 0
    BY DEF StepNeverOverruns
  <2>1. CASE Halting
    BY <2>1 DEF ConsoleInv, CountInv
  <2>2. CASE ~Halting
    <3>1. Remaining = step_cycles + 1
      BY DEF ConsoleInv, CountInv, Remaining
    <3>2. taken \in Nat /\ ToUint(taken) \in Nat /\ ToUint(taken) <= taken /\ step_cycles \in Int
      BY TakenIs, Constants DEF ConsoleInv, TypeOK
    <3>3. \/ allowed = -1
          \/ step_cycles >= 0 /\ allowed = Remaining + (taken - ToUint(taken))
      BY <2>2 DEF ConsoleInv, CountInv
    <3> QED BY <3>1, <3>2, <3>3
  <2> QED BY <2>1, <2>2
<1> QED BY <1>1, ConsoleInvariant, PTL
=============================================================================
