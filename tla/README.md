# Turtle RV32 in TLA+

Turtle RV32 (`src/readme.md`) is a SystemC model of a pipelined RV32IMAC
processor with M, S and U modes, Sv32 translation, PMP, a CLINT, a PLIC and a
UART, together with the test benches that boot Linux on it and run the
architecture tests. This directory holds a formal model of it: TLA+ modules
written from the source, TLC configurations that check them on small
instances, and TLAPS proofs that hold for every instance.

`PROJECT.json` is the index: components, runs, hazards, the map from each
definition to the lines it models, findings and theorems.

## 1. The system

### Parts, state, operations

| Part | Source | State it keeps | Operations | Correct when |
|---|---|---|---|---|
| Prefetcher | `prefetch.hpp` | `fetch_pc` | `next_pc_seq` | after a redirect the target is asked for |
| Fetch buffer | `fetch.hpp` | 64 bits, two fault masks, `buffer_idx`, `buffer_addr`, `if_id_*` | `get_inst_seq`, `fifo_state_comb` | what is offered to decode is the program and its faults |
| Decoder | `decode.hpp`, `instr_cfg.hpp` | `id_ex` | `inst_decode_seq`, `decode`, `decompress` | the wrong path is discarded, operands are current |
| Register file, multiplier | `regfile.hpp`, `mext.hpp` | 32 registers; one result | `write_seq`, `mext_seq` | |
| EXEC | `exec.hpp` | pc, CSRs, privilege, writeback latch | `exec_comb`, `exec_seq`, `writeback_seq`, `trap`, `return_from_trap`, `check_interrupt` | instructions take effect once, in order; traps are precise and undone by returns |
| MMU | `mmu.hpp` | two walkers, latched context | `imem_req_seq`, `imem_rsp_comb`, `dmem_req_seq`, `dmem_rsp_comb` | no translation crosses a change of context; an answer goes to whoever asked; pages and faults are those of the page tables |
| TLB | `tlb.hpp` | 32 entries in order of use, shared by both walkers | `find`, `store`, `flush` | no entry from before the last fence is used |
| PMP | `pmp.hpp` | 64 addresses and configurations, the list of entries in use | `dcheck`, `icheck`, `update_addr`, `update_config` | nothing forbidden is let through; locks hold |
| Memory and bus | `memory.hpp` | RAM, reservations, `din` | `inst_fetch`, `mem_access`, `update_memory` | a load takes effect at once, a store at the next edge; an SC succeeds only if its word was left alone |
| UART | `memory.hpp` | receive ring, `thri`, `ier`, `iir`, `lcr` | `keyboard_input`, `read`, `write`, `uart_irq` | input is a queue; no interrupt is lost |
| PLIC | `memory.hpp` | priority, thresholds, enables, `claim_mask`, claim and completion of each context | `update`, `read`, `write` | a claim is exclusive and masks its source until completed |
| CLINT | `memory.hpp`, `tb.hpp` | `mtime`, `mtimecmp` | `read`, `write` | |
| Test bench | `tb.hpp` | `TB_State` | `clock`, `next_cycle`, `plat_update` | exactly the cycles asked for are run |
| Console | `utils.hpp` | `SharedState`, a page shared by two processes | `run_ui_console` | commands and lines arrive |

### How they interact

The processor is a set of SystemC processes that communicate through signals:
a process writes values that the others see only after the current evaluation.
Within a clock cycle processes run at four points. At the rising edge every
`*_seq` process runs, each on the signals as they were before the edge; one
nanosecond later the two MMU answers are formed; at the falling edge
`exec_comb` decides what the instruction in EXEC does and raises `stall`,
`flush` and `branch_taken`; one nanosecond later `fifo_state_comb` tells the
prefetcher whether the buffer will take the fetched word. `update_memory` and
`plat_update` run at the rising edge too; as they touch the devices directly
and not through signals, their order, which SystemC leaves open, matters.
The console is another process (`fork`) that shares one page of memory with
the simulator; nothing orders the accesses of the two.

### What is hard

* The prefetcher runs ahead and nobody tells the buffer that a branch made its
  contents wrong: wrong-path instructions are recognised by their address.
* Decisions are made twice, half a cycle apart (`fifo_state_comb` and
  `get_inst_seq`; `trap_pc` and `trap`), and must agree.
* Interrupts arrive in any cycle, also while EXEC waits for a multiplication,
  a data access or in a WFI; flushes abandon walks that are under way.
* Claims and completions of the PLIC are four byte accesses each, seen before
  or after `update` of the same edge, from two privilege modes.
* Both walkers fill one TLB while stores change the tables under them; a walk
  cut off by a fence must not put what it read before the fence into the TLB.
* PMP registers are written four configurations at a time, some of them locked,
  and a locked range takes one end from a neighbour that is not locked.
* Console and simulator race on every field of the shared page.

`hazards` in `PROJECT.json` lists these by line, with the properties that
cover them.

## 2. Modules

| Module | Models |
|---|---|
| `CodeImage` | memory as the fetch side sees it: parcels, address arithmetic, faults |
| `FetchBuffer` | `get_inst_seq` and `fifo_state_comb` |
| `FetchBufferEnv` | the buffer with the most general IMMU and EXEC |
| `Instructions` | the instruction classes EXEC tells apart, and `decode`/`decompress` as far as they determine class, operands and length |
| `Isa` | abstract: one instruction at a time |
| `Pipeline` | all of `cpu.hpp`: prefetch, buffer, decode, EXEC, multiplier, register file, both MMU state machines, one data word; shown to implement `Isa` |
| `Traps` | `trap_pc`, `trap`, `return_from_trap`, `check_interrupt`, `get_mip` and the CSR writes they depend on |
| `Uart`, `Plic` | the two devices, an operator per register access |
| `InputQueue` | abstract: a bounded queue of characters |
| `Platform` | UART, PLIC, bus, `plat_update` and interrupt handlers of two contexts; shown to implement `InputQueue` |
| `PageTables` | Sv32 page numbers, entries and accesses |
| `Tlb` | `find`, `store` and `flush` as operators on the table |
| `Sv32` | abstract: what translation promises software, with any caching the architecture allows |
| `Translation` | both walkers over TLB and page tables, with software that stores entries, switches `satp` and fences; shown to implement `Sv32` |
| `Pmp` | `pmp.hpp`, the CSR writes that reach it and the check at the end of both request processes |
| `DataPort` | RAM with byte lanes and reservations: LR, SC, AMOADD, under two threads that are switched |
| `Console` | `run_ui_console`, `next_cycle`, `clock` and the console part of `plat_update`, one shared access a step |
| `MC*` | instances for TLC |
| `FetchBufferLemmas`, `*Proofs` | theorems |

Operators named `Slip...` are deliberately wrong variants of the definition
that follows them (a dropped guard, an off-by-one, a missing reset). They are
used nowhere in a specification; substituted for the definition, each makes
TLC report the property that `mutants` pairs it with, which shows that the
property can fail.

### Correspondence

*Addresses* count 16-bit parcels. `Plus` is addition on the 32-bit address,
modulo `AddrSpace`. A parcel is a member of `Parcel`; those in `LongParcel`
have low bits `11`. `Images` are the possible contents of memory as fetched
under one context (`satp`, privilege, PMP): a change of context is a change of
image, which is all the fetch side can see of it. An image says at which words
a fetch page-faults or is denied.

*FetchBuffer.* The 64 bits and the two masks are four lanes (`buffer`), each a
parcel and two fault bits. `OrWord` is the code's `|=`: or-ing into a lane that
is not clear yields `Garbled`, so a missed shift shows. The branches of
`get_inst_seq` are the actions `ClearBuffer`, `Reload`, `PopAndAppend`,
`PopOnly`, `AppendOnly` and `HoldBuffer`; `Accept` is `fifo_state_comb`.

*Pipeline.* One action per point of the cycle: `PosEdge`, `RspComb`,
`ExecComb`, `FifoComb`. `PosEdge` is the conjunction of all `*_seq` processes,
each named after its function, over unprimed signals. Variables keep the
code's names; bundles of signals are records (`ex`, `wb`, `ex_to_dmmu`, ...).
Arithmetic is one representative per class: `alu` adds an immediate, `mul`
doubles through the multiplier, `amo` is a fetch-and-add on the one data word
and stands for every use of the data port, `ctx` stands for SFENCE.VMA,
FENCE.I and a write of `satp` or a PMP register, `eret` for MRET and SRET. How
many levels a walk takes, whether a data access faults, and when an interrupt
is pending are nondeterministic. The trap CSRs are `epc`, `eimage` (the
context to return to) and `ie`. Registers start as 0; the code's start value
of x11, the address of the device tree, is data no property depends on.

*Traps.* `Comb` is `exec_comb` and `trap_pc`, `Seq` is `exec_seq`, `trap` and
`return_from_trap`; device lines change at any rising edge. Sets stand for bit
masks, `Masked` for `csr_mask` and `csr_wdata`. `frame` is a history variable:
what the last trap into M and into S interrupted, until something else writes
`mstatus`.

*Platform.* `todo` holds the processes that have yet to run at the current
edge, so that both orders occur. `din` is the store on the bus; `busy` is the
cycle in which the data port answers. `Handle` and `Background` are software,
which is not part of the repository: a handler claims, reads IIR, LSR and RBR
until nothing is left, sends, completes and claims again, which is how the
drivers of the booted kernel and firmware use these registers. The counting of
`mtime` in `plat_update` is left out here.

*Translation.* `walker` holds for each side `i_state` or `d_state` and the
registers that go with it; `pte` is the word memory has answered and the walker
has yet to look at. `Start` is the idle state with its TLB lookup, `WalkFirst`
and `WalkSecond` are states 1 and 2, `Done` is the end of a data access, and
`GiveUp` is what both sides do on `flush`. The data side's conditions and the
instruction side's differ (`DDenied`, `IDenied`) and are kept as they are; so
is that a fault sends one side to state 0 and leaves the other where it was.
Software changes tables only while the data side is idle, because EXEC waits
for a data access. `seen`, a history variable, holds the entries each place of
a page table has had since the last full fence: `Sv32` allows a translation to
be made of any of them, and of nothing older. A denied read of a page table
(PMP) is among what `Flush` stands for. The 32-bit data of an entry is a set of
flags and a page number.

*Tlb.* After a miss `find` returns an entry whose `pte` was never assigned, and
the walkers test that `pte`. `ResiduePte` is what is read there. In the build
that `CMakeLists.txt` gives, which does not optimise, this is the low half of an
aligned pointer that was on the stack, so its valid bit is clear
(`TlbAssumption`); the mutant of `RefinesSv32` shows that translation is wrong
when it is not.

*Pmp.* A configuration is lock, mode and rights; `InEntry` says which bytes an
entry covers, for `dcheck` and `icheck` alike. `pmpentry_id` is kept by
insertion and removal as in the code. `sealed` is a history variable: the bytes
that M software has once locked against writing, behind locked entries only.

*DataPort.* An access is one step: the port takes one request at a time, and
nobody else writes RAM. `Reserve`, `Commit`, `Bump` and `Switch` are software,
which is not part of the repository: threads that count in a shared word, and a
system that executes an SC of its own when it switches between them.

*Console.* An action is one access to the shared page, or a few that are as if
made at one instant. `Strlen` is as if made when the terminator is found: only
the simulator clears places. `Resume` reads `breakpoint` and then `brk_pc`, which
the console changes one at a time; `ClearRun` and `ClearStop` test a flag that
only they clear. `KeyboardInput` takes a text at once; while a line is copied
over the rest of an earlier one, the code may take a mixture of both, which is
one more way in which `LinesArrive` fails and which no other property looks at.
A long line is copied up to the end of `uart_buf`, and the newline then takes
the place of its last character, as in the code.

The argument of a command is typed as an `unsigned long long`, stored as a
`uint32_t` (`ToUint`) and, if it is a count, loaded into the `int step_cycles`
(`ToInt`), after a test and before a clearing that are accesses of their own
(`TestSteps`, `LoadSteps`, `ClearSteps`). `Half` is 2^31. `accepted`,
`delivered`, `asked`, `taken` and `allowed` are history variables: `asked` is
the argument of the `:step` in the page and `taken` that of the `:step` being
counted, both as typed, and `allowed` the cycles that the user's commands leave
to run. A `:stop` sets `allowed` when it is typed, if it is `Heard`: the machine
runs and `next_cycle` is not between its test of `force_stop` and the reset.

## 3. What is checked

Passing runs (distinct states):

| Run | States | Properties |
|---|---|---|
| `FetchBuffer` | 41 120 | `BufferMirrorsImage`: valid parcels are memory, in order, without a gap. `OfferIsProgram`: instruction, fault and fault address offered are those of memory. `AcceptedIsStored`: the two processes agree about every word. `EnvInv`, `FetchTypeOK`. |
| `Pipeline` | 474 698 | `RefinesIsa`: the processor implements the sequential machine. `Progress`: it never hangs. `PrecisePc`, `StallExcludesFlush`, `AnswerMatchesRequest`, `FetchSeesContext`, `NoAnswerWhileDraining`: the agreements between stages on which that rests. `WaitIsServed`: what EXEC waits for is on its way. `IsaInv`: the inductive invariant of the refinement. `TypeOK`. |
| `Traps` | 737 386 | `VectorMatchesMode`: the two delegation decisions agree. `HandlerNotReentered`: no interrupt for a handler's own mode before it saved its state. `SretRestores`: SRET undoes the trap into S, whatever traps into M came in between. `MprvOnlyInM`, `TrapsInv`, `TypeOK`. |
| `Platform` | 191 460 | `ClaimExclusive`, `MaskFollowsClaim`, `HandlerHoldsClaim`; `RefinesQueue`: nothing typed is reordered, repeated or overwritten; `InputSignalled`: `plat_update` interrupts a context while there is input and someone listens; `InputRead`: what is typed is read; `HandlersEnd`: handlers end; `TypeOK`. |
| `Console` | 613 012 | `StepNeverOverruns`: a `:step` whose count an `int` can hold runs no more cycles than were typed, and after a `:stop` that is heard only the cycle that is due runs, whatever was typed before and in between. `LinesTakenAgain`: the line buffer becomes free again, even after lines ran into each other. `ConsoleInv`: its inductive invariant, with the bounds of every access to the buffer and what `step_cycles` counts. |
| `Translation` | 452 618 | `RefinesSv32`: every access is granted a page, or refused, as entries say that memory has held since the last full fence. `NoStaleEntry`: so is every entry of the TLB, for every page it answers for. `TransInv`. |
| `Protection` | 20 736 | `GrantedIsAllowed`: the check on first and last byte lets through nothing that the byte-by-byte rule of the architecture forbids. `SealedNotWritten`, `LockedRangeFixed`: locks hold against any later sequence of writes. `IdsMatch`: the list of entries in use is exact. `PmpInv`. |

Runs that TLC refutes, each a disagreement between the code and what the
repository says of it (`findings` has the quotations):

* `PipelineSkip`, `Progress`: a jump over data, to the exact end of what the
  buffer holds, hangs the processor until an interrupt flushes it, if the last
  parcel jumped over has low bits `11`. The target is appended behind that
  parcel and its first half taken for the second half of the discarded
  instruction; from then on every offer is at an address other than `npc`.
  The timer interrupts of the fairness assumption do not help the program of
  this run, which has interrupts off.
* `TrapsMret`, `MretRestores`: a trap into M ors the interrupted mode into MPP;
  when MPP was not clear, MRET returns to a higher mode than was interrupted.
* `ConsoleLines`, `LinesArrive`: the simulator takes a line that is half
  copied, and the rest arrives with a later line or not at all.
* `TranslationFence`, `PageFenceWorks`: SFENCE.VMA of one address hands the
  address to `flush`, which compares it with page numbers: the entry stays.
* `DataPortSc`, `NoLostUpdate`: a failing SC leaves reservations standing, so
  that a thread's SC succeeds after another thread has changed the word and
  reserved it again; the other's increment is lost.

### Deviations without a run

Met while modelling; the model does what the code does, and the abstract
specifications are stated so that they allow it.

* `minstret` also counts cycles in which EXEC holds a bubble (`exec.hpp:1038`).
* `mcycle` and `minstret` are written by a CSR access that is trapped
  (`exec.hpp:1120`).
* A `:stop` stored between `next_cycle`'s test of `force_stop` and its reset
  (`tb.hpp:76`, `tb.hpp:97`), or after a `:r` or `:c` that the simulator has yet
  to see, has no effect: `next_cycle` resets `force_stop` also in state 0, where
  it does not test it. `tests/run_linux.md:104` says `:stop` is "to stop running".
  `Heard` is the condition under which it does.
* A `:step` of 2^31 or more, below 2^32, becomes a negative `step_cycles`
  (`utils.hpp:112`, `tb.hpp:51`), which is never 0 (`tb.hpp:83`) and never
  counted down (`tb.hpp:90`): typed while the machine runs, it never ends, and
  typed while it stands, it does nothing. Larger arguments count modulo 2^32,
  and a multiple of that is ignored. `tests/run_linux.md:105` says `:step` is "to
  run num_cycles times". `Counted` is the condition under which the count is not
  negative, and `StepNeverOverruns` is stated under it.
* A page number in an entry is cut to 20 of Sv32's 22 bits (`mmu.hpp:229`,
  `mmu.hpp:314`, `mmu.hpp:522`), and the root's is shifted in 32 bits
  (`mmu.hpp:207`), so pages above 4 GiB are taken for pages below. `Page` stands
  for what is left, in `Translation` and in `Sv32` alike: `RefinesSv32` does not
  see the difference.
* A TLB miss leaves the value that the walkers test indeterminate in the source
  (`tlb.hpp`, `find`); `TlbAssumption` takes what the build makes of it, and
  nothing is shown for a build that reads a set valid bit there.
* A read of IIR resets `thri` even when it reported received data
  (`memory.hpp:244`): a driver that waits for the transmitter's interrupt alone
  may lose it. The drivers of `Platform` look at LSR as well.
* MXR looks at the W bit of an entry and never lets X do for R; a comment at
  `mmu.hpp:12` says it is to be done. LR is refused where the entry's D bit is
  clear. A pointer entry with G set faults.
* The tag of an address space is nine bits: seven of the ASID and two of the
  root's page number. ASIDs that differ above these bits share entries, and
  SFENCE.VMA with an ASID compares the ASID itself with that tag.
* M is also held to a locked PMP entry behind an unlocked one that matches, and
  a load is checked as four bytes whatever its size, so that a byte or half-word
  load in the last bytes of a range is refused: both refuse more than the
  architecture does.
* A store that does not touch a word's first byte leaves the reservation that
  SC tests.

### Bounds

* `FetchBuffer`: 8 parcels, 4 words, in every address position, over images
  that mix short and long parcels and faulting words. The buffer holds 4
  parcels, so 8 addresses let it wrap and be reloaded disjointly.
* `Pipeline`: programs of 12 parcels, 3 registers, six boot contexts
  (`MCPipeline` says what each is for: forwarding, data accesses and
  multiplications, context changes in straight-line code, page faults and
  access faults in the second half of an instruction). Every program runs with
  any schedule of walks, data faults and interrupts, without a bound on time.
  The state space is closed: values are modulo 12.
* `Traps`: a machine timer interrupt, a delegable software interrupt, one
  exception and the three ECALLs; `mstatus` values as in `MCTraps`. Two
  interrupts are what it takes for one to preempt the other's handler.
* `Platform`: a ring of 3 slots (`BufSize`), so that a line of two fills it and
  one of three is cut; 2 lines typed (`MaxTyped`), one character to send
  (`MaxSend`). Two lines make the indices wrap and let input arrive while
  earlier input is being handled.
* `Console`: a buffer of 4 places (`BufLen`), lines that leave room, fill it
  and overflow it; words of three bits (`Half` is 4) and counts of 2, 5 and 8,
  of which one is kept, one becomes negative and one becomes zero; 4 inputs (`MaxInput`): two are needed to start the machine
  and give it work, two more to collide. The user may stop typing and the
  machine may wait for a command for ever, so deadlock is not an error in
  these two runs; it is in all others.
* `Translation`: page tables of two entries, two address spaces that share a
  second-level table, a TLB of three slots, so that `store` finds its place by
  address space, by page, by an invalid slot, or shifts all of them. Entries
  are clean, dirty, global, executable, a pointer, an aligned and a misaligned
  megapage; accesses are of every kind and from both modes. The space is
  closed: software may store, switch and fence for ever.
* `Protection`: four entries in two registers, with all four modes, locked and
  not, over four words; accesses of one and four bytes at and across the ends
  of ranges. A locked top-of-range entry needs the entry below it, in the same
  register or the other; both occur.
* `DataPortSc`: bytes of one bit, two threads, four increments (`MaxCount`).

### Fairness

* `Pipeline`: `WF(Next)`, the simulator advances the clock;
  `SF(PosEdge /\ irq')`, the timer keeps raising interrupts, on which a WFI
  relies. Nothing is assumed about interrupts being enabled. Walks need no
  assumption: they have at most two levels.
* `Platform`: `WF(Next)` as above; `SF` of taking a trap: EXEC takes a pending
  enabled interrupt as soon as it can; `SF` of switching interrupts back on:
  software does not keep them off for ever.
* `Console`: `WF(Sim)`, the simulator loop never blocks; `WF` of the console
  finishing the copy or the pair of stores it is in, which involves no input.
  Typing is not fair.

## 4. What is proved

TLAPS checks these for every value of the constants that meets the named
assumptions.

* `FetchBufferProofs`: `EnvInv` is inductive; from it `BufferCorrect`
  (`BufferMirrorsImage`), `OfferIsProgramAlways`, `AcceptedIsStoredAlways`,
  `FetchTypeAlways`.
  The buffer mirroring memory is not inductive by itself. It takes that the
  lanes above `buffer_idx` are clear (or `|=` would mix), that the buffer ends
  on a word boundary (or the next word would not fit its end), and that an
  instruction on offer is complete (or popping would take more than there
  is). `FetchBufferLemmas` shows for each of the six branches that it preserves
  the four together, and is used again for the pipeline.
* `PipelineProofs`: `PipeInv` is inductive; from it `PreciseAlways`,
  `StallExcludesFlushAlways`, `AnswerMatchesRequestAlways`,
  `FetchSeesContextAlways`, `NoAnswerWhileDrainingAlways`, `TypeAlways` and
  `PipelineOffersProgram`. The last shows that
  the real IMMU and EXEC meet what `FetchBufferEnv` assumes of them. The
  strengthening is `FlowInv` (a stalled instruction stays; what changes the
  context flushes), `AccessInv` (the DMMU works only for the access in EXEC,
  which has waited since it asked) and `ImmuInv` (a flush leaves the IMMU idle;
  the fault it reports is that of its address and context).
  `PipelineImplementsIsa` is the refinement `RefinesIsa`. It needs, on top of
  `PipeInv`, four facts (`ArchInv`; the two together are `IsaInv`, and
  `IsaInvariant` is the theorem): `InstructionInv` (`id_ex` is the program's
  instruction at `ex_pc`, with the operand that `ArchRegs`, the register file
  as the writeback stage will leave it, holds), `OutputsInv` (what EXEC put
  out at the falling edge still follows from its inputs at the rising one),
  `WordInv` (an access that memory is about to apply is that of the
  instruction in EXEC, and its answer is what the word holds until then) and
  `ProductInv` (a product is that of the multiplication in EXEC). With them,
  one lemma for each kind of rising edge (trap, return, computation, data
  access, jump, change of context, bubble, stall) maps it to the action of
  `Isa` of that name or to a stutter; the other three points of the cycle
  change nothing that `Isa` sees. `WaitIsServedAlways` follows from `IsaInv`:
  the edge at which EXEC begins to wait carries its request, and a walk goes
  on until it ends in an access or a fault. It is the part of `Progress` that
  is a safety property.
* `TrapsProofs`: `TrapsInv` is inductive; from it `MprvOnlyInMAlways`,
  `VectorMatchesModeAlways`, `SretRestoresAlways`, `HandlerNotReenteredAlways`,
  `TypeAlways`.
  `FrameInv` says that a trap not yet undone is still described by `mstatus`;
  `DecInv` that the decision of the falling edge still stands at the rising
  edge.
* `PlatformProofs`: `PlatformInv` is inductive; from it
  `ClaimExclusiveAlways`, `MaskFollowsClaimAlways`, `HandlerHoldsClaimAlways`.
  `BusInv` carries the argument: a request occupies the data port until the
  edge after the next, so `plat_update` runs between any two requests and the
  lines a claim reads are up to date. `InputSignalledAlways` follows: an
  unmasked source interrupts who listens, a masked one is claimed and the
  claim holds its line.
  `UartInv` is inductive on top of `PlatformInv` and gives `TypeAlways`. It
  takes `LatchInv` (the divisor latch is open only while the kernel has
  interrupts off, so no handler reads the divisor for a character) and
  `StoreInv` (the store on the bus fits its register). `RingImplementsQueue`
  is the refinement `RefinesQueue`: lemmas on indices modulo the size of the
  ring show that a line put in extends the queue by the part of it that fits,
  whether or not it wraps, and that reading RBR takes the oldest character.
* `ConsoleProofs`: `ConsoleInv` is inductive; from it
  `StepNeverOverrunsAlways`. `CountInv` carries the argument: the page holds
  what `ToUint` makes of the count typed, and as long as `ToInt` does not turn
  that negative, `step_cycles` is what the `:step` leaves to run less what
  `ToUint` took from it, between the accesses of `next_cycle` too, until a
  `:stop` is heard. Both theorems hold for every argument a user may type, those
  that an `int` cannot hold included: of these `ConsoleInv` gives the type only.
* `TranslationProofs`: `TransInv` is inductive; from it `NoStaleEntryHolds` and
  `ImplementsSv32`, the refinement step by step. That the TLB holds nothing
  stale needs `WalkInv`: a walk under way belongs to the current `satp`, and
  what it has read was in memory since the last fence, which is why both sides
  must give up on a flush. One lemma for each TLB operation says which entries
  it leaves.
* `PmpProofs`: `PmpInv` is inductive (`InvHolds`); from it `IdsMatchHolds`,
  `SealedNotWrittenHolds`, `LockedRangeFixedHolds` and `GrantedIsAllowedHolds`.
  The last rests on alignment: an aligned access stays within a word and a
  range holds all bytes of a word or none, so first and last byte speak for the
  others. `SealedNotWritten` is not inductive: it takes that every sealed byte
  still has a locked entry, behind locked ones only, that refuses it.

Assumptions, each evaluated by TLC on the instances: `FetchAssumption` (an even
address space of at least six parcels; `ZeroParcel` is short),
`WordFaultAssumption` (translation and protection are decided for whole words,
and a faulting word reads as zero), `IsaAssumption`, `TrapsAssumption` (among
them: MPP never holds its reserved value 2, which software would have to write
deliberately), `UartAssumption` (at least two slots), `PlatformAssumption`,
`ConsoleAssumption` (types; a buffer of at least one place, lines that are not
empty, arguments other than 0, which the console ignores), `PageTableAssumption` (a pointer entry points to a page table: software
does not build tables out of other pages), `TlbAssumption` (see *Tlb* above),
`TranslationAssumption` (software's address spaces differ within the nine bits
of the tag), `PmpAssumption` (types; a configuration register lies within the
entries).

Only model-checked: the liveness properties `Progress`, `InputRead`,
`HandlersEnd` and `LinesTakenAgain`, which rest on fairness and are beyond the
prover. Every invariant, action property and refinement of the passing runs is
a theorem. The properties of the runs that TLC refutes do not hold.

## 5. What is not modelled

* `mcycle`, `minstret`, `mtime`, `mtimecmp` and the CSRs that are plain
  storage: nothing else in the machine reads them, except that `mtimecmp`
  decides when the timer's line is up, which may be at any edge here.
* In `RAM`: the allocation of segments, sub-word accesses, and the AMO
  operations other than addition, which differ in one arithmetic operator. In
  `Pipeline` one data word stands for memory.
* The table of instruction encodings: field extraction, immediates, the ALU.
  A restatement in TLA+ of the code's bit fields would be its own reference.
* Translation and the pipeline are not composed: `Pipeline` has the walkers'
  control with any outcome, `Translation` the outcomes with any timing.
* The architecture-test bench and the RVTEST device (test harness), the ELF and
  binary loaders (file input before the simulation), command line, monitors and
  waveform tracing (input and output).

## 6. Plan

What is above is done. What is left:

1. `DataPort` with sub-word stores, so that what an SC may and may not be
   broken by can be stated for the code as it would be after a repair.

## 7. Running it

    tlc -workers 2 -config Pipeline.cfg MCPipeline
    tlapm PipelineProofs.tla

Each `.cfg` goes with the `MC` module whose name it begins with, except that
`Protection.cfg` goes with `MCPmp` and `DataPortSc.cfg` with `DataPort`.
