------------------------------ MODULE Platform ------------------------------
(***************************************************************************)
(* The UART and the PLIC on the bus of src/src/memory.hpp, clocked by the  *)
(* Testbench of src/src/tb.hpp and driven by interrupt handlers such as    *)
(* those the emulator boots.                                               *)
(*                                                                         *)
(* A clock cycle is: at the rising edge Memory::update_memory, which       *)
(* applies the store on din, and Testbench::plat_update, in an order that  *)
(* SystemC leaves open; then Cpu, the data port putting the next request   *)
(* on din, which mem_access answers at once: a load takes effect there, a  *)
(* store at the next rising edge.  The counting of mtime in plat_update is *)
(* left out: neither device reads it.                                      *)
(***************************************************************************)
EXTENDS Uart, Plic

CONSTANTS
    Lines,       \* what the user types at once
    Configs,     \* the stores with which software sets the devices up
    MaxTyped,    \* lines typed in a behaviour
    MaxSend      \* characters software has to send in a behaviour

ConfigStores ==
    [reg : {"IER"}, val : SUBSET {"RX", "THR"}]
    \cup [reg : {"PRIORITY"}, val : 0 .. 1]
    \cup [reg : {"THRESHOLD"}, ctx : Contexts, val : 0 .. 1]
    \cup [reg : {"ENABLE"}, ctx : Contexts, val : BOOLEAN]

ASSUME PlatformAssumption ==
    /\ MaxTyped \in Nat /\ MaxSend \in Nat
    /\ Configs \subseteq ConfigStores
    /\ \A line \in Lines : line \in Seq(Char)

VARIABLES
    todo,      \* processes that have yet to run at this rising edge
    din,       \* the store that is on the bus
    busy,      \* the data port is answering: the next request must wait
    at,        \* at[c]: where the handler of context c is
    irqoff,    \* the kernel has interrupts off (it programs the divisor)
    typed, tosend,
    last       \* the character software read last

softVars == <<at, irqoff, tosend, last>>
busVars == <<todo, din, busy>>
vars == <<uartVars, plicVars, busVars, softVars, typed>>

Edge == {"update_memory", "plat_update"}
NoStore == [reg |-> "none"]
Places == {"off", "claim", "iir", "lsr", "rbr", "thr", "complete"}
NoChar == "no character"

Init ==
    /\ UartInit /\ PlicInit
    /\ todo = Edge /\ din = NoStore /\ busy = FALSE
    /\ at = [c \in Contexts |-> "off"] /\ irqoff = FALSE
    /\ typed = 0 /\ tosend = MaxSend /\ last = NoChar

(***************************************************************************)
(* The rising edge.                                                        *)
(***************************************************************************)

\* The store on din reaches its device.
ToUart ==
    /\ \/ din.reg = "THR" /\ WriteThr
       \/ din.reg = "IER" /\ WriteIer(din.val)
       \/ din.reg = "LCR" /\ WriteLcr(din.val)
    /\ UNCHANGED plicVars

ToPlic ==
    /\ \/ din.reg = "PRIORITY" /\ WritePriority(din.val)
       \/ din.reg = "THRESHOLD" /\ WriteThreshold(din.ctx, din.val)
       \/ din.reg = "ENABLE" /\ WriteEnable(din.ctx, din.val)
       \/ din.reg = "CLAIM" /\ Complete(din.ctx, din.val)
    /\ UNCHANGED uartVars

UpdateMemory ==
    /\ "update_memory" \in todo /\ todo' = todo \ {"update_memory"}
    /\ \/ ToUart \/ ToPlic
       \/ din = NoStore /\ UNCHANGED <<uartVars, plicVars>>
    /\ din' = NoStore    \* dmem_req_seq, in the same evaluation
    /\ UNCHANGED <<busy, softVars, typed>>

\* plat_update, on what the console left in its buffer
PlatUpdate ==
    /\ "plat_update" \in todo /\ todo' = todo \ {"plat_update"}
    /\ \/ /\ typed < MaxTyped /\ typed' = typed + 1
          /\ \E line \in Lines : KeyboardInput(line)
       \/ UNCHANGED <<ringVars, typed>>
    /\ iir' = IrqOf(uart_buf_begin, uart_buf_end', ier, thri)
    /\ Update(iir' # 1)
    /\ UNCHANGED <<thri, ier, dlab, din, busy, softVars>>

(***************************************************************************)
(* Software, through the data port.                                        *)
(***************************************************************************)
Store(st) == din' = st /\ busy' = TRUE /\ UNCHANGED <<uartVars, plicVars>>
Load == busy' = TRUE /\ UNCHANGED din
NoRequest == busy' = FALSE /\ UNCHANGED <<din, uartVars, plicVars>>

Goto(c, p) == at' = [at EXCEPT ![c] = p]

\* The context whose handler runs: M may interrupt the handler of S.
Running(c) == at[c] # "off" /\ (c = "S" => at["M"] = "off")

Interruptible(c) == ~irqoff /\ at["M"] = "off" /\ (c = "S" => at["S"] = "off")

TakeTrap(c) ==
    /\ irq[c] # 0 /\ Interruptible(c)
    /\ Goto(c, "claim") /\ NoRequest
    /\ UNCHANGED <<irqoff, tosend, last>>

\* A handler: claims until there is nothing left to claim, and in between
\* reads everything received, sends what there is to send, completes.
Handle(c) ==
    /\ Running(c)
    /\ UNCHANGED irqoff
    /\ \/ /\ at[c] = "claim" /\ Load /\ Claim(c) /\ UNCHANGED uartVars
          /\ Goto(c, IF irq[c] = Source THEN "iir" ELSE "off")
          /\ UNCHANGED <<tosend, last>>
       \/ /\ at[c] = "iir" /\ Load /\ ReadIir /\ UNCHANGED plicVars
          /\ Goto(c, "lsr") /\ UNCHANGED <<tosend, last>>
       \/ /\ at[c] = "lsr" /\ Load /\ UNCHANGED <<uartVars, plicVars>>
          /\ Goto(c, IF DataReady THEN "rbr" ELSE "thr") /\ UNCHANGED <<tosend, last>>
       \/ /\ at[c] = "rbr" /\ Load /\ ReadRbr /\ UNCHANGED plicVars
          /\ last' = IF DataReady THEN uart_buf[uart_buf_begin] ELSE last
          /\ Goto(c, "lsr") /\ UNCHANGED tosend
       \/ /\ at[c] = "thr"
          /\ IF tosend > 0 THEN tosend' = tosend - 1 /\ Store([reg |-> "THR"])
                           ELSE NoRequest /\ UNCHANGED tosend
          /\ Goto(c, "complete") /\ UNCHANGED last
       \/ /\ at[c] = "complete"
          /\ Store([reg |-> "CLAIM", ctx |-> c, val |-> Source])
          /\ Goto(c, "claim") /\ UNCHANGED <<tosend, last>>

\* Outside the handlers: sets the devices up, sends, programs the divisor
\* with interrupts off, or does something else.
Background ==
    /\ \A c \in Contexts : at[c] = "off"
    /\ \/ \E st \in Configs : ~irqoff /\ Store(st) /\ UNCHANGED <<irqoff, tosend>>
       \/ /\ tosend > 0 /\ tosend' = tosend - 1
          /\ Store([reg |-> "THR"]) /\ UNCHANGED irqoff
       \/ /\ Store([reg |-> "LCR", val |-> ~irqoff])
          /\ irqoff' = ~irqoff /\ UNCHANGED tosend
       \/ NoRequest /\ UNCHANGED <<irqoff, tosend>>
    /\ UNCHANGED <<at, last>>

Cpu ==
    /\ todo = {} /\ todo' = Edge
    /\ UNCHANGED typed
    /\ \/ busy /\ NoRequest /\ UNCHANGED softVars
       \/ ~busy /\ \E c \in Contexts : TakeTrap(c) \/ Handle(c)
       \/ ~busy /\ Background

Next == UpdateMemory \/ PlatUpdate \/ Cpu

Spec == Init /\ [][Next]_vars

\* The clock runs, handlers run, and interrupts are not off for ever.
Fairness ==
    /\ WF_vars(Next)
    /\ \A c \in Contexts : SF_vars(Cpu /\ TakeTrap(c))
    /\ SF_vars(Cpu /\ irqoff /\ ~irqoff')

FairSpec == Spec /\ Fairness

(***************************************************************************)
(* What the platform promises.                                             *)
(***************************************************************************)

\* Types of the devices' registers and of the bus.
TypeOK ==
    /\ uart_buf \in [0 .. BufSize - 1 -> Char \cup {Garbage}]
    /\ uart_buf_begin \in 0 .. BufSize - 1 /\ uart_buf_end \in 0 .. BufSize - 1
    /\ thri \in BOOLEAN /\ ier \subseteq {"RX", "THR"} /\ iir \in {1, 2, 4} /\ dlab \in BOOLEAN
    /\ uart_priority \in 0 .. 1
    /\ threshold \in [Contexts -> 0 .. 1] /\ enable \in [Contexts -> BOOLEAN]
    /\ source_pending \in BOOLEAN /\ claim_mask \subseteq {0, Source}
    /\ {irq, clm, cmplt} \subseteq [Contexts -> {0, Source}]
    /\ todo \subseteq Edge /\ busy \in BOOLEAN /\ irqoff \in BOOLEAN
    /\ at \in [Contexts -> Places]
    /\ typed \in 0 .. MaxTyped /\ tosend \in 0 .. MaxSend

\* The source is claimed by one context at a time, though both see it
\* pending and either may interrupt the other's way to the claim register.
ClaimExclusive == \E c \in Contexts : clm[c] = 0

\* The source is masked exactly from its claim to its completion, whichever
\* of update_memory and plat_update runs first at an edge: were the mask to
\* outlive the claim, the UART would never interrupt again.
MaskFollowsClaim ==
    Source \in claim_mask <=> \E c \in Contexts : clm[c] = Source /\ cmplt[c] # Source

\* A handler keeps its claim until it completes it.
HandlerHoldsClaim ==
    \A c \in Contexts : at[c] \notin {"off", "claim"} => clm[c] = Source /\ cmplt[c] = 0

\* The inductive invariant behind the three: a request occupies the bus
\* until the edge after the next, so that plat_update runs between any two
\* requests and the lines a claim reads are up to date.
BusInv ==
    /\ din # NoStore => busy /\ "update_memory" \in todo
    /\ din.reg = "CLAIM" =>
          /\ din.val = Source /\ din.ctx \in Contexts
          /\ clm[din.ctx] = Source /\ at[din.ctx] = "claim"
          /\ \A c \in Contexts : cmplt[c] = 0
    /\ \A c \in Contexts : cmplt[c] # 0 => busy \/ "plat_update" \in todo
    /\ "plat_update" \notin todo =>
          \A c \in Contexts :
              /\ clm[c] = Source => irq[c] = Source
              /\ irq[c] = Source => \A d \in Contexts \ {c} : clm[d] = 0

PlicTypeOK ==
    /\ claim_mask \subseteq {0, Source}
    /\ irq \in [Contexts -> {0, Source}] /\ clm \in [Contexts -> {0, Source}]
    /\ cmplt \in [Contexts -> {0, Source}]
    /\ at \in [Contexts -> Places]
    /\ todo \subseteq Edge /\ busy \in BOOLEAN

\* The inductive invariant of bus, PLIC and handlers.
PlatformInv ==
    PlicTypeOK /\ BusInv /\ ClaimExclusive /\ MaskFollowsClaim /\ HandlerHoldsClaim

\* The divisor latch is open while the kernel has interrupts off, up to the
\* store that is on its way; no handler runs meanwhile, so that none takes
\* the divisor for a character.
LatchInv ==
    /\ din.reg = "LCR" => din.val = irqoff
    /\ din.reg # "LCR" => dlab = irqoff
    /\ irqoff => \A c \in Contexts : at[c] = "off"

\* The store on the bus is one its register can take.
StoreInv ==
    /\ din.reg = "IER" => din.val \subseteq {"RX", "THR"}
    /\ din.reg = "PRIORITY" => din.val \in 0 .. 1
    /\ din.reg = "THRESHOLD" => din.ctx \in Contexts /\ din.val \in 0 .. 1
    /\ din.reg = "ENABLE" => din.ctx \in Contexts /\ din.val \in BOOLEAN

\* The inductive invariant of the UART, on top of PlatformInv.
UartInv == TypeOK /\ LatchInv /\ StoreInv

\* The ring with its two indices is a queue: nothing typed is reordered,
\* repeated or overwritten, and only what does not fit is dropped.
Fifo == INSTANCE InputQueue WITH
            Capacity <- BufSize - 1, queue <- Received
RefinesQueue == Fifo!QueueSpec

\* Someone is to be interrupted when a character arrives.
Listening ==
    /\ "RX" \in ier
    /\ \E c \in Contexts : enable[c] /\ uart_priority > threshold[c]

\* plat_update never leaves input unsignalled: while someone listens and
\* there is a character to read, one of the contexts is interrupted, be it
\* by the claim it still holds.
InputSignalled ==
    [][("plat_update" \in todo \ todo' /\ DataReady' /\ Listening')
          => \E c \in Contexts : irq'[c] = Source]_vars

\* What was typed is read, as long as software keeps listening: an interrupt
\* is never lost between the UART, the PLIC and the handlers.
InputRead == DataReady ~> (~DataReady \/ ~Listening)

\* An interrupt ends: the line of an interrupt that was completed drops, and
\* the hart gets back to what it was doing.
HandlersEnd == []<>(\A c \in Contexts : at[c] = "off")
=============================================================================
