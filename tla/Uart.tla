-------------------------------- MODULE Uart --------------------------------
(***************************************************************************)
(* UART_DEV of src/src/memory.hpp: a receive ring between begin and end,   *)
(* one slot of which stays empty, and the two interrupt conditions of a    *)
(* 16550, "RX" (bit 0 of IER, data received) and "THR" (bit 1, transmitter *)
(* empty).  The divisor latch is not kept: nothing depends on it.          *)
(***************************************************************************)
EXTENDS Integers, Sequences

CONSTANTS
    BufSize,    \* UART_BUF_SIZE: 128
    Char        \* what can be typed

ASSUME UartAssumption == BufSize \in Nat /\ BufSize >= 2

VARIABLES
    uart_buf, uart_buf_begin, uart_buf_end,
    thri, ier, iir,
    dlab        \* bit 7 of LCR: registers 0 and 1 are the divisor

ringVars == <<uart_buf, uart_buf_begin, uart_buf_end>>
uartVars == <<ringVars, thri, ier, iir, dlab>>

Garbage == "uninitialised"

UartInit ==
    /\ uart_buf = [i \in 0 .. BufSize - 1 |-> Garbage]
    /\ uart_buf_begin = 0 /\ uart_buf_end = 0
    /\ thri = FALSE /\ ier = {} /\ iir = 1 /\ dlab = FALSE

\* uart_irq: 4 data received, 2 transmitter empty, 1 no interrupt
IrqOf(begin, end, enabled, empty) ==
    IF begin # end /\ "RX" \in enabled THEN 4
    ELSE IF "THR" \in enabled /\ empty THEN 2 ELSE 1

UartIrq == IrqOf(uart_buf_begin, uart_buf_end, ier, thri)

DataReady == uart_buf_begin # uart_buf_end

\* Slip: the ring is filled to the last slot.
SlipRoom == BufSize - ((uart_buf_end - uart_buf_begin) % BufSize)

\* Characters keyboard_input can still take.
Room == (uart_buf_begin - uart_buf_end - 1) % BufSize

KeyboardInput(s) ==
    LET n == IF Len(s) <= Room THEN Len(s) ELSE Room
        Offset(i) == (i - uart_buf_end) % BufSize
    IN /\ uart_buf' = [i \in 0 .. BufSize - 1 |->
                          IF Offset(i) < n THEN s[Offset(i) + 1] ELSE uart_buf[i]]
       /\ uart_buf_end' = (uart_buf_end + n) % BufSize
       /\ UNCHANGED uart_buf_begin

\* Slip: begin does not wrap.
SlipReadRbr ==
    /\ IF dlab \/ ~DataReady THEN UNCHANGED <<uart_buf_begin, iir>>
       ELSE /\ uart_buf_begin' = uart_buf_begin + 1
            /\ iir' = IrqOf(uart_buf_begin', uart_buf_end, ier, thri)
    /\ UNCHANGED <<uart_buf, uart_buf_end, thri, ier, dlab>>

\* read: register 0
ReadRbr ==
    /\ IF dlab \/ ~DataReady THEN UNCHANGED <<uart_buf_begin, iir>>
       ELSE /\ uart_buf_begin' = (uart_buf_begin + 1) % BufSize
            /\ iir' = IrqOf(uart_buf_begin', uart_buf_end, ier, thri)
    /\ UNCHANGED <<uart_buf, uart_buf_end, thri, ier, dlab>>

\* read: register 2
ReadIir ==
    /\ iir' = UartIrq
    /\ thri' = FALSE
    /\ UNCHANGED <<ringVars, ier, dlab>>

\* write: register 0
WriteThr ==
    /\ IF dlab THEN UNCHANGED <<thri, iir>>
       ELSE thri' = TRUE /\ iir' = IrqOf(uart_buf_begin, uart_buf_end, ier, TRUE)
    /\ UNCHANGED <<ringVars, ier, dlab>>

\* write: register 1
WriteIer(v) ==
    /\ IF dlab THEN UNCHANGED <<ier, iir>>
       ELSE ier' = v /\ iir' = IrqOf(uart_buf_begin, uart_buf_end, v, thri)
    /\ UNCHANGED <<ringVars, thri, dlab>>

\* write: register 3
WriteLcr(v) == dlab' = v /\ UNCHANGED <<ringVars, thri, ier, iir>>

\* The characters in the ring, oldest first.
Received ==
    [i \in 1 .. (uart_buf_end - uart_buf_begin) % BufSize |->
        uart_buf[(uart_buf_begin + i - 1) % BufSize]]
=============================================================================
