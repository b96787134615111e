------------------------------- MODULE Uart --------------------------------
(***************************************************************************)
(* The UART of the time controller (rtl/uart_tx_rx_module.v), as the       *)
(* registers' next values on a clock edge.  A character is the sequence of *)
(* its bits, lowest first, which is the order on the line.                 *)
(*                                                                         *)
(* Both directions count characters with a marker in the shift register    *)
(* instead of a counter: the receiver starts with ones and is done when    *)
(* the start bit comes out at the low end; the transmitter puts a zero     *)
(* above the data and shifts ones in until that zero is all but gone.      *)
(***************************************************************************)
EXTENDS Naturals, Sequences

CONSTANTS
  DATA_BIT,     \* 8
  OVERSAMPLE,   \* ticks per bit (16)
  B_VALUE       \* clocks per tick (651 for 9600 baud at 100 MHz)

ASSUME UartAssumption ==
  /\ DATA_BIT \in Nat \ {0} /\ B_VALUE \in Nat \ {0}
  /\ OVERSAMPLE \in Nat /\ OVERSAMPLE > 2

Bit   == 0 .. 1
Chars == [1 .. DATA_BIT -> Bit]

Ones(n) == [i \in 1 .. n |-> 1]

Shifted(bits, b) == Append(Tail(bits), b)

-----------------------------------------------------------------------------
(* tick_gen                                                                *)

Ticks == [count_reg : 0 .. B_VALUE - 1, o_bps_tick : BOOLEAN]

TickReset == [count_reg |-> 0, o_bps_tick |-> TRUE]

TickNext(t) ==
  LET over == t.count_reg >= B_VALUE - 1
  IN  [count_reg |-> IF over THEN 0 ELSE t.count_reg + 1, o_bps_tick |-> over]

-----------------------------------------------------------------------------
(* uart_rx                                                                 *)

\* The counter starts half a bit on, so that bits are sampled in the middle.
HALF_Zero == 0
HALF == OVERSAMPLE \div 2

Receivers == [b_state : {"IDLE", "DATA"}, counter_reg : 0 .. OVERSAMPLE - 1,
              data_buf : [1 .. DATA_BIT + 1 -> Bit], rx_done : BOOLEAN]

RxReset == [b_state |-> "IDLE", counter_reg |-> HALF,
            data_buf |-> Ones(DATA_BIT + 1), rx_done |-> FALSE]

RxData(r) == SubSeq(r.data_buf, 1, DATA_BIT)

\* A sample in the middle of a bit: the last one is the stop bit, and it is
\* the start bit that leaves the register then.
RxSample(r, rx) ==
  LET more == r.data_buf[1] = 1
  IN  [b_state |-> IF more THEN "DATA" ELSE "IDLE",
       counter_reg |-> IF more THEN 0 ELSE HALF,
       data_buf |-> Shifted(r.data_buf, rx), rx_done |-> ~more]

RxNext(r, bps, rx) ==
  CASE r.b_state = "IDLE" /\ bps /\ rx = 0 ->
         [RxReset EXCEPT !.b_state = "DATA", !.counter_reg = r.counter_reg + 1]
    [] r.b_state = "IDLE" /\ ~(bps /\ rx = 0) ->
         [RxReset EXCEPT !.counter_reg = r.counter_reg]
    [] r.b_state = "DATA" /\ bps /\ r.counter_reg >= OVERSAMPLE - 1 -> RxSample(r, rx)
    [] r.b_state = "DATA" /\ bps /\ r.counter_reg < OVERSAMPLE - 1 ->
         [r EXCEPT !.counter_reg = @ + 1, !.rx_done = FALSE]
    [] r.b_state = "DATA" /\ ~bps -> [r EXCEPT !.rx_done = FALSE]

-----------------------------------------------------------------------------
(* uart_tx                                                                 *)

Transmitters == [state : {"IDLE", "START", "S0"}, bps_count : 0 .. OVERSAMPLE - 1,
                 data_reg : [1 .. DATA_BIT + 1 -> Bit], tx : Bit, tx_busy : BOOLEAN]

TxReset(data) == [state |-> "IDLE", bps_count |-> 0, data_reg |-> Append(data, 1),
                  tx |-> 1, tx_busy |-> FALSE]

\* Only the marker is left: all bits have been sent.
AllSent_OneEarly(data_reg) == \A i \in 3 .. DATA_BIT + 1 : data_reg[i] = 1
AllSent(data_reg) == \A i \in 2 .. DATA_BIT + 1 : data_reg[i] = 1

TxCount(t, bps) ==
  IF ~bps THEN t.bps_count ELSE IF t.bps_count >= OVERSAMPLE - 1 THEN 0
                                                               ELSE t.bps_count + 1

TxNext(t, bps, tx_start, data) ==
  LET bps_tick == bps /\ t.bps_count >= OVERSAMPLE - 1
      u == [t EXCEPT !.bps_count = TxCount(t, bps)]
  IN CASE t.state = "IDLE" ->
            [u EXCEPT !.state = IF tx_start THEN "START" ELSE "IDLE", !.tx = 1,
                      !.tx_busy = tx_start, !.data_reg = Append(data, 0)]
       [] t.state = "START" ->
            [u EXCEPT !.state = IF bps_tick THEN "S0" ELSE "START",
                      !.tx = IF bps_tick THEN 0 ELSE 1, !.tx_busy = TRUE]
       [] t.state = "S0" /\ bps_tick /\ ~AllSent(t.data_reg) ->
            [u EXCEPT !.tx = t.data_reg[1], !.data_reg = Shifted(@, 1),
                      !.tx_busy = TRUE]
       [] t.state = "S0" /\ bps_tick /\ AllSent(t.data_reg) ->
            [u EXCEPT !.state = "IDLE", !.tx = 1, !.tx_busy = FALSE,
                      !.data_reg = Append(data, 1)]
       [] t.state = "S0" /\ ~bps_tick -> [u EXCEPT !.tx_busy = TRUE]
=============================================================================
