---------------------------- MODULE CommandPath ----------------------------
(***************************************************************************)
(* The way of a command from the PC into the time controller, and of its   *)
(* report back (rtl/TOP.v): uart_rx, FIFO_RX, ascii_decoder; sender,       *)
(* FIFO_TX, uart_tx.  A step is one clock edge, on which every register    *)
(* takes its next value from the old ones.                                 *)
(*                                                                         *)
(* Nothing holds a character back: the decoder takes two clocks for one    *)
(* while FIFO_RX is popped on every clock, and the sender pushes a report  *)
(* into FIFO_TX without looking at full.  That all arrives depends on how  *)
(* slow the line is.  One of the commands resets the board like the reset  *)
(* pin, which may come at any time, in the middle of a character too.      *)
(*                                                                         *)
(* The PC is external: it sends characters back to back or with pauses,    *)
(* its bits are up to one clock off, and it samples the answer in the      *)
(* middle of each bit.                                                     *)
(***************************************************************************)
EXTENDS Uart

CONSTANTS
  DEPTH_RX, DEPTH_TX,   \* 4 and 16
  REPORT_LENGTH,        \* 16
  Commands,             \* the buttons a character may press, "none" included
  CommandOf,            \* which button each character presses
  Sent,                 \* characters the PC sends
  Printed               \* what mux_16x1 may put out at each digit_sel: the
                        \* value of a digit may change on any clock

ASSUME PathAssumption ==
  /\ DEPTH_RX \in Nat /\ DEPTH_RX > 1 /\ DEPTH_TX \in Nat /\ DEPTH_TX > 1
  /\ REPORT_LENGTH \in Nat \ {0}
  /\ {"none", "S", "M"} \subseteq Commands
  /\ CommandOf \in [Chars -> Commands]
  /\ Sent \subseteq Chars
  /\ Printed \in [0 .. REPORT_LENGTH - 1 -> (SUBSET Chars) \ {{}}]

VARIABLES
  tick,             \* tick_gen
  rx, fifo_rx,      \* uart_rx and its FIFO
  decoder, button,  \* ascii_decoder and its output
  sender,           \* counter_16
  fifo_tx, tx,      \* the FIFO of the report, and uart_tx
  \* External: the PC's two directions.
  host,             \* bits it still has to send and clocks left for the first
  reader,           \* bits it has sampled and clocks until the next sample
  \* History variables.
  due_in,           \* characters begun on the line and not yet decoded
  inStep,           \* no reset has cut a character off since the line was idle
  due_out,          \* characters in FIFO_TX or on the line, not yet read
  cut,              \* the PC reads a character that a reset has cut off
  crowded           \* a report was asked for before the last one had been read

board    == <<tick, rx, fifo_rx, decoder, button, sender, fifo_tx, tx>>
pc       == <<host, reader>>
history  == <<due_in, inStep, due_out, cut, crowded>>
path_vars == <<board, pc, history>>

Rx == INSTANCE Fifo WITH DEPTH <- DEPTH_RX, Char <- Chars, fifo <- fifo_rx
Tx == INSTANCE Fifo WITH DEPTH <- DEPTH_TX, Char <- Chars, fifo <- fifo_tx

BIT_CLOCKS == OVERSAMPLE * B_VALUE

-----------------------------------------------------------------------------
(* The PC.                                                                 *)

Idle == [bits |-> <<>>, left |-> 0]

Beginning ==
  {[bits |-> <<0>> \o c \o <<1>>, left |-> BIT_CLOCKS + slip - 1] :
     c \in Sent, slip \in 0 .. 2}

\* The line to the board.
Line == IF host.bits = <<>> THEN 1 ELSE Head(host.bits)

\* (Bound: after the reset pin has cut off what it was sending the PC pauses.)
HostNext ==
  IF host.left > 1 THEN {[host EXCEPT !.left = @ - 1]}
  ELSE IF Len(host.bits) > 1 THEN {[bits |-> Tail(host.bits), left |-> BIT_CLOCKS]}
  ELSE {Idle} \cup {h \in Beginning : inStep}

Begins == host' \in Beginning /\ Len(host.bits) <= 1 /\ host.left <= 1

\* The last sample, of the stop bit, ends the character.
Reads == reader.left = 1 /\ Len(reader.bits) = DATA_BIT

ReaderNext ==
  CASE reader.left = 0 ->
         IF tx.tx = 1 THEN Idle
                      ELSE [bits |-> <<>>, left |-> BIT_CLOCKS + BIT_CLOCKS \div 2 - 1]
    [] reader.left > 1 -> [reader EXCEPT !.left = @ - 1]
    [] reader.left = 1 ->
         IF Reads THEN Idle
                  ELSE [bits |-> Append(reader.bits, tx.tx), left |-> BIT_CLOCKS]

-----------------------------------------------------------------------------
(* ascii_decoder and counter_16.                                           *)

DecoderReset == [state |-> "IDLE", UART_DATA_buf |-> [i \in 1 .. DATA_BIT |-> 0]]

\* A character is taken on one clock and presses its button on the next one.
AsciiDecoder ==
  /\ decoder' = IF decoder.state = "DATA" THEN [decoder EXCEPT !.state = "IDLE"]
                ELSE [state |-> IF fifo_rx.empty THEN "IDLE" ELSE "DATA",
                      UART_DATA_buf |-> Rx!PopData]
  /\ button' = IF decoder.state = "DATA" THEN CommandOf[decoder.UART_DATA_buf]
                                         ELSE "none"

\* What is selected of the report on this clock.
OutData == Printed[sender.digit_sel]

SenderReset == [state |-> "IDLE", run |-> FALSE, digit_sel |-> 0]

SenderNext(status) ==
  CASE sender.state = "IDLE" /\ status  -> [sender EXCEPT !.state = "DATA", !.run = TRUE]
    [] sender.state = "IDLE" /\ ~status -> [sender EXCEPT !.run = FALSE]
    [] sender.state = "DATA" /\ sender.digit_sel >= REPORT_LENGTH - 1 -> SenderReset
    [] sender.state = "DATA" /\ sender.digit_sel < REPORT_LENGTH - 1 ->
         [sender EXCEPT !.digit_sel = @ + 1]

\* The next character is fetched while one is still being sent.
TxPop_WhileBusy == ~fifo_tx.empty
TxPop == ~fifo_tx.empty /\ ~tx.tx_busy

-----------------------------------------------------------------------------
Init ==
  /\ tick = TickReset /\ rx = RxReset
  /\ fifo_rx = Rx!Fresh([i \in Rx!Place |-> DecoderReset.UART_DATA_buf])
  /\ decoder = DecoderReset /\ button = "none"
  /\ sender = SenderReset
  /\ fifo_tx = Tx!Fresh([i \in Tx!Place |-> DecoderReset.UART_DATA_buf])
  /\ tx = TxReset(DecoderReset.UART_DATA_buf)
  /\ host = Idle /\ reader = Idle
  /\ due_in = <<>> /\ inStep = TRUE /\ due_out = <<>> /\ cut = FALSE
  /\ crowded = FALSE

\* w_rst_con from button_con: everything starts again but the memories.
ResetBoard ==
  /\ tick' = TickReset /\ rx' = RxReset /\ Rx!Reset
  /\ decoder' = DecoderReset /\ button' = "none"
  /\ sender' = SenderReset
  /\ Tx!Reset /\ tx' = TxReset(Tx!PopData')

PcClock == host' \in HostNext /\ reader' = ReaderNext

\* A character that begins is owed to the decoder.
Owe(due) == due_in' = IF Begins /\ inStep' THEN Append(due, SubSeq(host'.bits, 2, DATA_BIT + 1))
                                           ELSE due

\* After a reset has cut a character off the receiver may take what is left of
\* it for another, until nothing is on its way any more.
LineQuiet ==
  /\ host' = Idle /\ rx.b_state = "IDLE" /\ ~rx.rx_done
  /\ fifo_rx.empty /\ decoder.state = "IDLE"

\* A character that a reset has cut off is none of those that are owed.
Answered == IF Reads /\ ~cut /\ due_out # <<>> THEN Tail(due_out) ELSE due_out

\* The reset pin.
Reset ==
  /\ ResetBoard /\ PcClock
  /\ inStep' = (inStep /\ host = Idle)
  /\ Owe(<<>>)
  /\ due_out' = <<>> /\ cut' = (reader' # Idle) /\ crowded' = FALSE

\* The same reset by a command.
ResetByCommand ==
  /\ button = "M"
  /\ ResetBoard /\ PcClock
  /\ UNCHANGED inStep
  /\ Owe(due_in)
  /\ due_out' = <<>> /\ cut' = (reader' # Idle) /\ crowded' = FALSE

ClockEdge ==
  /\ button # "M"
  /\ PcClock
  /\ tick' = TickNext(tick)
  /\ rx' = RxNext(rx, tick.o_bps_tick, Line)
  /\ Rx!Clock(rx.rx_done, ~fifo_rx.empty, RxData(rx))
  /\ AsciiDecoder
  /\ sender' = SenderNext(button = "S")
  /\ tx' = TxNext(tx, tick.o_bps_tick, ~fifo_tx.empty, Tx!PopData)
  /\ \E c \in OutData :
       /\ Tx!Clock(sender.run, TxPop, c)
       /\ due_out' = IF sender.run /\ ~fifo_tx.full THEN Append(Answered, c)
                                                    ELSE Answered
  /\ inStep' = (inStep \/ LineQuiet)
  /\ Owe(IF decoder.state = "DATA" /\ due_in # <<>> THEN Tail(due_in) ELSE due_in)
  /\ cut' = (cut /\ reader' # Idle)
  /\ crowded' = \/ button = "S" /\ due_out # <<>>
                \/ crowded /\ due_out' # <<>>

Next == ClockEdge \/ ResetByCommand \/ Reset

Spec == Init /\ [][Next]_path_vars

-----------------------------------------------------------------------------
(* Properties.                                                             *)

\* The registers keep their ranges, and the receiver waits for a start bit with
\* its counter half a bit on.
PathTypeOK ==
  /\ tick \in Ticks /\ rx \in Receivers /\ tx \in Transmitters
  /\ rx.b_state = "IDLE" => rx.counter_reg = HALF
  /\ Rx!FifoInv /\ Tx!FifoInv
  /\ decoder \in [state : {"IDLE", "DATA"}, UART_DATA_buf : Chars]
  /\ button \in Commands
  /\ sender \in [state : {"IDLE", "DATA"}, run : BOOLEAN,
                 digit_sel : 0 .. REPORT_LENGTH - 1]
  /\ {host, reader} \subseteq [bits : Seq(Bit), left : Nat]

\* A character is decoded before the next one begins, so FIFO_RX never holds
\* two of which the decoder would miss one; and once the board is quiet the
\* PC has read all that was put into FIFO_TX.
NothingIsLeftOver ==
  /\ PathTypeOK
  /\ Rx!Count <= 1 /\ (decoder.state = "DATA" => fifo_rx.empty)
  /\ inStep => Len(due_in) <= 1
  /\ fifo_tx.empty /\ ~tx.tx_busy /\ reader = Idle => due_out = <<>>

\* Each character that the PC has sent presses its button once, for one
\* clock, and no button is pressed by anything else, although one of the
\* commands resets the very receiver that it came through; only after the reset
\* pin was used in the middle of a character may what is left of it press
\* another one.
EachCommandOnce ==
  [][inStep /\ button' # "none" =>
       /\ due_in # <<>> /\ button' = CommandOf[Head(due_in)]
       /\ button = "none"]_path_vars

\* The PC reads exactly the characters that the sender wrote, in order, unless
\* a reset cuts one off, and one is dropped only if a report was asked for
\* before the last one had been read.
ReportInOrder ==
  [][/\ Reads /\ ~cut => due_out # <<>> /\ Head(due_out) = reader.bits /\ tx.tx = 1
     /\ sender.run /\ fifo_tx.full => crowded]_path_vars

\* Whatever comes on the same clock, both FIFOs are queues: nothing in them is
\* repeated, overtaken or lost, and only what is pushed while one is full is
\* not taken.
FifosAreQueues ==
  [][\/ ResetBoard
     \/ /\ Rx!Contents' = Rx!QueueAfter(Rx!Contents, rx.rx_done, ~fifo_rx.empty, RxData(rx))
        /\ \E c \in OutData :
             Tx!Contents' = Tx!QueueAfter(Tx!Contents, sender.run, TxPop, c)]_path_vars
=============================================================================
