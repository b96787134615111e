-------------------------------- MODULE DHT11 --------------------------------
(***************************************************************************)
(* The controller of the humidity and temperature sensor                   *)
(* (dht11_controller.v) and the driver's accesses to it (HAL/DHT11).       *)
(*                                                                         *)
(* The sensor answers the start pulse with 40 bits, most significant bit   *)
(* first: humidity, its decimals, temperature, its decimals, and the sum   *)
(* of the four.  It may stay silent, stop after any bit, and a pulse may   *)
(* be taken for the other bit.  BYTE_BITS is 8 in the code.                *)
(***************************************************************************)
EXTENDS Integers, Sequences

CONSTANTS
  BYTE_BITS,
  Readings,     \* what the sensor may send: <<humidity, ., temperature, .>>
  MAX_DAMAGE    \* how many bits of one answer may be misread

ByteRange == 2 ^ BYTE_BITS
DhtByte == 0 .. ByteRange - 1
FRAME_BITS == 5 * BYTE_BITS

ASSUME DhtAssumption ==
  /\ BYTE_BITS \in Nat \ {0}
  /\ Readings \subseteq [1 .. 4 -> DhtByte]
  /\ MAX_DAMAGE \in Nat

VARIABLES
  c_state, data_reg, bit_cnt,
  sending,      \* the bits that the sensor has still to send
  dht_owes,     \* the sensor has been started and may still answer
  \* History variables: no action of the code reads them.
  dht_failed,   \* the sensor has failed to send all its bits since reset
  dht_damage,   \* bits of the answer misread
  dht_sent,     \* what the sensor answers the last Start, or <<>>
  dht_over      \* that answer has ended

dht_vars == <<c_state, data_reg, bit_cnt, sending, dht_owes,
              dht_failed, dht_damage, dht_sent, dht_over>>

-----------------------------------------------------------------------------
(* Bytes and bits.                                                         *)

Bits(byte) == [i \in 1 .. BYTE_BITS |-> (byte \div 2 ^ (BYTE_BITS - i)) % 2]
Value(bits) ==
  LET value[i \in 0 .. Len(bits)] ==
        IF i = 0 THEN 0 ELSE 2 * value[i - 1] + bits[i]
  IN  value[Len(bits)]

\* The n-th byte of data_reg; the first is data_reg[39:32].
ByteOf(n) == Value(SubSeq(data_reg, (n - 1) * BYTE_BITS + 1, n * BYTE_BITS))

FrameOf(r) ==
  Bits(r[1]) \o Bits(r[2]) \o Bits(r[3]) \o Bits(r[4])
    \o Bits((r[1] + r[2] + r[3] + r[4]) % ByteRange)

humidity    == ByteOf(1)
temperature == ByteOf(3)

\* The wire valid: nothing but the sum decides it, at every moment.
valid_NoSum == data_reg # [i \in 1 .. FRAME_BITS |-> 0]
valid == ByteOf(5) = (ByteOf(1) + ByteOf(2) + ByteOf(3) + ByteOf(4)) % ByteRange

-----------------------------------------------------------------------------
(* The driver and the controller.                                          *)

InitDht11 ==
  /\ c_state = "IDLE" /\ data_reg = [i \in 1 .. FRAME_BITS |-> 0] /\ bit_cnt = 0
  /\ sending = <<>> /\ dht_owes = FALSE
  /\ dht_failed = FALSE /\ dht_damage = 0
  /\ dht_sent = <<>> /\ dht_over = FALSE

\* A start is taken only when the controller is idle.
DHT11_Start ==
  /\ c_state' = IF c_state = "IDLE" THEN "START" ELSE c_state
  /\ bit_cnt' = IF c_state = "IDLE" THEN 0 ELSE bit_cnt
  /\ dht_damage' = 0 /\ dht_sent' = <<>> /\ dht_over' = FALSE
  /\ UNCHANGED <<data_reg, sending, dht_owes, dht_failed>>

\* START, WAIT and SYNCL: the line is pulled down, let go, and goes high.
Release ==
  /\ c_state = "START"
  /\ c_state' = "SYNCH" /\ dht_owes' = TRUE
  /\ UNCHANGED <<data_reg, bit_cnt, sending, dht_failed, dht_damage, dht_sent,
                 dht_over>>

SensorAnswers(r) ==
  /\ c_state = "SYNCH" /\ dht_owes
  /\ c_state' = "DATA_SYNC" /\ sending' = FrameOf(r) /\ dht_sent' = r
  /\ UNCHANGED <<data_reg, bit_cnt, dht_owes, dht_failed, dht_damage, dht_over>>

\* DATA_SYNC, DATA_COUNT and DATA_DECISION for one bit.
ShiftIn(bit) == Append(Tail(data_reg), bit)
LastBit == FRAME_BITS - 1

ReceiveBit(damaged) ==
  /\ c_state = "DATA_SYNC" /\ sending # <<>>
  /\ damaged => dht_damage < MAX_DAMAGE
  /\ data_reg' = ShiftIn(IF damaged THEN 1 - Head(sending) ELSE Head(sending))
  /\ sending' = Tail(sending)
  /\ c_state' = IF bit_cnt = LastBit THEN "STOP" ELSE "DATA_SYNC"
  /\ bit_cnt' = IF bit_cnt = LastBit THEN 0 ELSE bit_cnt + 1
  /\ dht_damage' = dht_damage + (IF damaged THEN 1 ELSE 0)
  /\ UNCHANGED <<dht_owes, dht_failed, dht_sent, dht_over>>

\* The line is quiet again after 50 us.
StopEnds ==
  /\ c_state = "STOP"
  /\ c_state' = "IDLE" /\ sending' = <<>>
  /\ dht_owes' = FALSE /\ dht_over' = TRUE
  /\ UNCHANGED <<data_reg, bit_cnt, dht_failed, dht_damage, dht_sent>>

\* The sensor is silent, or stops.  SYNCH and DATA_SYNC have no other way
\* out: the controller stays there.
SensorStops ==
  /\ dht_owes
  /\ c_state = "SYNCH" \/ (c_state = "DATA_SYNC" /\ sending # <<>>)
  /\ dht_owes' = FALSE /\ sending' = <<>> /\ dht_failed' = TRUE
  /\ UNCHANGED <<c_state, data_reg, bit_cnt, dht_damage, dht_sent, dht_over>>

NextDht11 ==
  \/ Release \/ StopEnds \/ SensorStops
  \/ \E r \in Readings : SensorAnswers(r)
  \/ \E damaged \in BOOLEAN : ReceiveBit(damaged)

\* An answer has ended, or will never come.
DhtSettled == c_state \notin {"START", "STOP"} /\ ~dht_owes
=============================================================================
