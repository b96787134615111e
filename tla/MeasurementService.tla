------------------------- MODULE MeasurementService -------------------------
(***************************************************************************)
(* A measurement of the master (ap/MeasurementService.c): both sensors are *)
(* started, and read when the two-second timer has expired, or polled by   *)
(* MeasurementService_MeasureBlocking.                                     *)
(*                                                                         *)
(* An echo lasts at most 38 ms and an answer of the DHT11 24 ms, so both   *)
(* controllers have settled when the timer expires and when a poll gives   *)
(* up, after 100 ms and 2000 ms.                                           *)
(***************************************************************************)
EXTENDS HCSR04, DHT11

CONSTANT Calls   \* which of "service" and "blocking" the program calls

ASSUME CallAssumption == Calls \subseteq {"service", "blocking"}

VARIABLES
  phase,         \* where the measurement is
  sensor,        \* the sensor_data_t that the caller gets
  call           \* how the last measurement was asked for: "overlapping" is a
                 \* Start while the DHT11 still answers a poll that has
                 \* returned at once with the values of an earlier answer

vars == <<hc_vars, dht_vars, phase, sensor, call>>

DISTANCE_INVALID == 65535
TEMPERATURE_INVALID == 255
HUMIDITY_INVALID == 255

NoReading ==
  [distance |-> DISTANCE_INVALID, temperature |-> TEMPERATURE_INVALID,
   humidity |-> HUMIDITY_INVALID, hcsr04_done |-> FALSE, dht11_valid |-> FALSE]

Init ==
  /\ InitHcsr04 /\ InitDht11
  /\ phase = "idle" /\ sensor = NoReading /\ call = "none"

\* One clock of the controllers, or a move of a sensor.
Hardware ==
  /\ \/ NextHcsr04 /\ UNCHANGED dht_vars
     \/ NextDht11 /\ UNCHANGED hc_vars
  /\ UNCHANGED <<phase, sensor, call>>

-----------------------------------------------------------------------------
(* Start, and Read when the timer has expired.                             *)

Start ==
  /\ phase = "idle" /\ "service" \in Calls
  /\ HCSR04_Start /\ DHT11_Start
  /\ phase' = "measuring"
  /\ call' = IF c_state # "IDLE" /\ call \in {"blocking", "overlapping"}
             THEN "overlapping" ELSE "service"
  /\ UNCHANGED sensor

WithDistance(s) == [s EXCEPT !.distance = distance_latched, !.hcsr04_done = TRUE]
WithDht(s) ==
  [s EXCEPT !.temperature = temperature, !.humidity = humidity,
            !.dht11_valid = TRUE]

Read_DoneIgnored ==
  /\ phase = "measuring" /\ HcSettled /\ DhtSettled
  /\ sensor' = LET s == WithDistance(NoReading)
               IN  IF valid THEN WithDht(s) ELSE s
  /\ HCSR04_ClearDone
  /\ phase' = "idle"
  /\ UNCHANGED <<dht_vars, call>>
Read ==
  /\ phase = "measuring" /\ HcSettled /\ DhtSettled
  /\ sensor' = LET s == IF done_latched THEN WithDistance(NoReading)
                                        ELSE NoReading
               IN  IF valid THEN WithDht(s) ELSE s
  /\ IF done_latched THEN HCSR04_ClearDone ELSE UNCHANGED hc_vars
  /\ phase' = "idle"
  /\ UNCHANGED <<dht_vars, call>>

-----------------------------------------------------------------------------
(* MeasureBlocking: HCSR04_ReadDistance, then DHT11_ReadData.              *)

MeasureBlocking ==
  /\ phase = "idle" /\ "blocking" \in Calls
  /\ HCSR04_Start
  /\ sensor' = NoReading /\ phase' = "poll distance" /\ call' = "blocking"
  /\ UNCHANGED dht_vars

\* A poll that finds the result, or the last one of 100.
PollDistance ==
  /\ phase = "poll distance"
  /\ \/ done_latched /\ sensor' = WithDistance(sensor) /\ HCSR04_ClearDone
     \/ ~done_latched /\ HcSettled /\ UNCHANGED <<hc_vars, sensor>>
  /\ DHT11_Start
  /\ phase' = "poll dht" /\ UNCHANGED call

PollDht ==
  /\ phase = "poll dht"
  /\ \/ valid /\ sensor' = WithDht(sensor)
     \/ ~valid /\ DhtSettled /\ UNCHANGED sensor
  /\ phase' = "idle"
  /\ UNCHANGED <<hc_vars, dht_vars, call>>

Next == Hardware \/ Start \/ Read \/ MeasureBlocking \/ PollDistance \/ PollDht

Spec == Init /\ [][Next]_vars

-----------------------------------------------------------------------------
(* Properties.                                                             *)

\* The variables keep their types: the distance register its nine bits and
\* data_reg its forty, however often the sensors answer.
MeasurementTypeOK ==
  /\ hc_state \in {"IDLE", "STAR", "WAIT", "REP"}
  /\ {done_latched, hc_owes, hc_lost} \subseteq BOOLEAN
  /\ distance_latched \in 0 .. DISTANCE_RANGE - 1
  /\ hc_echo \in {<<>>} \union {<<cm>> : cm \in Echoes}
  /\ c_state \in {"IDLE", "START", "SYNCH", "DATA_SYNC", "STOP"}
  /\ data_reg \in [1 .. FRAME_BITS -> 0 .. 1]
  /\ bit_cnt \in 0 .. FRAME_BITS - 1
  /\ c_state = "DATA_SYNC" /\ dht_owes => Len(sending) = FRAME_BITS - bit_cnt
  /\ phase \in {"idle", "measuring", "poll distance", "poll dht"}

\* A distance is given only for an echo of this very measurement, and is
\* that echo's length within nine bits: a latch left from an earlier
\* measurement, or an echo that never came, is never passed on.
DistanceIsFresh ==
  phase \in {"idle", "poll dht"} /\ sensor.hcsr04_done =>
    hc_echo # <<>> /\ sensor.distance = hc_echo[1] % DISTANCE_RANGE

\* An answer of the DHT11 that came through is accepted, with the values
\* the sensor sent, exactly when none of its bits was misread.  (Two
\* misread bits may cancel in the sum: MAX_DAMAGE is 1 in the run.)
DamageIsCaught ==
  phase = "idle" /\ call = "service" /\ dht_over =>
    /\ sensor.dht11_valid <=> dht_damage = 0
    /\ sensor.dht11_valid =>
         sensor.humidity = dht_sent[1] /\ sensor.temperature = dht_sent[3]

\* Neither controller has a way out of waiting but its sensor.  While both
\* answer, every measurement brings both readings: no controller stays busy
\* over the next start.  The first answer that stays out is the last: from
\* that measurement until a reset every distance is reported missing, never
\* an old one passed on, and the DHT11 finishes no answer any more.
SensorsKeepAnswering ==
  /\ MeasurementTypeOK
  /\ phase = "idle" /\ call = "service" =>
       /\ sensor.hcsr04_done <=> ~hc_lost
       /\ dht_over <=> ~dht_failed

\* MeasurementService.c:26 says that only a sensor whose completion has been
\* checked reaches the result.  This is false for the DHT11: its valid is
\* the sum of whatever data_reg holds, the forty zeroes of a reset included.
AcceptedIsAnswered ==
  phase = "idle" /\ call = "service" /\ sensor.dht11_valid => dht_over
=============================================================================
