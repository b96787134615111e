-------------------------- MODULE PeripheralProofs --------------------------
(***************************************************************************)
(* The peripherals of the two boards.  A distance that a measurement       *)
(* reports is the length of its own echo, and both sensors keep            *)
(* answering; the slave's clock counts its ticks and its display lights    *)
(* no wrong digit; the character displays get into step with their         *)
(* drivers and show what is printed.                                       *)
(***************************************************************************)
EXTENDS MeasurementService, SlaveClock, CharLcd, NumberLemmas, SequenceTheorems

\* The fields of a sensor_data_t.
SensorFields ==
  {"distance", "temperature", "humidity", "hcsr04_done", "dht11_valid"}

\* A latched result belongs to the echo since the last Start, and its
\* controller is idle again.
LatchInv ==
  done_latched =>
    /\ hc_echo # <<>> /\ distance_latched = hc_echo[1] % DISTANCE_RANGE
    /\ hc_state = "IDLE" /\ ~hc_owes

\* An echo is due only after a trigger; none is between two measurements.
EchoInv ==
  /\ hc_state \in {"IDLE", "STAR", "WAIT", "REP"}
  /\ hc_state = "REP" => hc_owes
  /\ hc_owes => hc_state \in {"WAIT", "REP"}
  /\ phase \in {"idle", "poll dht"} => HcSettled

DistanceInv ==
  /\ DOMAIN sensor = SensorFields
  /\ phase = "poll distance" => ~sensor.hcsr04_done
  /\ LatchInv
  /\ EchoInv
  /\ DistanceIsFresh

\* Nothing has been measured at first.
LEMMA DistanceInit == Init => DistanceInv
BY DEF Init, InitHcsr04, NoReading, DistanceInv, SensorFields, LatchInv, EchoInv,
       DistanceIsFresh, HcSettled

\* What the hardware does to the distance while a measurement runs.
LEMMA DistanceHardware ==
  ASSUME DistanceInv, Hardware
  PROVE  DistanceInv'
<1>1. CASE NextDht11 /\ UNCHANGED hc_vars
  BY <1>1 DEF Hardware, hc_vars, DistanceInv, LatchInv, EchoInv, DistanceIsFresh,
              HcSettled
<1>2. CASE TriggerEnds
  BY <1>2 DEF Hardware, TriggerEnds, DistanceInv, LatchInv, EchoInv,
              DistanceIsFresh, HcSettled
<1>3. CASE EchoRises
  BY <1>3 DEF Hardware, EchoRises, DistanceInv, LatchInv, EchoInv,
              DistanceIsFresh, HcSettled
<1>4. CASE LoseEcho
  BY <1>4 DEF Hardware, LoseEcho, DistanceInv, LatchInv, EchoInv,
              DistanceIsFresh, HcSettled
<1>5. ASSUME NEW cm \in Echoes, EchoFalls(cm) PROVE DistanceInv'
  <2>1. hc_echo' # <<>> /\ hc_echo'[1] = cm
    BY <1>5 DEF EchoFalls
  <2>2. phase \notin {"idle", "poll dht"}
    BY <1>5 DEF EchoFalls, DistanceInv, EchoInv, HcSettled
  <2> QED
    BY <1>5, <2>1, <2>2 DEF Hardware, EchoFalls, DistanceInv, LatchInv, EchoInv,
                            DistanceIsFresh, HcSettled
<1> QED
  BY <1>1, <1>2, <1>3, <1>4, <1>5 DEF Hardware, NextHcsr04

\* A start clears the latch and with it any claim on the register.
LEMMA DistanceStart ==
  ASSUME DistanceInv, Start
  PROVE  DistanceInv'
BY DEF Start, HCSR04_Start, DistanceInv, LatchInv, EchoInv, DistanceIsFresh,
       HcSettled

\* The call that waits starts the HC-SR04 likewise.
LEMMA DistanceBlocking ==
  ASSUME DistanceInv, MeasureBlocking
  PROVE  DistanceInv'
BY DEF MeasureBlocking, HCSR04_Start, NoReading, DistanceInv, SensorFields,
       LatchInv, EchoInv, DistanceIsFresh, HcSettled

\* The reading takes the distance only if the latch vouches for it.
LEMMA DistanceRead ==
  ASSUME DistanceInv, Read
  PROVE  DistanceInv'
<1>1. CASE done_latched
  <2>1. /\ hc_echo # <<>> /\ distance_latched = hc_echo[1] % DISTANCE_RANGE
        /\ hc_echo' = hc_echo /\ hc_state' = hc_state /\ hc_owes' = hc_owes
        /\ done_latched' = FALSE /\ phase' = "idle"
    BY <1>1 DEF Read, HCSR04_ClearDone, DistanceInv, LatchInv
  <2>2. /\ DOMAIN sensor' = SensorFields
        /\ sensor'.distance = distance_latched
    <3>1. \/ sensor' = WithDistance(NoReading)
          \/ sensor' = WithDht(WithDistance(NoReading))
      BY <1>1 DEF Read
    <3> QED
      BY <3>1 DEF WithDistance, WithDht, NoReading, SensorFields
  <2> QED
    BY <2>1, <2>2 DEF Read, DistanceInv, LatchInv, EchoInv, DistanceIsFresh,
                      HcSettled
<1>2. CASE ~done_latched
  <2>1. UNCHANGED hc_vars /\ phase' = "idle"
    BY <1>2 DEF Read
  <2>2. DOMAIN sensor' = SensorFields /\ sensor'.hcsr04_done = FALSE
    <3>1. sensor' = NoReading \/ sensor' = WithDht(NoReading)
      BY <1>2 DEF Read
    <3>2. DOMAIN NoReading = SensorFields /\ NoReading.hcsr04_done = FALSE
      BY DEF NoReading, SensorFields
    <3>3. /\ DOMAIN WithDht(NoReading) = SensorFields
          /\ WithDht(NoReading).hcsr04_done = NoReading.hcsr04_done
      <4> HIDE DEF NoReading
      <4> QED
        BY <3>2 DEF WithDht, SensorFields
    <3> QED
      BY <3>1, <3>2, <3>3, Zenon
  <2> QED
    BY <1>2, <2>1, <2>2 DEF Read, hc_vars, DistanceInv, LatchInv, EchoInv,
                            DistanceIsFresh, HcSettled
<1> QED
  BY <1>1, <1>2

\* So does the poll, which clears the latch if it was set.
LEMMA DistancePoll ==
  ASSUME DistanceInv, PollDistance
  PROVE  DistanceInv'
<1>1. CASE done_latched
  <2>1. /\ hc_echo # <<>> /\ distance_latched = hc_echo[1] % DISTANCE_RANGE
        /\ hc_echo' = hc_echo /\ hc_state' = hc_state /\ hc_owes' = hc_owes
        /\ done_latched' = FALSE /\ phase' = "poll dht"
        /\ sensor' = WithDistance(sensor)
    BY <1>1 DEF PollDistance, HCSR04_ClearDone, DistanceInv, LatchInv
  <2>2. DOMAIN sensor' = SensorFields /\ sensor'.distance = distance_latched
    BY <2>1 DEF WithDistance, DistanceInv, SensorFields
  <2>3. DistanceIsFresh'
    BY <2>1, <2>2 DEF DistanceIsFresh
  <2>4. EchoInv' /\ LatchInv'
    BY <1>1, <2>1 DEF DistanceInv, LatchInv, EchoInv, HcSettled
  <2> QED
    BY <2>1, <2>2, <2>3, <2>4 DEF DistanceInv
<1>2. CASE ~done_latched
  <2>1. /\ UNCHANGED <<hc_vars, sensor>> /\ HcSettled
        /\ phase = "poll distance" /\ phase' = "poll dht"
    BY <1>2 DEF PollDistance
  <2>2. ~sensor'.hcsr04_done
    BY <2>1 DEF DistanceInv
  <2>3. DistanceIsFresh'
    BY <2>2 DEF DistanceIsFresh
  <2>4. LatchInv' /\ EchoInv'
    BY <1>2, <2>1 DEF hc_vars, DistanceInv, LatchInv, EchoInv, HcSettled
  <2> QED
    BY <2>1, <2>3, <2>4 DEF DistanceInv
<1> QED
  BY <1>1, <1>2

\* A poll of the DHT11 leaves the distance alone.
LEMMA DistancePollDht ==
  ASSUME DistanceInv, PollDht
  PROVE  DistanceInv'
<1>1. /\ UNCHANGED hc_vars
      /\ phase' = "idle" /\ phase = "poll dht"
  BY DEF PollDht
<1>2. /\ DOMAIN sensor' = SensorFields
      /\ sensor'.hcsr04_done = sensor.hcsr04_done
      /\ sensor'.distance = sensor.distance
  BY DEF PollDht, WithDht, DistanceInv, SensorFields
<1> QED
  BY <1>1, <1>2 DEF hc_vars, DistanceInv, LatchInv, EchoInv, DistanceIsFresh,
                    HcSettled

\* Every step of a measurement keeps the invariant.
LEMMA DistanceStep == DistanceInv /\ [Next]_vars => DistanceInv'
<1> SUFFICES ASSUME DistanceInv, [Next]_vars PROVE DistanceInv'
  OBVIOUS
<1>1. CASE UNCHANGED vars
  BY <1>1 DEF vars, hc_vars, DistanceInv, LatchInv, EchoInv, DistanceIsFresh,
              HcSettled
<1> QED
  BY <1>1, DistanceHardware, DistanceStart, DistanceRead, DistanceBlocking,
     DistancePoll, DistancePollDht DEF Next

\* A distance reported by a measurement is the length of the echo of that
\* very measurement (MeasurementService.c:43, HCSR04.c:35): no latched
\* result of an earlier one is ever passed on.
THEOREM DistancesAreFresh == Spec => []DistanceIsFresh
<1>1. DistanceInv => DistanceIsFresh
  BY DEF DistanceInv
<1> QED
  BY <1>1, DistanceInit, DistanceStep, PTL DEF Spec

-----------------------------------------------------------------------------
(* The sensors keep answering.                                             *)

Bit == 0 .. 1

\* The widths of a byte and of a frame are positive numbers.
LEMMA WidthsArePositive ==
  BYTE_BITS \in Nat \ {0} /\ ByteRange \in Nat \ {0} /\ FRAME_BITS \in Nat \ {0}
<1>1. BYTE_BITS \in Nat \ {0}
  BY DhtAssumption
<1>2. ByteRange \in Nat \ {0}
  BY <1>1, PowerIsPositive DEF ByteRange
<1> QED
  BY <1>1, <1>2 DEF FRAME_BITS

\* A byte on the wire is as many bits as a byte has.
LEMMA BitsOfByte ==
  ASSUME NEW byte \in DhtByte
  PROVE  /\ Bits(byte) \in [1 .. BYTE_BITS -> Bit]
         /\ Bits(byte) \in Seq(Bit) /\ Len(Bits(byte)) = BYTE_BITS
<1>1. BYTE_BITS \in Nat /\ byte \in Nat
  BY WidthsArePositive DEF DhtByte
<1>2. ASSUME NEW i \in 1 .. BYTE_BITS
      PROVE  (byte \div 2 ^ (BYTE_BITS - i)) % 2 \in Bit
  <2> DEFINE power == 2 ^ (BYTE_BITS - i)
  <2>1. BYTE_BITS - i \in Nat
    BY <1>1
  <2>2. power \in Nat \ {0}
    BY <2>1, PowerIsPositive
  <2> HIDE DEF power
  <2>3. byte \div power \in Int
    BY <1>1, <2>2
  <2>4. (byte \div power) % 2 \in 0 .. 1
    BY <2>3
  <2> QED
    BY <2>4 DEF power, Bit
<1>3. Bits(byte) \in [1 .. BYTE_BITS -> Bit]
  BY <1>2 DEF Bits
<1> QED
  BY <1>1, <1>3

\* An answer is as many bits as data_reg has.
LEMMA FrameIsBits ==
  ASSUME NEW r \in Readings
  PROVE  FrameOf(r) \in Seq(Bit) /\ Len(FrameOf(r)) = FRAME_BITS
<1>1. r \in [1 .. 4 -> DhtByte]
  BY DhtAssumption
<1>2. r[1] \in DhtByte /\ r[2] \in DhtByte /\ r[3] \in DhtByte /\ r[4] \in DhtByte
  BY <1>1
<1>3. (r[1] + r[2] + r[3] + r[4]) % ByteRange \in DhtByte
  BY <1>2, WidthsArePositive DEF DhtByte
<1> DEFINE a == Bits(r[1])
           b == Bits(r[2])
           c == Bits(r[3])
           d == Bits(r[4])
           e == Bits((r[1] + r[2] + r[3] + r[4]) % ByteRange)
<1>4. /\ a \in Seq(Bit) /\ b \in Seq(Bit) /\ c \in Seq(Bit) /\ d \in Seq(Bit)
      /\ e \in Seq(Bit)
      /\ Len(a) = BYTE_BITS /\ Len(b) = BYTE_BITS /\ Len(c) = BYTE_BITS
      /\ Len(d) = BYTE_BITS /\ Len(e) = BYTE_BITS
  <2> HIDE DEF a, b, c, d, e
  <2>1. a \in Seq(Bit) /\ Len(a) = BYTE_BITS
    BY <1>2, BitsOfByte DEF a
  <2>2. b \in Seq(Bit) /\ Len(b) = BYTE_BITS
    BY <1>2, BitsOfByte DEF b
  <2>3. c \in Seq(Bit) /\ Len(c) = BYTE_BITS
    BY <1>2, BitsOfByte DEF c
  <2>4. d \in Seq(Bit) /\ Len(d) = BYTE_BITS
    BY <1>2, BitsOfByte DEF d
  <2>5. e \in Seq(Bit) /\ Len(e) = BYTE_BITS
    BY <1>3, BitsOfByte DEF e
  <2> QED
    BY <2>1, <2>2, <2>3, <2>4, <2>5
<1>5. FrameOf(r) = a \o b \o c \o d \o e
  BY DEF FrameOf
<1> HIDE DEF a, b, c, d, e
<1>6. \A s, t \in Seq(Bit) : s \o t \in Seq(Bit) /\ Len(s \o t) = Len(s) + Len(t)
  BY ConcatProperties
<1>7. a \o b \in Seq(Bit) /\ Len(a \o b) = BYTE_BITS + BYTE_BITS
  BY <1>4, <1>6, SMTT(40)
<1>8. a \o b \o c \in Seq(Bit) /\ Len(a \o b \o c) = BYTE_BITS + BYTE_BITS + BYTE_BITS
  BY <1>4, <1>6, <1>7
<1>9. /\ a \o b \o c \o d \in Seq(Bit)
      /\ Len(a \o b \o c \o d) = BYTE_BITS + BYTE_BITS + BYTE_BITS + BYTE_BITS
  BY <1>4, <1>6, <1>8
<1>10. /\ a \o b \o c \o d \o e \in Seq(Bit)
       /\ Len(a \o b \o c \o d \o e)
            = BYTE_BITS + BYTE_BITS + BYTE_BITS + BYTE_BITS + BYTE_BITS
  BY <1>4, <1>6, <1>9
<1> QED
  BY <1>5, <1>10, WidthsArePositive DEF FRAME_BITS

\* The register and the counter of the controller, and the sensor's line.  A
\* controller that waits for a sensor that owes nothing waits for ever.
DhtInv ==
  /\ c_state \in {"IDLE", "START", "SYNCH", "DATA_SYNC", "STOP"}
  /\ data_reg \in Seq(Bit) /\ Len(data_reg) = FRAME_BITS
  /\ bit_cnt \in 0 .. FRAME_BITS - 1
  /\ c_state \in {"START", "SYNCH"} => bit_cnt = 0
  /\ sending \in Seq(Bit)
  /\ c_state = "DATA_SYNC" /\ dht_owes => Len(sending) = FRAME_BITS - bit_cnt
  /\ sending # <<>> => c_state = "DATA_SYNC" /\ dht_owes
  /\ dht_owes => c_state \in {"SYNCH", "DATA_SYNC", "STOP"}
  /\ c_state = "STOP" => dht_owes
  /\ c_state \in {"SYNCH", "DATA_SYNC"} /\ ~dht_owes => dht_failed
  /\ dht_failed => c_state \in {"SYNCH", "DATA_SYNC"} /\ ~dht_owes
  /\ c_state # "IDLE" => ~dht_over

\* The distance controller waits in vain only for an echo that was lost, and
\* for that one it waits for ever.
HcInv ==
  /\ hc_state \in {"IDLE", "STAR", "WAIT", "REP"}
  /\ done_latched \in BOOLEAN /\ hc_owes \in BOOLEAN /\ hc_lost \in BOOLEAN
  /\ distance_latched \in 0 .. DISTANCE_RANGE - 1
  /\ done_latched => hc_state = "IDLE"
  /\ hc_echo \in {<<>>} \union {<<cm>> : cm \in Echoes}
  /\ hc_state = "REP" => hc_owes
  /\ hc_owes => hc_state \in {"WAIT", "REP"}
  /\ hc_state = "WAIT" /\ ~hc_owes => hc_lost
  /\ hc_lost => hc_state = "WAIT" /\ ~hc_owes

\* What a measurement may rely on while it runs, and leaves behind.
CallInv ==
  /\ phase \in {"idle", "measuring", "poll distance", "poll dht"}
  /\ call \in {"none", "service", "blocking", "overlapping"}
  /\ phase \in {"poll distance", "poll dht"} => call = "blocking"
  /\ phase \in {"idle", "poll dht"} => HcSettled
  /\ phase = "measuring" /\ hc_state = "IDLE" => done_latched
  /\ phase = "idle" /\ call \in {"none", "service"} => DhtSettled
  /\ phase = "measuring" /\ call = "service" /\ c_state = "IDLE" => dht_over
  /\ phase = "idle" /\ call = "service" =>
       /\ sensor.hcsr04_done <=> ~hc_lost
       /\ ~dht_failed => dht_over

AnswerInv == DhtInv /\ HcInv /\ CallInv

\* No sensor has been asked for anything at first.
LEMMA AnswerInit == Init => AnswerInv
<1> SUFFICES ASSUME Init PROVE AnswerInv
  OBVIOUS
<1>1. HcInv
  <2>1. 0 \in 0 .. DISTANCE_RANGE - 1
    BY DEF DISTANCE_RANGE
  <2> QED
    BY <2>1, Zenon DEF Init, InitHcsr04, HcInv
<1>2. CallInv
  BY DEF Init, InitHcsr04, InitDht11, CallInv, HcSettled, DhtSettled
<1>3. DhtInv
  <2>1. FRAME_BITS \in Nat \ {0}
    BY WidthsArePositive
  <2>2. data_reg \in [1 .. FRAME_BITS -> Bit] /\ data_reg \in Seq(Bit)
    BY <2>1 DEF Init, InitDht11, Bit
  <2>3. Len(data_reg) = FRAME_BITS
    BY <2>1, <2>2
  <2>4. sending = <<>> /\ sending \in Seq(Bit)
    BY DEF Init, InitDht11
  <2> QED
    BY <2>1, <2>2, <2>3, <2>4 DEF Init, InitDht11, DhtInv
<1> QED
  BY <1>1, <1>2, <1>3 DEF AnswerInv

-----------------------------------------------------------------------------
(* The controllers.                                                        *)

\* The DHT11 controller, its sensor and the line keep their part.
LEMMA DhtHardware ==
  ASSUME DhtInv, NextDht11
  PROVE  DhtInv'
<1> USE DEF DhtInv
<1>1. CASE Release
  BY <1>1 DEF Release
<1>2. CASE StopEnds
  BY <1>2 DEF StopEnds
<1>3. CASE SensorStops
  BY <1>3 DEF SensorStops
<1>4. ASSUME NEW r \in Readings, SensorAnswers(r) PROVE DhtInv'
  <2>1. /\ c_state' = "DATA_SYNC" /\ dht_owes /\ dht_owes' = dht_owes
        /\ sending' \in Seq(Bit) /\ Len(sending') = FRAME_BITS
        /\ bit_cnt = 0
        /\ UNCHANGED <<data_reg, bit_cnt, dht_failed, dht_over>>
        /\ ~dht_failed /\ ~dht_over
    BY <1>4, FrameIsBits DEF SensorAnswers
  <2> QED
    BY <2>1, WidthsArePositive
<1>5. ASSUME NEW damaged \in BOOLEAN, ReceiveBit(damaged) PROVE DhtInv'
  <2> DEFINE bit == IF damaged THEN 1 - Head(sending) ELSE Head(sending)
  <2>1. FRAME_BITS \in Nat \ {0}
    BY WidthsArePositive
  <2>2. /\ c_state = "DATA_SYNC" /\ sending # <<>> /\ dht_owes /\ dht_owes' = dht_owes
        /\ ~dht_failed' /\ ~dht_over'
        /\ data_reg' = Append(Tail(data_reg), bit) /\ sending' = Tail(sending)
        /\ c_state' = IF bit_cnt = FRAME_BITS - 1 THEN "STOP" ELSE "DATA_SYNC"
        /\ bit_cnt' = IF bit_cnt = FRAME_BITS - 1 THEN 0 ELSE bit_cnt + 1
    BY <1>5 DEF ReceiveBit, ShiftIn, LastBit
  <2>3. /\ Head(sending) \in Bit /\ sending' \in Seq(Bit)
        /\ Len(sending') = Len(sending) - 1 /\ Len(sending) = FRAME_BITS - bit_cnt
    BY <2>2, HeadTailProperties
  <2>4. bit \in Bit
    BY <2>3 DEF Bit
  <2> HIDE DEF bit
  <2>5. data_reg # <<>>
    BY <2>1, EmptySeq
  <2>6. Tail(data_reg) \in Seq(Bit) /\ Len(Tail(data_reg)) = FRAME_BITS - 1
    BY <2>5, HeadTailProperties
  <2>7. data_reg' \in Seq(Bit) /\ Len(data_reg') = FRAME_BITS
    BY <2>1, <2>2, <2>4, <2>6, AppendProperties
  <2>8. CASE bit_cnt = FRAME_BITS - 1
    <3>1. Len(sending') = 0
      BY <2>1, <2>3, <2>8
    <3>2. sending' = <<>>
      BY <2>3, <3>1, EmptySeq
    <3> QED
      BY <2>1, <2>2, <2>3, <2>7, <2>8, <3>2
  <2>9. CASE bit_cnt # FRAME_BITS - 1
    <3>1. bit_cnt' = bit_cnt + 1 /\ c_state' = "DATA_SYNC"
      BY <2>2, <2>9
    <3>2. bit_cnt \in 0 .. FRAME_BITS - 1
      OBVIOUS
    <3>3. bit_cnt' \in 0 .. FRAME_BITS - 1 /\ Len(sending') = FRAME_BITS - bit_cnt'
      BY <2>1, <2>3, <2>9, <3>1, <3>2
    <3> QED
      BY <2>2, <2>3, <2>7, <3>1, <3>3
  <2> QED
    BY <2>8, <2>9
<1> QED
  BY <1>1, <1>2, <1>3, <1>4, <1>5 DEF NextDht11

\* The HC-SR04 controller, its sensor and the echo keep their part.
LEMMA HcHardware ==
  ASSUME HcInv, NextHcsr04
  PROVE  HcInv'
<1> USE DEF HcInv
<1>1. CASE TriggerEnds
  BY <1>1 DEF TriggerEnds
<1>2. CASE EchoRises
  BY <1>2 DEF EchoRises
<1>3. CASE LoseEcho
  BY <1>3 DEF LoseEcho
<1>4. ASSUME NEW cm \in Echoes, EchoFalls(cm) PROVE HcInv'
  <2>1. cm \in Nat
    BY EchoAssumption
  <2>2. (cm % DISTANCE_RANGE) \in 0 .. DISTANCE_RANGE - 1
    BY <2>1 DEF DISTANCE_RANGE
  <2> QED
    BY <1>4, <2>2 DEF EchoFalls
<1> QED
  BY <1>1, <1>2, <1>3, <1>4 DEF NextHcsr04

\* A settled controller stays settled, and ends a measurement only with a
\* result.
LEMMA CallHardware ==
  ASSUME AnswerInv, Hardware
  PROVE  CallInv'
<1> USE DEF AnswerInv, CallInv, HcSettled, DhtSettled
<1>1. CASE NextDht11 /\ UNCHANGED hc_vars
  <2>1. CASE Release
    BY <1>1, <2>1 DEF Hardware, hc_vars, Release
  <2>2. CASE StopEnds
    BY <1>1, <2>2 DEF Hardware, hc_vars, StopEnds, DhtInv
  <2>3. CASE SensorStops
    BY <1>1, <2>3 DEF Hardware, hc_vars, SensorStops
  <2>4. ASSUME NEW r, SensorAnswers(r) PROVE CallInv'
    BY <1>1, <2>4 DEF Hardware, hc_vars, SensorAnswers
  <2>5. ASSUME NEW damaged, ReceiveBit(damaged) PROVE CallInv'
    BY <1>1, <2>5 DEF Hardware, hc_vars, ReceiveBit, DhtInv
  <2> QED
    BY <1>1, <2>1, <2>2, <2>3, <2>4, <2>5 DEF NextDht11
<1>2. CASE NextHcsr04 /\ UNCHANGED dht_vars
  <2>1. CASE TriggerEnds
    BY <1>2, <2>1 DEF Hardware, dht_vars, TriggerEnds
  <2>2. CASE EchoRises
    BY <1>2, <2>2 DEF Hardware, dht_vars, EchoRises
  <2>3. CASE LoseEcho
    BY <1>2, <2>3 DEF Hardware, dht_vars, LoseEcho
  <2>4. ASSUME NEW cm, EchoFalls(cm) PROVE CallInv'
    BY <1>2, <2>4 DEF Hardware, dht_vars, EchoFalls, HcInv
  <2> QED
    BY <1>2, <2>1, <2>2, <2>3, <2>4 DEF NextHcsr04
<1> QED
  BY <1>1, <1>2 DEF Hardware

-----------------------------------------------------------------------------
(* The program.                                                            *)

\* A start, or the clearing of done, keeps both controllers' parts.
LEMMA StartsKeepTypes ==
  /\ DhtInv /\ DHT11_Start => DhtInv'
  /\ HcInv /\ HCSR04_Start => HcInv'
  /\ HcInv /\ HCSR04_ClearDone => HcInv'
<1>1. DhtInv /\ DHT11_Start => DhtInv'
  BY WidthsArePositive DEF DhtInv, DHT11_Start
<1>2. HcInv /\ HCSR04_Start => HcInv'
  <2> SUFFICES ASSUME HcInv, HCSR04_Start PROVE HcInv'
    OBVIOUS
  <2>1. done_latched' \in BOOLEAN /\ hc_owes' \in BOOLEAN /\ hc_lost' \in BOOLEAN
    BY Zenon DEF HcInv, HCSR04_Start
  <2>2. hc_state' \in {"IDLE", "STAR", "WAIT", "REP"} /\ hc_state' # "IDLE"
    BY DEF HcInv, HCSR04_Start
  <2>3. hc_state' \in {"WAIT", "REP"} => hc_state' = hc_state
    BY DEF HCSR04_Start
  <2>4. hc_state \in {"WAIT", "REP"} => hc_state' = hc_state
    BY DEF HCSR04_Start
  <2> QED
    BY <2>1, <2>2, <2>3, <2>4 DEF HcInv, HCSR04_Start
<1>3. HcInv /\ HCSR04_ClearDone => HcInv'
  <2> SUFFICES ASSUME HcInv, HCSR04_ClearDone PROVE HcInv'
    OBVIOUS
  <2>1. /\ done_latched' = FALSE
        /\ UNCHANGED <<hc_state, distance_latched, hc_owes, hc_lost, hc_echo>>
    BY DEF HCSR04_ClearDone
  <2> QED
    BY <2>1, Zenon DEF HcInv
<1> QED
  BY <1>1, <1>2, <1>3

\* A poll of MeasurementService_Read keeps the invariant.
LEMMA AnswerRead ==
  ASSUME AnswerInv, Read
  PROVE  AnswerInv'
<1>1. DhtInv'
  BY DEF Read, dht_vars, AnswerInv, DhtInv
<1>2. HcInv'
  <2>1. CASE done_latched
    BY <2>1, StartsKeepTypes DEF Read, AnswerInv
  <2>2. CASE ~done_latched
    BY <2>2 DEF Read, hc_vars, AnswerInv, HcInv
  <2> QED
    BY <2>1, <2>2
<1>3. /\ phase = "measuring" /\ phase' = "idle" /\ HcSettled /\ DhtSettled
      /\ UNCHANGED dht_vars /\ call' = call
      /\ UNCHANGED <<hc_state, hc_owes, hc_lost>>
  BY DEF Read, HCSR04_ClearDone, hc_vars
<1>4. ~hc_lost => done_latched
  BY <1>3 DEF AnswerInv, HcInv, CallInv, HcSettled
<1>5. done_latched => sensor'.hcsr04_done = TRUE
  <2> SUFFICES ASSUME done_latched PROVE sensor'.hcsr04_done = TRUE
    OBVIOUS
  <2>1. \/ sensor' = WithDistance(NoReading)
        \/ sensor' = WithDht(WithDistance(NoReading))
    BY DEF Read
  <2> QED
    BY <2>1 DEF WithDistance, WithDht, NoReading
<1>6. ~done_latched => sensor'.hcsr04_done = FALSE
  <2> SUFFICES ASSUME ~done_latched PROVE sensor'.hcsr04_done = FALSE
    OBVIOUS
  <2>1. sensor' = NoReading \/ sensor' = WithDht(NoReading)
    BY DEF Read
  <2>2. NoReading.hcsr04_done = FALSE
    BY DEF NoReading
  <2>3. WithDht(NoReading).hcsr04_done = NoReading.hcsr04_done
    BY Zenon DEF WithDht, NoReading
  <2> QED
    BY <2>1, <2>2, <2>3, Zenon
<1>7. hc_lost => ~done_latched
  BY DEF AnswerInv, HcInv
<1>8. call = "service" /\ ~dht_failed => dht_over
  BY <1>3 DEF AnswerInv, DhtInv, CallInv, DhtSettled
<1>9. phase' = "idle" /\ call' = call /\ call \in {"none", "service", "blocking", "overlapping"}
  BY <1>3 DEF AnswerInv, CallInv
<1>10. HcSettled' /\ DhtSettled'
  BY <1>3 DEF HcSettled, DhtSettled, dht_vars
<1>11. call' = "service" =>
        (sensor'.hcsr04_done <=> ~hc_lost') /\ (~dht_failed' => dht_over')
  BY <1>3, <1>4, <1>5, <1>8, <1>6, <1>7, Zenon DEF dht_vars
<1>12. CallInv'
  BY <1>9, <1>10, <1>11 DEF CallInv
<1> QED
  BY <1>1, <1>2, <1>12 DEF AnswerInv

\* Every step keeps the invariant.
LEMMA AnswerStep == AnswerInv /\ [Next]_vars => AnswerInv'
<1> SUFFICES ASSUME AnswerInv, [Next]_vars PROVE AnswerInv'
  OBVIOUS
<1>1. CASE Hardware
  <2>1. DhtInv' /\ HcInv'
    <3>1. CASE NextDht11 /\ UNCHANGED hc_vars
      BY <3>1, DhtHardware DEF AnswerInv, hc_vars, HcInv
    <3>2. CASE NextHcsr04 /\ UNCHANGED dht_vars
      BY <3>2, HcHardware DEF AnswerInv, dht_vars, DhtInv
    <3> QED
      BY <1>1, <3>1, <3>2 DEF Hardware
  <2> QED
    BY <1>1, <2>1, CallHardware DEF AnswerInv
<1>2. CASE Start
  <2>1. DhtInv' /\ HcInv'
    BY <1>2, StartsKeepTypes DEF Start, AnswerInv
  <2>2. CallInv'
    BY <1>2 DEF Start, HCSR04_Start, DHT11_Start, AnswerInv, DhtInv, HcInv, CallInv,
                HcSettled, DhtSettled
  <2> QED
    BY <2>1, <2>2 DEF AnswerInv
<1>3. CASE Read
  BY <1>3, AnswerRead
<1>4. CASE MeasureBlocking
  <2>1. DhtInv' /\ HcInv'
    BY <1>4, StartsKeepTypes DEF MeasureBlocking, AnswerInv, dht_vars, DhtInv
  <2>2. CallInv'
    BY <1>4 DEF MeasureBlocking, CallInv
  <2> QED
    BY <2>1, <2>2 DEF AnswerInv
<1>5. CASE PollDistance
  <2>1. DhtInv'
    BY <1>5, StartsKeepTypes DEF PollDistance, AnswerInv
  <2>2. HcInv' /\ UNCHANGED <<hc_state, hc_owes>>
    <3>1. CASE HCSR04_ClearDone
      BY <3>1, StartsKeepTypes DEF AnswerInv, HCSR04_ClearDone
    <3>2. CASE UNCHANGED hc_vars
      BY <3>2 DEF AnswerInv, HcInv, hc_vars
    <3> QED
      BY <1>5, <3>1, <3>2 DEF PollDistance
  <2>3. HcSettled
    BY <1>5 DEF PollDistance, AnswerInv, CallInv, HcInv, HcSettled
  <2>4. CallInv'
    BY <1>5, <2>2, <2>3 DEF PollDistance, AnswerInv, CallInv, HcSettled
  <2> QED
    BY <2>1, <2>2, <2>4 DEF AnswerInv
<1>6. CASE PollDht
  <2>1. DhtInv' /\ HcInv'
    BY <1>6 DEF PollDht, AnswerInv, hc_vars, dht_vars, DhtInv, HcInv
  <2>2. CallInv'
    BY <1>6 DEF PollDht, AnswerInv, CallInv, hc_vars, dht_vars, HcSettled
  <2> QED
    BY <2>1, <2>2 DEF AnswerInv
<1>7. CASE UNCHANGED vars
  <2>1. DhtInv' /\ HcInv'
    BY <1>7 DEF vars, AnswerInv, hc_vars, dht_vars, DhtInv, HcInv
  <2>2. CallInv'
    BY <1>7 DEF vars, AnswerInv, CallInv, hc_vars, dht_vars, HcSettled, DhtSettled
  <2> QED
    BY <2>1, <2>2 DEF AnswerInv
<1> QED
  BY <1>1, <1>2, <1>3, <1>4, <1>5, <1>6, <1>7 DEF Next

\* However long the program runs, every measurement brings the readings of
\* the sensors that have always answered, and of those alone: neither of their
\* controllers stays busy over the next start, and one whose sensor has once
\* stayed silent never ends a measurement again (MeasurementService.c:38,
\* hcsr04.v, dht11_controller.v).
THEOREM SensorsAnswer == Spec => []SensorsKeepAnswering
<1>1. AnswerInv => SensorsKeepAnswering
  <2> SUFFICES ASSUME AnswerInv PROVE SensorsKeepAnswering
    OBVIOUS
  <2>1. data_reg \in [1 .. FRAME_BITS -> 0 .. 1]
    BY LenProperties DEF AnswerInv, DhtInv, Bit
  <2>2. MeasurementTypeOK
    BY <2>1 DEF AnswerInv, DhtInv, HcInv, CallInv, MeasurementTypeOK
  <2> QED
    BY <2>2, Zenon DEF AnswerInv, CallInv, SensorsKeepAnswering, DhtInv
<1> QED
  BY <1>1, AnswerInit, AnswerStep, PTL DEF Spec

-----------------------------------------------------------------------------
(* One misread bit is always caught.                                       *)

\* The values of the first bits, one bit more at a time.
PartialValues(v, L, bits) ==
  /\ v \in [0 .. L -> Int]
  /\ v[0] = 0
  /\ \A i \in 1 .. L : v[i] = 2 * v[i - 1] + bits[i]

\* The value of a sequence of bits is the last of them.
LEMMA ValueIs ==
  \A L \in Nat : \A bits \in [1 .. L -> Bit] :
    \E v : PartialValues(v, L, bits) /\ Value(bits) = v[L]
<1> SUFFICES ASSUME NEW L \in Nat, NEW bits \in [1 .. L -> Bit]
             PROVE  \E v : PartialValues(v, L, bits) /\ Value(bits) = v[L]
  BY Zenon
<1>1. Len(bits) = L
  OBVIOUS
<1> DEFINE Is(v) == v = [i \in 0 .. Len(bits) |->
                           IF i = 0 THEN 0 ELSE 2 * v[i - 1] + bits[i]]
           V == CHOOSE v : Is(v)
<1>2. Value(bits) = V[Len(bits)]
  BY DEF Value
<1>3. PICK f \in [0 .. L -> Int] :
        f[0] = 0 /\ \A i \in 1 .. L : f[i] = 2 * f[i - 1] + bits[i]
  <2> DEFINE G == [p \in Int \X (1 .. L) |-> 2 * p[1] + bits[p[2]]]
  <2>1. G \in [Int \X (1 .. L) -> Int]
    <3>1. \A p \in Int \X (1 .. L) : 2 * p[1] + bits[p[2]] \in Int
      BY DEF Bit
    <3> QED
      BY <3>1
  <2>2. PICK f \in [0 .. L -> Int] : f[0] = 0 /\ \A i \in 1 .. L : f[i] = G[<<f[i - 1], i>>]
    <3>1. 0 \in Int
      OBVIOUS
    <3> HIDE DEF G
    <3> QED
      BY <2>1, <3>1, RecursionExists, Zenon
  <2>3. ASSUME NEW i \in 1 .. L PROVE f[i] = 2 * f[i - 1] + bits[i]
    <3>1. <<f[i - 1], i>> \in Int \X (1 .. L)
      OBVIOUS
    <3>2. G[<<f[i - 1], i>>] = 2 * f[i - 1] + bits[i]
      BY <3>1
    <3> QED
      BY <2>2, <3>2, Zenon
  <2> QED
    BY <2>2, <2>3
<1>4. Is(f)
  <2>1. ASSUME NEW i \in 0 .. L
        PROVE  f[i] = IF i = 0 THEN 0 ELSE 2 * f[i - 1] + bits[i]
    BY <1>3
  <2>2. f = [i \in 0 .. L |-> f[i]]
    OBVIOUS
  <2>3. f = [i \in 0 .. L |-> IF i = 0 THEN 0 ELSE 2 * f[i - 1] + bits[i]]
    BY <2>1, <2>2
  <2> QED
    BY <1>1, <2>3
<1>5. Is(V)
  <2> HIDE DEF Is
  <2> QED
    BY <1>4
<1> HIDE DEF V
<1> DEFINE X == {n \in Nat : n <= L => V[n] = f[n]}
<1>6. 0 \in X
  BY <1>1, <1>3, <1>5
<1>7. ASSUME NEW n \in Nat, n \in X PROVE n + 1 \in X
  <2> SUFFICES ASSUME n + 1 <= L PROVE V[n + 1] = f[n + 1]
    OBVIOUS
  <2>1. n + 1 \in 1 .. L /\ n + 1 \in 0 .. L /\ n + 1 # 0 /\ (n + 1) - 1 = n
    OBVIOUS
  <2>2. V[n + 1] = 2 * V[(n + 1) - 1] + bits[n + 1]
    BY <1>1, <1>5, <2>1
  <2>3. f[n + 1] = 2 * f[(n + 1) - 1] + bits[n + 1]
    BY <1>3, <2>1
  <2>4. V[n] = f[n]
    BY <1>7
  <2> QED
    BY <2>1, <2>2, <2>3, <2>4, Zenon
<1>8. L \in X
  <2> HIDE DEF X
  <2> QED
    BY <1>6, <1>7, NumbersFromZero
<1>9. Value(bits) = f[L]
  BY <1>1, <1>2, <1>8
<1>10. PartialValues(f, L, bits)
  BY <1>3, Zenon DEF PartialValues
<1> QED
  BY <1>9, <1>10, Zenon

\* The value of L bits is less than 2 ^ L.
LEMMA ValueInRange ==
  \A L \in Nat : \A bits \in [1 .. L -> Bit] : Value(bits) \in 0 .. 2 ^ L - 1
<1> SUFFICES ASSUME NEW L \in Nat, NEW bits \in [1 .. L -> Bit]
             PROVE  Value(bits) \in 0 .. 2 ^ L - 1
  OBVIOUS
<1>1. PICK v : PartialValues(v, L, bits) /\ Value(bits) = v[L]
  BY ValueIs, Zenon
<1> DEFINE X == {n \in Nat : n <= L => v[n] \in 0 .. 2 ^ n - 1}
<1>2. 0 \in X
  BY <1>1, PowerOfZero DEF PartialValues
<1>3. ASSUME NEW n \in Nat, n \in X PROVE n + 1 \in X
  <2> SUFFICES ASSUME n + 1 <= L PROVE v[n + 1] \in 0 .. 2 ^ (n + 1) - 1
    OBVIOUS
  <2>1. n + 1 \in 1 .. L /\ (n + 1) - 1 = n
    OBVIOUS
  <2>2. v[n + 1] = 2 * v[n] + bits[n + 1] /\ bits[n + 1] \in 0 .. 1
    BY <1>1, <2>1 DEF PartialValues, Bit
  <2> DEFINE low == 2 ^ n
             high == 2 ^ (n + 1)
  <2>3. low \in Nat /\ high = 2 * low
    BY PowerIsPositive, PowerDoubles
  <2>4. v[n] \in 0 .. low - 1
    BY <1>3
  <2> HIDE DEF low, high
  <2>5. v[n + 1] \in 0 .. high - 1
    BY <2>2, <2>3, <2>4
  <2> QED
    BY <2>5 DEF high
<1>4. L \in X
  <2> HIDE DEF X
  <2> QED
    BY <1>2, <1>3, NumbersFromZero
<1> QED
  BY <1>1, <1>4

\* No two sequences of L bits have one value.
LEMMA ValueTellsBits ==
  \A L \in Nat : \A bits \in [1 .. L -> Bit] : \A other \in [1 .. L -> Bit] :
    Value(bits) = Value(other) => bits = other
<1> SUFFICES ASSUME NEW L \in Nat, NEW bits \in [1 .. L -> Bit],
                    NEW other \in [1 .. L -> Bit], Value(bits) = Value(other)
             PROVE  bits = other
  OBVIOUS
<1>1. PICK v : PartialValues(v, L, bits) /\ Value(bits) = v[L]
  BY ValueIs, Zenon
<1>2. PICK w : PartialValues(w, L, other) /\ Value(other) = w[L]
  BY ValueIs, Zenon
<1> DEFINE X == {n \in Nat : n <= L /\ v[n] = w[n] => \A i \in 1 .. n : bits[i] = other[i]}
<1>3. 0 \in X
  OBVIOUS
<1>4. ASSUME NEW n \in Nat, n \in X PROVE n + 1 \in X
  <2> SUFFICES ASSUME n + 1 <= L, v[n + 1] = w[n + 1]
               PROVE  \A i \in 1 .. n + 1 : bits[i] = other[i]
    OBVIOUS
  <2>1. n + 1 \in 1 .. L /\ (n + 1) - 1 = n /\ n \in 0 .. L
    OBVIOUS
  <2>2. v[n + 1] = 2 * v[n] + bits[n + 1] /\ bits[n + 1] \in 0 .. 1 /\ v[n] \in Int
    BY <1>1, <2>1 DEF PartialValues, Bit
  <2>3. w[n + 1] = 2 * w[n] + other[n + 1] /\ other[n + 1] \in 0 .. 1 /\ w[n] \in Int
    BY <1>2, <2>1 DEF PartialValues, Bit
  <2>4. v[n] = w[n] /\ bits[n + 1] = other[n + 1]
    <3> DEFINE a == v[n]
               b == bits[n + 1]
               c == w[n]
               d == other[n + 1]
    <3>1. a \in Int /\ c \in Int /\ b \in 0 .. 1 /\ d \in 0 .. 1 /\ 2 * a + b = 2 * c + d
      BY <2>2, <2>3, Zenon
    <3> HIDE DEF a, b, c, d
    <3>2. a = c /\ b = d
      BY <3>1
    <3> QED
      BY <3>2, Zenon DEF a, b, c, d
  <2>5. \A i \in 1 .. n : bits[i] = other[i]
    BY <1>4, <2>1, <2>4
  <2> QED
    BY <2>4, <2>5
<1>5. L \in X
  <2> HIDE DEF X
  <2> QED
    BY <1>3, <1>4, NumbersFromZero
<1>6. \A i \in 1 .. L : bits[i] = other[i]
  <2>1. v[L] = w[L]
    BY <1>1, <1>2, Zenon
  <2> QED
    BY <1>5, <2>1
<1> QED
  BY <1>6

\* The bits of a byte have its value.
LEMMA ValueOfBits == \A byte \in DhtByte : Value(Bits(byte)) = byte
<1> SUFFICES ASSUME NEW byte \in DhtByte PROVE Value(Bits(byte)) = byte
  OBVIOUS
<1> DEFINE B == BYTE_BITS
           bits == Bits(byte)
           Above(n) == byte \div 2 ^ (B - n)
<1>1. B \in Nat /\ byte \in Nat /\ byte < 2 ^ B /\ 2 ^ B \in Nat \ {0}
  BY WidthsArePositive DEF DhtByte, ByteRange
<1>2. bits \in [1 .. B -> Bit]
  BY BitsOfByte, Zenon
<1>3. \A i \in 1 .. B : bits[i] = Above(i) % 2
  BY DEF Bits
<1> HIDE DEF B, bits
<1>4. PICK v : PartialValues(v, B, bits) /\ Value(bits) = v[B]
  BY <1>1, <1>2, ValueIs, Zenon
<1> DEFINE X == {n \in Nat : n <= B => v[n] = Above(n)}
<1>5. 0 \in X
  <2> DEFINE T == 2 ^ B
  <2>1. T \in Nat \ {0} /\ byte < T
    BY <1>1
  <2> HIDE DEF T
  <2>2. byte \div T = 0
    <3>1. byte \in Int /\ 0 \in Int /\ byte \in 0 .. T - 1 /\ byte = 0 * T + byte
      BY <1>1, <2>1
    <3> QED
      BY <2>1, <3>1, QuotientUnique, Zenon
  <2>3. B - 0 = B
    BY <1>1
  <2>4. v[0] = 0
    BY <1>4, Zenon DEF PartialValues
  <2>5. v[0] = Above(0)
    BY <2>2, <2>3, <2>4, Zenon DEF T
  <2> QED
    BY <2>5
<1>6. ASSUME NEW n \in Nat, n \in X PROVE n + 1 \in X
  <2> SUFFICES ASSUME n + 1 <= B PROVE v[n + 1] = Above(n + 1)
    OBVIOUS
  <2> DEFINE P == 2 ^ (B - (n + 1))
             y == byte \div P
             z == byte \div (2 * P)
  <2>1. n + 1 \in 1 .. B /\ (n + 1) - 1 = n /\ B - (n + 1) \in Nat
        /\ (B - (n + 1)) + 1 = B - n
    BY <1>1
  <2>2. P \in Nat \ {0} /\ 2 ^ (B - n) = 2 * P
    BY <2>1, PowerIsPositive, PowerDoubles
  <2>3. y = 2 * z + (y % 2)
    <3> HIDE DEF P
    <3> QED
      BY <1>1, <2>2, HalfOfQuotient, Zenon
  <2>4. v[n + 1] = 2 * v[n] + bits[n + 1]
    BY <1>4, <2>1 DEF PartialValues
  <2>5. v[n] = z
    <3>1. v[n] = Above(n)
      BY <1>1, <1>6
    <3> QED
      BY <2>2, <3>1, Zenon
  <2>6. bits[n + 1] = y % 2
    BY <1>3, <2>1, Zenon
  <2> HIDE DEF y, z
  <2>7. v[n + 1] = y
    BY <2>3, <2>4, <2>5, <2>6, Zenon
  <2> QED
    BY <2>7, Zenon DEF y
<1>7. B \in X
  <2> HIDE DEF X
  <2> QED
    BY <1>1, <1>5, <1>6, NumbersFromZero
<1>8. v[B] = byte \div 2 ^ 0
  <2>1. B - B = 0
    BY <1>1
  <2>2. v[B] = Above(B)
    BY <1>1, <1>7
  <2> QED
    BY <2>1, <2>2, Zenon
<1>9. byte \div 1 = byte
  BY <1>1
<1> QED
  BY <1>4, <1>8, <1>9, PowerOfZero, Zenon DEF bits

-----------------------------------------------------------------------------
(* The forty bits.                                                         *)

\* The five bytes that make up the answer r.
SentBytes(r) == <<r[1], r[2], r[3], r[4], (r[1] + r[2] + r[3] + r[4]) % ByteRange>>

\* Where the n-th byte starts, and the n-th byte of forty bits.
Offset(n) == (n - 1) * BYTE_BITS
Part(s, n) == SubSeq(s, (n - 1) * BYTE_BITS + 1, n * BYTE_BITS)

\* The bytes follow one another.
LEMMA Offsets ==
  /\ BYTE_BITS \in Nat \ {0}
  /\ Offset(1) = 0 /\ Offset(2) = BYTE_BITS
  /\ Offset(3) = BYTE_BITS + BYTE_BITS
  /\ Offset(4) = BYTE_BITS + BYTE_BITS + BYTE_BITS
  /\ Offset(5) = BYTE_BITS + BYTE_BITS + BYTE_BITS + BYTE_BITS
  /\ FRAME_BITS = BYTE_BITS + BYTE_BITS + BYTE_BITS + BYTE_BITS + BYTE_BITS
BY WidthsArePositive DEF Offset, FRAME_BITS

\* Every one of the forty bits is one bit of one byte.
LEMMA BitPlaces ==
  /\ \A p \in 1 .. FRAME_BITS : \E n \in 1 .. 5 : \E j \in 1 .. BYTE_BITS : p = Offset(n) + j
  /\ \A n \in 1 .. 5 : \A j \in 1 .. BYTE_BITS : Offset(n) + j \in 1 .. FRAME_BITS
  /\ \A m, n \in 1 .. 5 : \A i, j \in 1 .. BYTE_BITS :
       Offset(m) + i = Offset(n) + j => m = n /\ i = j
<1> DEFINE B == BYTE_BITS
<1>1. \A n \in 1 .. 5 : n \in {1, 2, 3, 4, 5}
  OBVIOUS
<1>2. \A n \in {1, 2, 3, 4, 5} : n \in 1 .. 5
  OBVIOUS
<1>3. ASSUME NEW p \in 1 .. FRAME_BITS
      PROVE  \E n \in {1, 2, 3, 4, 5} : \E j \in 1 .. BYTE_BITS : p = Offset(n) + j
  <2>1. CASE p <= B
    <3>1. p \in 1 .. B /\ p = Offset(1) + p
      BY <2>1, Offsets
    <3> QED
      BY <3>1
  <2>2. CASE p > B /\ p <= B + B
    <3>1. p - B \in 1 .. B /\ p = Offset(2) + (p - B)
      BY <2>2, Offsets
    <3> QED
      BY <3>1
  <2>3. CASE p > B + B /\ p <= B + B + B
    <3>1. p - (B + B) \in 1 .. B /\ p = Offset(3) + (p - (B + B))
      BY <2>3, Offsets
    <3> QED
      BY <3>1
  <2>4. CASE p > B + B + B /\ p <= B + B + B + B
    <3>1. p - (B + B + B) \in 1 .. B /\ p = Offset(4) + (p - (B + B + B))
      BY <2>4, Offsets
    <3> QED
      BY <3>1
  <2>5. CASE p > B + B + B + B
    <3>1. p - (B + B + B + B) \in 1 .. B /\ p = Offset(5) + (p - (B + B + B + B))
      BY <2>5, Offsets
    <3> QED
      BY <3>1
  <2> QED
    BY <2>1, <2>2, <2>3, <2>4, <2>5, Offsets
<1>4. ASSUME NEW n \in 1 .. 5, NEW j \in 1 .. BYTE_BITS
      PROVE  Offset(n) + j \in 1 .. FRAME_BITS
  BY <1>1, Offsets
<1>5. ASSUME NEW m \in 1 .. 5, NEW n \in 1 .. 5,
             NEW i \in 1 .. BYTE_BITS, NEW j \in 1 .. BYTE_BITS,
             Offset(m) + i = Offset(n) + j
      PROVE  m = n /\ i = j
  BY <1>1, <1>5, Offsets
<1> QED
  BY <1>2, <1>3, <1>4, <1>5

\* A byte of forty bits, bit by bit.
LEMMA PartIs ==
  \A s \in Seq(Bit) : Len(s) = FRAME_BITS =>
    \A n \in 1 .. 5 :
      /\ Part(s, n) \in [1 .. BYTE_BITS -> Bit]
      /\ \A j \in 1 .. BYTE_BITS : Part(s, n)[j] = s[Offset(n) + j]
<1> SUFFICES ASSUME NEW s \in Seq(Bit), Len(s) = FRAME_BITS, NEW n \in 1 .. 5
             PROVE  /\ Part(s, n) \in [1 .. BYTE_BITS -> Bit]
                    /\ \A j \in 1 .. BYTE_BITS : Part(s, n)[j] = s[Offset(n) + j]
  OBVIOUS
<1> DEFINE o == Offset(n)
           m == o + 1
           k == o + BYTE_BITS
<1>1. o \in Nat /\ BYTE_BITS \in Nat \ {0} /\ k <= FRAME_BITS
  <2>1. n \in {1, 2, 3, 4, 5}
    OBVIOUS
  <2> QED
    BY <2>1, Offsets
<1>2. Part(s, n) = SubSeq(s, m, k)
  <2>1. n * BYTE_BITS = (n - 1) * BYTE_BITS + BYTE_BITS
    <3>1. n \in {1, 2, 3, 4, 5}
      OBVIOUS
    <3> QED
      BY <1>1, <3>1
  <2> QED
    BY <2>1, Zenon DEF Part, Offset
<1> HIDE DEF o
<1>3. \A i \in m .. k : i \in 1 .. FRAME_BITS /\ s[i] \in Bit
  <2>1. s \in [1 .. FRAME_BITS -> Bit]
    BY LenProperties
  <2> QED
    BY <1>1, <2>1
<1>4. /\ Part(s, n) \in Seq(Bit) /\ Len(Part(s, n)) = BYTE_BITS
      /\ \A j \in 1 .. BYTE_BITS : Part(s, n)[j] = s[o + j]
  <2>1. m \in Int /\ k \in Int
    BY <1>1
  <2>2. \A i \in m .. k : s[i] \in Bit
    BY <1>3
  <2>3. SubSeq(s, m, k) \in Seq(Bit)
    BY <2>1, <2>2, SubSeqProperties
  <2>4. Len(SubSeq(s, m, k)) = IF m <= k THEN k - m + 1 ELSE 0
    BY <2>1, <2>2, SubSeqProperties
  <2>5. \A i \in 1 .. k - m + 1 : SubSeq(s, m, k)[i] = s[m + i - 1]
    BY <2>1, <2>2, SubSeqProperties
  <2>6. m <= k /\ k - m + 1 = BYTE_BITS
    BY <1>1
  <2>7. \A i \in 1 .. BYTE_BITS : m + i - 1 = o + i
    BY <1>1
  <2> HIDE DEF m, k
  <2> QED
    BY <1>2, <2>3, <2>4, <2>5, <2>6, <2>7, Zenon
<1>5. Part(s, n) \in [1 .. BYTE_BITS -> Bit]
  BY <1>4, LenProperties
<1> QED
  BY <1>4, <1>5 DEF o
\* The bytes that are sent are bytes.
LEMMA SentAreBytes ==
  \A r \in Readings : \A n \in 1 .. 5 : SentBytes(r)[n] \in DhtByte
<1> SUFFICES ASSUME NEW r \in Readings, NEW n \in 1 .. 5 PROVE SentBytes(r)[n] \in DhtByte
  OBVIOUS
<1>1. r \in [1 .. 4 -> DhtByte]
  BY DhtAssumption
<1>2. r[1] \in DhtByte /\ r[2] \in DhtByte /\ r[3] \in DhtByte /\ r[4] \in DhtByte
  BY <1>1
<1>3. (r[1] + r[2] + r[3] + r[4]) % ByteRange \in DhtByte
  BY <1>2, WidthsArePositive DEF DhtByte
<1>4. n \in {1, 2, 3, 4, 5}
  OBVIOUS
<1> DEFINE sum == (r[1] + r[2] + r[3] + r[4]) % ByteRange
<1>5. SentBytes(r) = <<r[1], r[2], r[3], r[4], sum>>
  BY DEF SentBytes
<1> HIDE DEF sum
<1> QED
  BY <1>2, <1>3, <1>4, <1>5 DEF sum

\* The answer is its five bytes, one after the other.
LEMMA FrameBits ==
  \A r \in Readings : \A n \in 1 .. 5 : \A j \in 1 .. BYTE_BITS :
    FrameOf(r)[Offset(n) + j] = Bits(SentBytes(r)[n])[j]
<1> SUFFICES ASSUME NEW r \in Readings, NEW n \in 1 .. 5, NEW j \in 1 .. BYTE_BITS
             PROVE  FrameOf(r)[Offset(n) + j] = Bits(SentBytes(r)[n])[j]
  OBVIOUS
<1> DEFINE B == BYTE_BITS
           sum == (r[1] + r[2] + r[3] + r[4]) % ByteRange
           a == Bits(r[1])
           b == Bits(r[2])
           c == Bits(r[3])
           d == Bits(r[4])
           e == Bits(sum)
           ab == a \o b
           abc == ab \o c
           abcd == abc \o d
           abcde == abcd \o e
<1>1. /\ SentBytes(r)[1] = r[1] /\ SentBytes(r)[2] = r[2] /\ SentBytes(r)[3] = r[3]
      /\ SentBytes(r)[4] = r[4] /\ SentBytes(r)[5] = sum
  <2> HIDE DEF sum
  <2>1. SentBytes(r) = <<r[1], r[2], r[3], r[4], sum>>
    BY DEF SentBytes, sum
  <2> QED
    BY <2>1
<1>2. r[1] \in DhtByte /\ r[2] \in DhtByte /\ r[3] \in DhtByte /\ r[4] \in DhtByte
      /\ sum \in DhtByte
  <2>1. 1 \in 1 .. 5 /\ 2 \in 1 .. 5 /\ 3 \in 1 .. 5 /\ 4 \in 1 .. 5 /\ 5 \in 1 .. 5
    OBVIOUS
  <2> HIDE DEF sum
  <2> QED
    BY <1>1, <2>1, SentAreBytes, Zenon
<1>3. \A byte \in DhtByte : Bits(byte) \in Seq(Bit) /\ Len(Bits(byte)) = B
  <2>1. ASSUME NEW byte \in DhtByte PROVE Bits(byte) \in Seq(Bit) /\ Len(Bits(byte)) = B
    <3>1. Bits(byte) \in [1 .. B -> Bit]
      BY BitsOfByte, Zenon
    <3>2. B \in Nat
      BY Offsets
    <3> HIDE DEF B
    <3> QED
      BY <3>1, <3>2
  <2> QED
    BY <2>1
<1>4. FrameOf(r) = abcde
  BY DEF FrameOf
<1>5. /\ Bits(SentBytes(r)[1]) = a /\ Bits(SentBytes(r)[2]) = b
      /\ Bits(SentBytes(r)[3]) = c /\ Bits(SentBytes(r)[4]) = d
      /\ Bits(SentBytes(r)[5]) = e
  BY <1>1, Zenon
<1>6. /\ a \in Seq(Bit) /\ b \in Seq(Bit) /\ c \in Seq(Bit) /\ d \in Seq(Bit)
      /\ e \in Seq(Bit)
      /\ Len(a) = B /\ Len(b) = B /\ Len(c) = B /\ Len(d) = B /\ Len(e) = B
  BY <1>2, <1>3, Zenon
<1>7. B \in Nat \ {0}
  BY Offsets
<1> HIDE DEF sum, a, b, c, d, e
<1> DEFINE Joined(s, t) ==
             /\ s \o t \in Seq(Bit) /\ Len(s \o t) = Len(s) + Len(t)
             /\ \A i \in 1 .. Len(s) + Len(t) :
                  (s \o t)[i] = IF i <= Len(s) THEN s[i] ELSE t[i - Len(s)]
<1>8. \A s, t \in Seq(Bit) : Joined(s, t)
  BY ConcatProperties, Zenon
<1>9. /\ ab \in Seq(Bit) /\ Len(ab) = B + B
      /\ \A i \in 1 .. B : ab[i] = a[i] /\ ab[B + i] = b[i]
  <2>1. Joined(a, b)
    BY <1>6, <1>8, Zenon
  <2> QED
    BY <1>6, <1>7, <2>1
<1> HIDE DEF ab
<1>10. /\ abc \in Seq(Bit) /\ Len(abc) = B + B + B
       /\ \A i \in 1 .. B + B : abc[i] = ab[i]
       /\ \A i \in 1 .. B : abc[B + B + i] = c[i]
  <2>1. Joined(ab, c)
    BY <1>6, <1>8, <1>9, Zenon
  <2> QED
    BY <1>6, <1>7, <1>9, <2>1
<1> HIDE DEF abc
<1>11. /\ abcd \in Seq(Bit) /\ Len(abcd) = B + B + B + B
       /\ \A i \in 1 .. B + B + B : abcd[i] = abc[i]
       /\ \A i \in 1 .. B : abcd[B + B + B + i] = d[i]
  <2>1. Joined(abc, d)
    BY <1>6, <1>8, <1>10, Zenon
  <2> QED
    BY <1>6, <1>7, <1>10, <2>1
<1> HIDE DEF abcd
<1>12. /\ \A i \in 1 .. B + B + B + B : abcde[i] = abcd[i]
       /\ \A i \in 1 .. B : abcde[B + B + B + B + i] = e[i]
  <2>1. Joined(abcd, e)
    BY <1>6, <1>8, <1>11, Zenon
  <2> QED
    BY <1>6, <1>7, <1>11, <2>1
<1> HIDE DEF abcde, Joined
<1>13. /\ abcde[0 + j] = a[j] /\ abcde[B + j] = b[j] /\ abcde[B + B + j] = c[j]
       /\ abcde[B + B + B + j] = d[j] /\ abcde[B + B + B + B + j] = e[j]
  <2>1. abcde[0 + j] = a[j]
    BY <1>7, <1>9, <1>10, <1>11, <1>12
  <2>2. abcde[B + j] = b[j]
    BY <1>7, <1>9, <1>10, <1>11, <1>12
  <2>3. abcde[B + B + j] = c[j]
    <3>1. B + B + j \in 1 .. B + B + B + B /\ B + B + j \in 1 .. B + B + B
      BY <1>7
    <3>2. abcde[B + B + j] = abcd[B + B + j]
      BY <1>12, <3>1, Zenon
    <3>3. abcd[B + B + j] = abc[B + B + j]
      BY <1>11, <3>1, Zenon
    <3> QED
      BY <1>10, <3>2, <3>3, Zenon
  <2>4. abcde[B + B + B + j] = d[j]
    BY <1>7, <1>11, <1>12
  <2>5. abcde[B + B + B + B + j] = e[j]
    BY <1>7, <1>12
  <2> QED
    BY <2>1, <2>2, <2>3, <2>4, <2>5
<1>14. n \in {1, 2, 3, 4, 5}
  OBVIOUS
<1>15. /\ abcde[Offset(1) + j] = a[j] /\ abcde[Offset(2) + j] = b[j]
       /\ abcde[Offset(3) + j] = c[j] /\ abcde[Offset(4) + j] = d[j]
       /\ abcde[Offset(5) + j] = e[j]
  BY <1>13, Offsets
<1> QED
  BY <1>4, <1>5, <1>14, <1>15, Zenon

-----------------------------------------------------------------------------
(* What has come of an answer.                                             *)

\* The last k bits of reg are the first k of the frame, but for d of them.
Came(reg, frame, k, d) ==
  /\ d \in {0, 1}
  /\ d = 0 => \A i \in 1 .. k : reg[(FRAME_BITS - k) + i] = frame[i]
  /\ d = 1 =>
       \E p \in 1 .. k :
         \A i \in 1 .. k :
           reg[(FRAME_BITS - k) + i] = IF i = p THEN 1 - frame[i] ELSE frame[i]

\* One more bit is shifted in.
LEMMA CameNext ==
  ASSUME NEW reg \in Seq(Bit), Len(reg) = FRAME_BITS,
         NEW frame \in Seq(Bit), Len(frame) = FRAME_BITS,
         NEW k \in 0 .. FRAME_BITS - 1, NEW d, Came(reg, frame, k, d),
         NEW damaged \in BOOLEAN, damaged => d = 0, NEW bit,
         bit = IF damaged THEN 1 - frame[k + 1] ELSE frame[k + 1]
  PROVE  Came(Append(Tail(reg), bit), frame, k + 1, d + (IF damaged THEN 1 ELSE 0))
<1> DEFINE N == FRAME_BITS
           new == Append(Tail(reg), bit)
           e == d + (IF damaged THEN 1 ELSE 0)
<1>1. N \in Nat \ {0}
  BY WidthsArePositive
<1>2. d \in {0, 1} /\ e \in {0, 1} /\ (e = 0 => d = 0 /\ ~damaged)
      /\ (e = 1 /\ ~damaged => d = 1) /\ (damaged => d = 0)
  BY DEF Came
<1> HIDE DEF e
<1>3. frame[k + 1] \in Bit /\ bit \in Bit
  <2>1. frame \in [1 .. N -> Bit]
    BY LenProperties
  <2>2. frame[k + 1] \in Bit
    BY <1>1, <2>1
  <2> QED
    BY <2>2 DEF Bit
<1>4. \A i \in 1 .. k : new[(N - (k + 1)) + i] = reg[(N - k) + i]
  <2>1. reg # <<>>
    BY <1>1, EmptySeq
  <2>2. /\ Tail(reg) \in Seq(Bit) /\ Len(Tail(reg)) = N - 1
        /\ \A j \in 1 .. Len(Tail(reg)) : Tail(reg)[j] = reg[j + 1]
    BY <2>1, HeadTailProperties
  <2>3. \A j \in 1 .. Len(Tail(reg)) : new[j] = Tail(reg)[j]
    BY <1>3, <2>2, AppendProperties
  <2> HIDE DEF N, new
  <2>4. ASSUME NEW i \in 1 .. k
        PROVE  (N - (k + 1)) + i \in 1 .. N - 1 /\ ((N - (k + 1)) + i) + 1 = (N - k) + i
    BY <1>1 DEF N
  <2> QED
    BY <2>2, <2>3, <2>4, Zenon
<1>5. new[(N - (k + 1)) + (k + 1)] = bit
  <2>1. reg # <<>>
    BY <1>1, EmptySeq
  <2>2. Tail(reg) \in Seq(Bit) /\ Len(Tail(reg)) = N - 1
    BY <2>1, HeadTailProperties
  <2>3. new[Len(Tail(reg)) + 1] = bit
    BY <1>3, <2>2, AppendProperties
  <2>4. (N - (k + 1)) + (k + 1) = N /\ Len(Tail(reg)) + 1 = N
    BY <1>1, <2>2
  <2> HIDE DEF N, new
  <2> QED
    BY <2>3, <2>4, Zenon
<1> DEFINE newAt(i) == new[(N - (k + 1)) + i]
           regAt(i) == reg[(N - k) + i]
<1>6. \A i \in 1 .. k + 1 : newAt(i) = IF i = k + 1 THEN bit ELSE regAt(i)
  <2>1. newAt(k + 1) = bit
    BY <1>5, Zenon
  <2>2. \A i \in 1 .. k : newAt(i) = regAt(i)
    BY <1>4, Zenon
  <2> HIDE DEF newAt, regAt
  <2> QED
    BY <1>1, <2>1, <2>2
<1>7. /\ d = 0 => \A i \in 1 .. k : regAt(i) = frame[i]
      /\ d = 1 => \E p \in 1 .. k : \A i \in 1 .. k :
                    regAt(i) = IF i = p THEN 1 - frame[i] ELSE frame[i]
  BY Zenon DEF Came
<1> HIDE DEF newAt, regAt, new
<1>8. e = 0 => \A i \in 1 .. k + 1 : newAt(i) = frame[i]
  BY <1>1, <1>2, <1>6, <1>7
<1>9. e = 1 => \E p \in 1 .. k + 1 : \A i \in 1 .. k + 1 :
                 newAt(i) = IF i = p THEN 1 - frame[i] ELSE frame[i]
  <2> SUFFICES ASSUME e = 1
               PROVE  \E p \in 1 .. k + 1 : \A i \in 1 .. k + 1 :
                        newAt(i) = IF i = p THEN 1 - frame[i] ELSE frame[i]
    OBVIOUS
  <2>1. CASE damaged
    <3>1. \A i \in 1 .. k : regAt(i) = frame[i]
      BY <1>2, <1>7, <2>1
    <3>2. k + 1 \in 1 .. k + 1 /\ \A i \in 1 .. k + 1 : i # k + 1 => i \in 1 .. k
      BY <1>1
    <3>3. bit = 1 - frame[k + 1]
      BY <2>1
    <3>4. \A i \in 1 .. k + 1 : newAt(i) = IF i = k + 1 THEN 1 - frame[i] ELSE frame[i]
      BY <1>6, <3>1, <3>2, <3>3, Zenon
    <3> QED
      BY <3>2, <3>4, Zenon
  <2>2. CASE ~damaged
    <3>1. PICK p \in 1 .. k : \A i \in 1 .. k :
                 regAt(i) = IF i = p THEN 1 - frame[i] ELSE frame[i]
      BY <1>2, <1>7, <2>2
    <3>2. p \in 1 .. k + 1 /\ p # k + 1 /\ \A i \in 1 .. k + 1 : i # k + 1 => i \in 1 .. k
      BY <1>1
    <3>3. bit = frame[k + 1]
      BY <2>2
    <3>4. \A i \in 1 .. k + 1 : newAt(i) = IF i = p THEN 1 - frame[i] ELSE frame[i]
      BY <1>6, <3>1, <3>2, <3>3, Zenon
    <3> QED
      BY <3>2, <3>4, Zenon
  <2> QED
    BY <2>1, <2>2
<1>10. Came(new, frame, k + 1, e)
  BY <1>2, <1>8, <1>9, Zenon DEF Came, newAt
<1> QED
  BY <1>10, Zenon DEF new, e

-----------------------------------------------------------------------------
(* The sum.                                                                *)

SumOfFour(s) == s[1] + s[2] + s[3] + s[4]

\* Of five numbers below R one is changed: it is the fifth, or the sum of the
\* other four changes by less than R.
LEMMA SumsNear ==
  \A R \in Nat \ {0} : \A s, v \in [1 .. 5 -> 0 .. R - 1] : \A m \in 1 .. 5 :
    v[m] # s[m] /\ (\A n \in 1 .. 5 : n # m => v[n] = s[n]) =>
      /\ SumOfFour(s) \in Int /\ SumOfFour(v) \in Int
      /\ \/ SumOfFour(s) = SumOfFour(v) /\ v[5] # s[5]
         \/ /\ SumOfFour(s) # SumOfFour(v) /\ v[5] = s[5]
            /\ SumOfFour(s) - SumOfFour(v) < R /\ SumOfFour(v) - SumOfFour(s) < R
<1> SUFFICES ASSUME NEW R \in Nat \ {0},
                    NEW s \in [1 .. 5 -> 0 .. R - 1], NEW v \in [1 .. 5 -> 0 .. R - 1],
                    NEW m \in 1 .. 5, v[m] # s[m],
                    \A n \in 1 .. 5 : n # m => v[n] = s[n]
             PROVE  /\ SumOfFour(s) \in Int /\ SumOfFour(v) \in Int
                    /\ \/ SumOfFour(s) = SumOfFour(v) /\ v[5] # s[5]
                       \/ /\ SumOfFour(s) # SumOfFour(v) /\ v[5] = s[5]
                          /\ SumOfFour(s) - SumOfFour(v) < R
                          /\ SumOfFour(v) - SumOfFour(s) < R
  OBVIOUS
<1> DEFINE a == s[1]
           b == s[2]
           c == s[3]
           d == s[4]
           e == v[1]
           f == v[2]
           g == v[3]
           h == v[4]
<1>1. /\ a \in 0 .. R - 1 /\ b \in 0 .. R - 1 /\ c \in 0 .. R - 1 /\ d \in 0 .. R - 1
      /\ e \in 0 .. R - 1 /\ f \in 0 .. R - 1 /\ g \in 0 .. R - 1 /\ h \in 0 .. R - 1
  OBVIOUS
<1>2. /\ m # 1 => e = a
      /\ m # 2 => f = b
      /\ m # 3 => g = c
      /\ m # 4 => h = d
      /\ m # 5 => v[5] = s[5]
  OBVIOUS
<1>3. \/ m = 1 /\ e # a
      \/ m = 2 /\ f # b
      \/ m = 3 /\ g # c
      \/ m = 4 /\ h # d
      \/ m = 5 /\ v[5] # s[5]
  OBVIOUS
<1> HIDE DEF a, b, c, d, e, f, g, h
<1>4. /\ a + b + c + d \in Int /\ e + f + g + h \in Int
      /\ \/ m = 5 /\ a + b + c + d = e + f + g + h
         \/ /\ m # 5
            /\ a + b + c + d # e + f + g + h
            /\ (a + b + c + d) - (e + f + g + h) < R
            /\ (e + f + g + h) - (a + b + c + d) < R
  BY <1>1, <1>2, <1>3
<1>5. \/ m = 5 /\ v[5] # s[5]
      \/ m # 5 /\ v[5] = s[5]
  BY <1>2, <1>3
<1> QED
  BY <1>4, <1>5, Zenon DEF SumOfFour, a, b, c, d, e, f, g, h

\* A sum of four is another one, modulo the range of a byte, when one of the
\* five bytes is another one.
LEMMA SumTellsByte ==
  \A R \in Nat \ {0} : \A s, v \in [1 .. 5 -> 0 .. R - 1] :
    /\ s[5] = SumOfFour(s) % R
    /\ \E m \in 1 .. 5 : v[m] # s[m] /\ \A n \in 1 .. 5 : n # m => v[n] = s[n]
    => v[5] # SumOfFour(v) % R
<1> SUFFICES ASSUME NEW R \in Nat \ {0},
                    NEW s \in [1 .. 5 -> 0 .. R - 1], NEW v \in [1 .. 5 -> 0 .. R - 1],
                    s[5] = SumOfFour(s) % R,
                    NEW m \in 1 .. 5, v[m] # s[m],
                    \A n \in 1 .. 5 : n # m => v[n] = s[n]
             PROVE  v[5] # SumOfFour(v) % R
  OBVIOUS
<1> DEFINE x == SumOfFour(s)
           y == SumOfFour(v)
<1>1. /\ x \in Int /\ y \in Int
      /\ \/ x = y /\ v[5] # s[5]
         \/ x # y /\ x - y < R /\ y - x < R /\ v[5] = s[5]
  BY SumsNear
<1>2. s[5] = x % R
  BY Zenon
<1> HIDE DEF x, y
<1>3. x # y /\ x - y < R /\ y - x < R => x % R # y % R
  BY <1>1, NearbyRemaindersDiffer, Zenon
<1>4. v[5] # y % R
  BY <1>1, <1>2, <1>3, Zenon
<1> QED
  BY <1>4, Zenon DEF y

\* Functions that agree everywhere are one.
LEMMA SameFunction ==
  \A D, T : \A a, b \in [D -> T] : (\A j \in D : a[j] = b[j]) => a = b
OBVIOUS

\* The register shows the answer when it came as it was sent, and a wrong sum
\* when one bit came as the other.
LEMMA ChecksumTells ==
  ASSUME data_reg \in Seq(Bit), Len(data_reg) = FRAME_BITS, NEW r \in Readings,
         NEW d, Came(data_reg, FrameOf(r), FRAME_BITS, d)
  PROVE  /\ valid <=> d = 0
         /\ valid => humidity = r[1] /\ temperature = r[3]
<1> DEFINE N == FRAME_BITS
           F == FrameOf(r)
           S(n) == SentBytes(r)[n]
           V(n) == ByteOf(n)
           R == ByteRange
<1>1. N \in Nat \ {0} /\ R \in Nat \ {0} /\ BYTE_BITS \in Nat
  BY WidthsArePositive
<1>2. F \in Seq(Bit) /\ Len(F) = N
  BY FrameIsBits
<1>3. \A n \in 1 .. 5 : S(n) \in 0 .. R - 1
  BY SentAreBytes DEF DhtByte
<1>4. \A n \in 1 .. 5 : Part(data_reg, n) \in [1 .. BYTE_BITS -> Bit] /\ V(n) = Value(Part(data_reg, n))
  BY PartIs, Zenon DEF ByteOf, Part
<1>5. \A n \in 1 .. 5 : V(n) \in 0 .. R - 1
  <2>1. R = 2 ^ BYTE_BITS
    BY DEF ByteRange
  <2> HIDE DEF R, V
  <2> QED
    BY <1>1, <1>4, <2>1, ValueInRange, Zenon
<1>6. \A n \in 1 .. 5 : Bits(S(n)) \in [1 .. BYTE_BITS -> Bit] /\ Value(Bits(S(n))) = S(n)
  BY SentAreBytes, BitsOfByte, ValueOfBits, Zenon
<1>7. \A n \in 1 .. 5 : \A j \in 1 .. BYTE_BITS :
        /\ Part(data_reg, n)[j] = data_reg[Offset(n) + j]
        /\ Bits(S(n))[j] = F[Offset(n) + j]
        /\ Offset(n) + j \in 1 .. N
  BY PartIs, FrameBits, BitPlaces, Zenon
<1>8. S(5) = (S(1) + S(2) + S(3) + S(4)) % R /\ S(1) = r[1] /\ S(3) = r[3]
  <2> DEFINE sum == (r[1] + r[2] + r[3] + r[4]) % R
  <2>1. SentBytes(r) = <<r[1], r[2], r[3], r[4], sum>>
    BY DEF SentBytes
  <2>2. S(1) = r[1] /\ S(2) = r[2] /\ S(3) = r[3] /\ S(4) = r[4] /\ S(5) = sum
    <3> HIDE DEF sum
    <3> QED
      BY <2>1
  <2> QED
    BY <2>2, Zenon
<1>9. valid <=> V(5) = (V(1) + V(2) + V(3) + V(4)) % R
  BY Zenon DEF valid
<1>10. humidity = V(1) /\ temperature = V(3)
  BY Zenon DEF humidity, temperature
<1>11. \A a, b \in [1 .. BYTE_BITS -> Bit] :
         (\A j \in 1 .. BYTE_BITS : a[j] = b[j]) => a = b
  BY SameFunction, Zenon
<1>12. d \in {0, 1}
  BY Zenon DEF Came
<1> HIDE DEF N, F, S, V, R
<1>13. CASE d = 0
  <2>1. \A i \in 1 .. N : data_reg[i] = F[i]
    <3>1. \A i \in 1 .. N : data_reg[(N - N) + i] = F[i]
      BY <1>13, Zenon DEF Came, N, F
    <3> QED
      BY <1>1, <3>1
  <2>2. ASSUME NEW n \in 1 .. 5 PROVE V(n) = S(n)
    <3>1. \A j \in 1 .. BYTE_BITS : Part(data_reg, n)[j] = Bits(S(n))[j]
      BY <1>7, <2>1, Zenon
    <3>2. Part(data_reg, n) = Bits(S(n))
      BY <1>4, <1>6, <1>11, <3>1, Zenon
    <3> QED
      BY <1>4, <1>6, <3>2, Zenon
  <2>3. 1 \in 1 .. 5 /\ 2 \in 1 .. 5 /\ 3 \in 1 .. 5 /\ 4 \in 1 .. 5 /\ 5 \in 1 .. 5
    OBVIOUS
  <2>4. V(1) = S(1) /\ V(2) = S(2) /\ V(3) = S(3) /\ V(4) = S(4) /\ V(5) = S(5)
    BY <2>2, <2>3, Zenon
  <2> QED
    BY <1>8, <1>9, <1>10, <1>13, <2>4, Zenon
<1>14. CASE d = 1
  <2>1. PICK p \in 1 .. N :
           \A i \in 1 .. N : data_reg[i] = IF i = p THEN 1 - F[i] ELSE F[i]
    <3>1. PICK p \in 1 .. N :
             \A i \in 1 .. N : data_reg[(N - N) + i] = IF i = p THEN 1 - F[i] ELSE F[i]
      BY <1>14, Zenon DEF Came, N, F
    <3>2. \A i \in 1 .. N : (N - N) + i = i
      BY <1>1
    <3> QED
      BY <3>1, <3>2
  <2>2. PICK m \in 1 .. 5 : \E q \in 1 .. BYTE_BITS : p = Offset(m) + q
    BY BitPlaces, Zenon DEF N
  <2>3. PICK q \in 1 .. BYTE_BITS : p = Offset(m) + q
    BY <2>2, Zenon
  <2>4. ASSUME NEW n \in 1 .. 5, n # m PROVE V(n) = S(n)
    <3>1. \A j \in 1 .. BYTE_BITS : Part(data_reg, n)[j] = Bits(S(n))[j]
      <4> SUFFICES ASSUME NEW j \in 1 .. BYTE_BITS
                   PROVE  Part(data_reg, n)[j] = Bits(S(n))[j]
        OBVIOUS
      <4>0. \A k \in 1 .. 5, l \in 1 .. 5 : \A i \in 1 .. BYTE_BITS, h \in 1 .. BYTE_BITS :
              Offset(k) + i = Offset(l) + h => k = l /\ i = h
        BY BitPlaces, Zenon
      <4>1. Offset(m) + q = Offset(n) + j => m = n
        BY <4>0, Zenon
      <4>2. Offset(n) + j # p
        BY <2>3, <2>4, <4>1, Zenon
      <4> QED
        BY <1>7, <2>1, <4>2, Zenon
    <3>2. Part(data_reg, n) = Bits(S(n))
      BY <1>4, <1>6, <1>11, <3>1, Zenon
    <3> QED
      BY <1>4, <1>6, <3>2, Zenon
  <2>5. V(m) # S(m)
    <3>1. Part(data_reg, m)[q] = 1 - Bits(S(m))[q]
      BY <1>7, <2>1, <2>3, Zenon
    <3>2. Bits(S(m))[q] \in 0 .. 1
      BY <1>6 DEF Bit
    <3>3. Part(data_reg, m)[q] # Bits(S(m))[q]
      BY <3>1, <3>2
    <3>4. Part(data_reg, m) # Bits(S(m))
      BY <3>3, Zenon
    <3>5. Value(Part(data_reg, m)) # Value(Bits(S(m)))
      BY <1>1, <1>4, <1>6, <3>4, ValueTellsBits, Zenon
    <3> QED
      BY <1>4, <1>6, <3>5, Zenon
  <2>6. V(5) # (V(1) + V(2) + V(3) + V(4)) % R
    <3> DEFINE s == [n \in 1 .. 5 |-> S(n)]
               v == [n \in 1 .. 5 |-> V(n)]
    <3>1. s \in [1 .. 5 -> 0 .. R - 1] /\ v \in [1 .. 5 -> 0 .. R - 1]
      BY <1>3, <1>5
    <3>2. /\ s[1] = S(1) /\ s[2] = S(2) /\ s[3] = S(3) /\ s[4] = S(4) /\ s[5] = S(5)
          /\ v[1] = V(1) /\ v[2] = V(2) /\ v[3] = V(3) /\ v[4] = V(4) /\ v[5] = V(5)
      OBVIOUS
    <3>3. \A n \in 1 .. 5 : s[n] = S(n) /\ v[n] = V(n)
      OBVIOUS
    <3> HIDE DEF s, v
    <3>4. v[m] # s[m] /\ \A n \in 1 .. 5 : n # m => v[n] = s[n]
      BY <2>4, <2>5, <3>3, Zenon
    <3>5. s[5] = SumOfFour(s) % R
      BY <1>8, <3>2, Zenon DEF SumOfFour
    <3>6. v[5] # SumOfFour(v) % R
      BY <1>1, <3>1, <3>4, <3>5, SumTellsByte, Zenon
    <3> QED
      BY <3>2, <3>6, Zenon DEF SumOfFour
  <2> QED
    BY <1>9, <1>14, <2>6
<1> QED
  BY <1>12, <1>13, <1>14, Zenon

-----------------------------------------------------------------------------
(* The answer on its way.                                                  *)

Answering == c_state = "DATA_SYNC" /\ dht_owes

\* What has come of the answer dht_sent, and what is still to come.
SentInv ==
  /\ dht_damage \in {0, 1}
  /\ c_state \in {"START", "SYNCH"} => dht_damage = 0
  /\ dht_over => c_state = "IDLE"
  /\ dht_sent \in Readings /\ Answering =>
       /\ Came(data_reg, FrameOf(dht_sent), bit_cnt, dht_damage)
       /\ \A j \in 1 .. Len(sending) : sending[j] = FrameOf(dht_sent)[bit_cnt + j]
  /\ dht_sent \in Readings /\ (c_state = "STOP" \/ dht_over) =>
       Came(data_reg, FrameOf(dht_sent), FRAME_BITS, dht_damage)

\* MeasurementService_Start begins an answer of its own.
ServiceInv ==
  call = "service" /\ (Answering \/ c_state = "STOP" \/ dht_over) =>
    dht_sent \in Readings

DamageInv == SentInv /\ ServiceInv /\ DamageIsCaught

\* Nothing has been sent at first.
LEMMA DamageInit == Init => DamageInv
BY DEF Init, InitDht11, DamageInv, SentInv, ServiceInv, DamageIsCaught, Answering

\* No answer is the empty one.
LEMMA NoEmptyReading == <<>> \notin Readings
<1> SUFFICES ASSUME <<>> \in Readings PROVE FALSE
  OBVIOUS
<1>1. <<>> \in [1 .. 4 -> DhtByte]
  BY DhtAssumption
<1>2. DOMAIN <<>> = 1 .. 4
  BY <1>1
<1>3. Len(<<>>) = 0 /\ DOMAIN <<>> = 1 .. 0
  OBVIOUS
<1>4. 1 \in 1 .. 4 /\ 1 \notin 1 .. 0
  OBVIOUS
<1> QED
  BY <1>2, <1>3, <1>4, Zenon

\* A start forgets the answer.
LEMMA SentStart ==
  ASSUME SentInv, DHT11_Start
  PROVE  SentInv'
<1>1. dht_damage' = 0 /\ dht_sent' = <<>> /\ dht_over' = FALSE
  BY DEF DHT11_Start
<1>2. dht_sent' \notin Readings
  BY <1>1, NoEmptyReading
<1> QED
  BY <1>1, <1>2, Zenon DEF SentInv

\* One more bit of the answer has come, damaged or not.
LEMMA SentReceive ==
  ASSUME MAX_DAMAGE <= 1, DhtInv, SentInv,
         NEW damaged \in BOOLEAN, ReceiveBit(damaged)
  PROVE  SentInv'
<1> DEFINE F == FrameOf(dht_sent)
           N == FRAME_BITS
           k == bit_cnt
           bit == IF damaged THEN 1 - Head(sending) ELSE Head(sending)
           e == dht_damage + (IF damaged THEN 1 ELSE 0)
<1>1. /\ c_state = "DATA_SYNC" /\ sending # <<>>
      /\ damaged => dht_damage < MAX_DAMAGE
      /\ data_reg' = Append(Tail(data_reg), bit) /\ sending' = Tail(sending)
      /\ c_state' = IF k = N - 1 THEN "STOP" ELSE "DATA_SYNC"
      /\ bit_cnt' = IF k = N - 1 THEN 0 ELSE k + 1
      /\ dht_damage' = e
      /\ UNCHANGED <<dht_owes, dht_failed, dht_sent, dht_over>>
  BY DEF ReceiveBit, ShiftIn, LastBit
<1>2. Answering /\ dht_owes /\ dht_over' # TRUE /\ c_state = "DATA_SYNC"
  BY <1>1 DEF DhtInv, SentInv, Answering
<1>3. dht_damage \in {0, 1} /\ (damaged => dht_damage = 0)
  BY <1>1, DhtAssumption DEF SentInv
<1>4. e \in {0, 1}
  BY <1>3
<1>5. N \in Nat \ {0} /\ k \in 0 .. N - 1 /\ Len(sending) = N - k
  BY <1>2, WidthsArePositive DEF DhtInv, Answering
<1>6. /\ Head(sending) = sending[1] /\ Len(Tail(sending)) = Len(sending) - 1
      /\ \A j \in 1 .. Len(Tail(sending)) : Tail(sending)[j] = sending[j + 1]
  <2>1. sending \in Seq(Bit) /\ sending # <<>>
    BY <1>1 DEF DhtInv
  <2> QED
    BY <2>1, HeadTailProperties
<1>7. ASSUME dht_sent \in Readings
      PROVE  /\ Came(data_reg', F, k + 1, e)
             /\ \A j \in 1 .. Len(sending') : sending'[j] = F[(k + 1) + j]
  <2>1. F \in Seq(Bit) /\ Len(F) = N
    BY <1>7, FrameIsBits
  <2>2. Came(data_reg, F, k, dht_damage)
    BY <1>2, <1>7, Zenon DEF SentInv
  <2>3. \A j \in 1 .. Len(sending) : sending[j] = F[k + j]
    BY <1>2, <1>7, Zenon DEF SentInv
  <2> HIDE DEF F
  <2>4. Head(sending) = F[k + 1]
    <3>1. 1 \in 1 .. Len(sending)
      BY <1>5
    <3> QED
      BY <1>6, <2>3, <3>1, Zenon
  <2>5. bit = IF damaged THEN 1 - F[k + 1] ELSE F[k + 1]
    BY <2>4, Zenon
  <2>6. data_reg \in Seq(Bit) /\ Len(data_reg) = N
    BY DEF DhtInv
  <2>7. Came(data_reg', F, k + 1, e)
    <3> HIDE DEF bit, e
    <3>1. Came(Append(Tail(data_reg), bit), F, k + 1, e)
      BY <1>3, <1>5, <2>1, <2>2, <2>5, <2>6, CameNext, Zenon DEF e
    <3> QED
      BY <1>1, <3>1, Zenon
  <2>8. ASSUME NEW j \in 1 .. Len(sending') PROVE sending'[j] = F[(k + 1) + j]
    <3>1. j \in 1 .. Len(Tail(sending)) /\ sending' = Tail(sending)
      BY <1>1, <2>8, Zenon
    <3>2. j + 1 \in 1 .. Len(sending) /\ k + (j + 1) = (k + 1) + j
      BY <1>5, <1>6, <3>1
    <3>3. sending'[j] = sending[j + 1]
      BY <1>6, <3>1, Zenon
    <3>4. sending[j + 1] = F[k + (j + 1)]
      BY <2>3, <3>2, Zenon
    <3> QED
      BY <3>2, <3>3, <3>4, Zenon
  <2> QED
    BY <2>7, <2>8
<1> HIDE DEF F, N, bit, e, k
<1>8. CASE k = N - 1
  <2>1. c_state' = "STOP" /\ dht_damage' = e /\ dht_sent' = dht_sent /\ k + 1 = N
    BY <1>1, <1>5, <1>8
  <2>2. dht_sent \in Readings => Came(data_reg', F, N, e)
    BY <1>7, <2>1, Zenon
  <2>3. ~Answering'
    BY <2>1 DEF Answering
  <2>4. dht_sent' \in Readings =>
          Came(data_reg', FrameOf(dht_sent'), FRAME_BITS, dht_damage')
    BY <2>1, <2>2, Zenon DEF F, N
  <2>5. dht_damage' \in {0, 1} /\ c_state' \notin {"START", "SYNCH"} /\ ~dht_over'
    BY <1>1, <1>2, <1>4, <2>1 DEF SentInv
  <2> QED
    BY <2>3, <2>4, <2>5, Zenon DEF SentInv
<1>9. CASE k # N - 1
  <2>1. c_state' = "DATA_SYNC" /\ dht_damage' = e /\ dht_sent' = dht_sent
        /\ bit_cnt' = k + 1
    BY <1>1, <1>9
  <2>2. dht_sent' \in Readings =>
          /\ Came(data_reg', FrameOf(dht_sent'), bit_cnt', dht_damage')
          /\ \A j \in 1 .. Len(sending') : sending'[j] = FrameOf(dht_sent')[bit_cnt' + j]
    BY <1>7, <2>1, Zenon DEF F
  <2>3. /\ dht_damage' \in {0, 1} /\ c_state' \notin {"START", "SYNCH"} /\ ~dht_over'
        /\ c_state' # "STOP"
    BY <1>1, <1>2, <1>4, <2>1 DEF SentInv
  <2> QED
    BY <2>2, <2>3, Zenon DEF SentInv
<1> QED
  BY <1>8, <1>9

\* The sensor and the controller bring the answer as far as it has come.
LEMMA SentHardware ==
  ASSUME MAX_DAMAGE <= 1, DhtInv, SentInv, NextDht11
  PROVE  SentInv'
<1>1. CASE Release
  BY <1>1 DEF Release, SentInv, Answering
<1>2. CASE StopEnds
  BY <1>2 DEF StopEnds, SentInv, Answering
<1>3. CASE SensorStops
  BY <1>3 DEF SensorStops, SentInv, Answering
<1>4. ASSUME NEW r \in Readings, SensorAnswers(r) PROVE SentInv'
  <2>1. /\ c_state' = "DATA_SYNC" /\ sending' = FrameOf(r) /\ dht_sent' = r
        /\ bit_cnt' = 0 /\ dht_damage' = 0 /\ ~dht_over'
    BY <1>4 DEF SensorAnswers, DhtInv, SentInv
  <2>2. \A s, f : Came(s, f, 0, 0)
    BY DEF Came
  <2>3. \A j \in 1 .. Len(sending') : sending'[j] = FrameOf(dht_sent')[bit_cnt' + j]
    <3>1. sending' \in Seq(Bit)
      BY <2>1, FrameIsBits
    <3>2. \A j \in 1 .. Len(sending') : 0 + j = j
      BY <3>1
    <3> QED
      BY <2>1, <3>2, Zenon
  <2>4. Came(data_reg', FrameOf(dht_sent'), bit_cnt', dht_damage')
    BY <2>1, <2>2, Zenon
  <2>5. /\ dht_damage' \in {0, 1} /\ c_state' \notin {"START", "SYNCH"} /\ ~dht_over'
        /\ c_state' # "STOP"
    BY <2>1
  <2> QED
    BY <2>3, <2>4, <2>5, Zenon DEF SentInv
<1>5. ASSUME NEW damaged \in BOOLEAN, ReceiveBit(damaged) PROVE SentInv'
  BY <1>5, SentReceive
<1> QED
  BY <1>1, <1>2, <1>3, <1>4, <1>5 DEF NextDht11

\* A settled DHT11 controller does nothing of its own.
LEMMA SettledIsStill ==
  ASSUME DhtInv, DhtSettled, NextDht11
  PROVE  FALSE
BY DEF DhtInv, DhtSettled, NextDht11, Release, StopEnds, SensorStops, SensorAnswers,
       ReceiveBit

\* What MeasurementService_Read passes on.
LEMMA DamageRead ==
  ASSUME AnswerInv, DamageInv, Read, call = "service", dht_over
  PROVE  /\ sensor'.dht11_valid <=> dht_damage = 0
         /\ sensor'.dht11_valid =>
              sensor'.humidity = dht_sent[1] /\ sensor'.temperature = dht_sent[3]
<1>1. dht_sent \in Readings
  BY DEF DamageInv, ServiceInv
<1>2. Came(data_reg, FrameOf(dht_sent), FRAME_BITS, dht_damage)
  BY <1>1 DEF DamageInv, SentInv
<1>3. data_reg \in Seq(Bit) /\ Len(data_reg) = FRAME_BITS
  BY DEF AnswerInv, DhtInv
<1>4. /\ valid <=> dht_damage = 0
      /\ valid => humidity = dht_sent[1] /\ temperature = dht_sent[3]
  BY <1>1, <1>2, <1>3, ChecksumTells
<1> DEFINE s == IF done_latched THEN WithDistance(NoReading) ELSE NoReading
<1>5. sensor' = IF valid THEN WithDht(s) ELSE s
  BY Zenon DEF Read
<1>6. DOMAIN s = SensorFields /\ s.dht11_valid = FALSE
  BY DEF WithDistance, NoReading, SensorFields
<1> HIDE DEF s
<1>7. CASE valid
  <2>1. sensor' = WithDht(s)
    BY <1>5, <1>7
  <2>2. /\ sensor'.dht11_valid = TRUE /\ sensor'.humidity = humidity
        /\ sensor'.temperature = temperature
    BY <1>6, <2>1, Zenon DEF WithDht, SensorFields
  <2> QED
    BY <1>4, <1>7, <2>2, Zenon
<1>8. CASE ~valid
  <2>1. sensor'.dht11_valid = FALSE
    BY <1>5, <1>6, <1>8
  <2> QED
    BY <1>4, <1>8, <2>1, Zenon
<1> QED
  BY <1>7, <1>8

\* Every step keeps the invariant.
LEMMA DamageStep ==
  ASSUME MAX_DAMAGE <= 1, AnswerInv, DamageInv, [Next]_vars
  PROVE  DamageInv'
<1>1. CASE Hardware
  <2>1. CASE NextDht11 /\ UNCHANGED hc_vars
    <3>1. SentInv'
      BY <2>1, SentHardware DEF AnswerInv, DamageInv
    <3>2. ServiceInv'
      <4>1. CASE Release
        BY <1>1, <4>1 DEF Hardware, Release, DamageInv, ServiceInv, Answering
      <4>2. CASE StopEnds
        BY <1>1, <4>2 DEF Hardware, StopEnds, DamageInv, ServiceInv, Answering
      <4>3. CASE SensorStops
        BY <1>1, <4>3 DEF Hardware, SensorStops, DamageInv, ServiceInv, Answering
      <4>4. ASSUME NEW r \in Readings, SensorAnswers(r) PROVE ServiceInv'
        BY <4>4 DEF SensorAnswers, ServiceInv
      <4>5. ASSUME NEW damaged \in BOOLEAN, ReceiveBit(damaged) PROVE ServiceInv'
        <5>1. Answering /\ UNCHANGED <<call, dht_sent>>
          BY <1>1, <4>5 DEF Hardware, ReceiveBit, AnswerInv, DhtInv, Answering
        <5> QED
          BY <5>1 DEF DamageInv, ServiceInv
      <4> QED
        BY <2>1, <4>1, <4>2, <4>3, <4>4, <4>5 DEF NextDht11
    <3>3. ~(phase = "idle" /\ call = "service")
      BY <2>1, SettledIsStill DEF AnswerInv, CallInv
    <3>4. DamageIsCaught'
      BY <1>1, <3>3 DEF Hardware, DamageIsCaught
    <3> QED
      BY <3>1, <3>2, <3>4 DEF DamageInv
  <2>2. CASE NextHcsr04 /\ UNCHANGED dht_vars
    BY <1>1, <2>2 DEF Hardware, dht_vars, DamageInv, SentInv, ServiceInv,
                      DamageIsCaught, Answering
  <2> QED
    BY <1>1, <2>1, <2>2 DEF Hardware
<1>2. CASE Start
  <2>1. SentInv'
    BY <1>2, SentStart DEF Start, DamageInv
  <2>2. ServiceInv'
    <3> SUFFICES ASSUME call' = "service"
                 PROVE  ~(Answering' \/ c_state' = "STOP" \/ dht_over')
      BY DEF ServiceInv
    <3>1. c_state = "IDLE" \/ (phase = "idle" /\ call \notin {"blocking", "overlapping"})
      BY <1>2 DEF Start
    <3>2. CASE c_state = "IDLE"
      BY <1>2, <3>2 DEF Start, DHT11_Start, Answering
    <3>3. CASE c_state # "IDLE"
      <4>1. call \in {"none", "service"}
        BY <3>1, <3>3 DEF AnswerInv, CallInv
      <4>2. DhtSettled
        BY <3>1, <3>3, <4>1 DEF AnswerInv, CallInv
      <4> QED
        BY <1>2, <3>3, <4>2 DEF Start, DHT11_Start, Answering, DhtSettled
    <3> QED
      BY <3>2, <3>3
  <2>3. DamageIsCaught'
    BY <1>2 DEF Start, DamageIsCaught
  <2> QED
    BY <2>1, <2>2, <2>3 DEF DamageInv
<1>3. CASE Read
  <2>1. SentInv' /\ ServiceInv'
    BY <1>3 DEF Read, dht_vars, DamageInv, SentInv, ServiceInv, Answering
  <2>2. UNCHANGED <<call, dht_over, dht_damage, dht_sent>>
    BY <1>3 DEF Read, dht_vars
  <2>3. DamageIsCaught'
    BY <1>3, <2>2, DamageRead, Zenon DEF DamageIsCaught
  <2> QED
    BY <2>1, <2>3 DEF DamageInv
<1>4. CASE MeasureBlocking
  BY <1>4 DEF MeasureBlocking, dht_vars, DamageInv, SentInv, ServiceInv,
              DamageIsCaught, Answering
<1>5. CASE PollDistance
  <2>1. SentInv'
    BY <1>5, SentStart DEF PollDistance, DamageInv
  <2>2. call' = "blocking" /\ phase' = "poll dht"
    BY <1>5 DEF PollDistance, AnswerInv, CallInv
  <2> QED
    BY <2>1, <2>2 DEF DamageInv, ServiceInv, DamageIsCaught
<1>6. CASE PollDht
  <2>1. call' = "blocking" /\ UNCHANGED dht_vars
    BY <1>6 DEF PollDht, AnswerInv, CallInv
  <2> QED
    BY <2>1 DEF dht_vars, DamageInv, SentInv, ServiceInv, DamageIsCaught, Answering
<1>7. CASE UNCHANGED vars
  BY <1>7 DEF vars, dht_vars, DamageInv, SentInv, ServiceInv, DamageIsCaught,
              Answering
<1> QED
  BY <1>1, <1>2, <1>3, <1>4, <1>5, <1>6, <1>7 DEF Next

\* With bytes of any width: when at most one bit of an answer is misread, the
\* measurement passes the answer on exactly if none is, and with the humidity
\* and the temperature that the sensor sent (MeasurementService.c:38, the sum
\* of dht11_controller.v).
THEOREM OneMisreadBitIsCaught ==
  ASSUME MAX_DAMAGE <= 1
  PROVE  Spec => []DamageIsCaught
<1>1. DamageInv => DamageIsCaught
  BY DEF DamageInv
<1>2. AnswerInv /\ DamageInv /\ [Next]_vars => DamageInv'
  BY DamageStep
<1> QED
  BY <1>1, <1>2, AnswerInit, AnswerStep, DamageInit, PTL DEF Spec

-----------------------------------------------------------------------------
(* The slave's clock and its display.                                      *)

\* The counters hold the number of ticks, and the number on display is the
\* time in minutes and seconds.
CountInRange ==
  /\ ms_count \in 0 .. MS_PER_SEC - 1
  /\ second \in 0 .. SEC_MAX - 1 /\ minute \in 0 .. MIN_MAX - 1
  /\ fndNumber \in 0 .. 9999 /\ elapsed \in 0 .. Hour - 1
CountIsTime ==
  /\ elapsed = ms_count + MS_PER_SEC * (second + SEC_MAX * minute)
  /\ fndNumber = 100 * minute + second
CountInv == CountInRange /\ CountIsTime

\* FND_Execute puts the segments of a digit before it selects it, and all
\* digits are off until then.
PortInv ==
  /\ fndDigitState \in Digits
  /\ segments \in [value : 0 .. 15, point : BOOLEAN]
  /\ lit \in Digits \cup {None}
  /\ task \in {"idle", "segments", "select"}
  /\ task # "idle" => lit = None
  /\ task = "select" => segments = FND_MakeSegmentData(fndNumber, fndDigitState)

ClockInv == CountInv /\ PortInv

\* The assumption, in the form the solvers take it.
LEMMA ClockUnits ==
  /\ MS_PER_SEC \in Nat \ {0} /\ SEC_MAX \in Nat \ {0} /\ MIN_MAX \in Nat \ {0}
  /\ MIN_MAX <= 60 /\ SEC_MAX <= 60
BY ClockAssumption, SMTT(40)

\* FND_SetTime reduces nothing that the clock gives it.
LEMMA NumberIsTime ==
  ASSUME NEW m \in 0 .. MIN_MAX - 1, NEW s \in 0 .. SEC_MAX - 1
  PROVE  FND_Number(m, s) = 100 * m + s
<1>1. m \in 0 .. 59 /\ s \in 0 .. 59
  BY ClockUnits
<1>2. (m % 60) = m /\ (s % 60) = s
  BY <1>1
<1>3. (100 * m + s) % 10000 = 100 * m + s
  BY <1>1
<1>4. m * 100 = 100 * m
  BY <1>1
<1> QED
  BY <1>2, <1>3, <1>4 DEF FND_Number

\* The milliseconds of a whole minute, and the count at its last second.
LEMMA UnitsAreWhole ==
  /\ MS_PER_SEC * SEC_MAX \in Nat \ {0}
  /\ Hour \in Nat \ {0}
  /\ \A m, s \in Nat :
       MS_PER_SEC * (s + SEC_MAX * m) = MS_PER_SEC * s + MS_PER_SEC * SEC_MAX * m
  /\ \A m \in 0 .. MIN_MAX - 1, s \in 0 .. SEC_MAX - 1, t \in 0 .. MS_PER_SEC - 1 :
       t + MS_PER_SEC * (s + SEC_MAX * m) \in 0 .. Hour - 1
<1>1. MS_PER_SEC \in Nat \ {0} /\ SEC_MAX \in Nat \ {0} /\ MIN_MAX \in Nat \ {0}
  BY ClockUnits
<1>2. MS_PER_SEC * SEC_MAX \in Nat \ {0}
  BY <1>1
<1>3. Hour \in Nat \ {0}
  BY <1>1 DEF Hour
<1>4. \A m, s \in Nat :
        MS_PER_SEC * (s + SEC_MAX * m) = MS_PER_SEC * s + MS_PER_SEC * SEC_MAX * m
  BY <1>1
<1>5. ASSUME NEW m \in 0 .. MIN_MAX - 1, NEW s \in 0 .. SEC_MAX - 1,
             NEW t \in 0 .. MS_PER_SEC - 1
      PROVE  t + MS_PER_SEC * (s + SEC_MAX * m) \in 0 .. Hour - 1
  <2>1. SEC_MAX * m \in Nat /\ SEC_MAX * m <= SEC_MAX * MIN_MAX - SEC_MAX
    <3>1. m \in Nat /\ MIN_MAX - 1 - m \in Nat
      BY <1>1
    <3>2. SEC_MAX * (MIN_MAX - 1 - m) \in Nat
      BY <1>1, <3>1
    <3>3. SEC_MAX * (MIN_MAX - 1 - m) = SEC_MAX * MIN_MAX - SEC_MAX - SEC_MAX * m
      BY <1>1, <3>1
    <3> QED
      BY <1>1, <3>1, <3>2, <3>3
  <2> DEFINE k == s + SEC_MAX * m
             n == SEC_MAX * MIN_MAX
  <2>2. k \in Nat /\ n \in Nat /\ n - 1 - k \in Nat
    BY <1>1, <2>1
  <2>3. Hour = MS_PER_SEC * n
    BY <1>1 DEF Hour
  <2> HIDE DEF k, n
  <2>4. MS_PER_SEC * k \in Nat /\ MS_PER_SEC * (n - 1 - k) \in Nat
    BY <1>1, <2>2
  <2>5. MS_PER_SEC * (n - 1 - k) = MS_PER_SEC * n - MS_PER_SEC - MS_PER_SEC * k
    BY <1>1, <2>2
  <2>6. t + MS_PER_SEC * k \in 0 .. Hour - 1
    BY <1>1, <2>2, <2>3, <2>4, <2>5
  <2> QED
    BY <2>6 DEF k
<1> QED
  BY <1>2, <1>3, <1>4, <1>5

\* The clock starts at zero with all digits off.
LEMMA ClockInit == InitClock => ClockInv
<1> SUFFICES ASSUME InitClock PROVE ClockInv
  OBVIOUS
<1>1. CountInv
  <2>1. 0 \in 0 .. MIN_MAX - 1 /\ 0 \in 0 .. SEC_MAX - 1 /\ 0 \in 0 .. MS_PER_SEC - 1
    BY ClockUnits
  <2>2. FND_Number(0, 0) = 0
    BY <2>1, NumberIsTime
  <2>3. 0 + MS_PER_SEC * (0 + SEC_MAX * 0) = 0 /\ 100 * 0 + 0 = 0
    <3>1. MS_PER_SEC \in Nat /\ SEC_MAX \in Nat
      BY ClockUnits
    <3>2. SEC_MAX * 0 = 0
      BY <3>1
    <3>3. 0 + SEC_MAX * 0 = 0
      BY <3>2
    <3>4. MS_PER_SEC * 0 = 0
      BY <3>1
    <3>5. MS_PER_SEC * (0 + SEC_MAX * 0) = 0
      BY <3>3, <3>4, Zenon
    <3> QED
      BY <3>5
  <2>4. 0 \in 0 .. Hour - 1
    BY UnitsAreWhole
  <2> QED
    BY <2>1, <2>2, <2>3, <2>4 DEF InitClock, CountInv, CountInRange, CountIsTime
<1>2. PortInv
  BY DEF InitClock, PortInv, Digits, None
<1> QED
  BY <1>1, <1>2 DEF ClockInv

\* Setting the clock, from the main program or to 00.00.
LEMMA ClockIsSet ==
  ASSUME NEW m \in 0 .. MIN_MAX - 1, NEW s \in 0 .. SEC_MAX - 1,
         ms_count' = 0, second' = s, minute' = m, fndNumber' = FND_Number(m, s),
         elapsed' = MS_PER_SEC * (s + SEC_MAX * m)
  PROVE  CountInv'
<1>1. 0 \in 0 .. MS_PER_SEC - 1 /\ m \in 0 .. 59 /\ s \in 0 .. 59
  BY ClockUnits
<1>2. 0 + MS_PER_SEC * (s + SEC_MAX * m) \in 0 .. Hour - 1
  BY <1>1, UnitsAreWhole
<1>3. MS_PER_SEC * (s + SEC_MAX * m) \in Int
  <2>1. SEC_MAX * m \in Int
    BY <1>1, ClockUnits
  <2>2. s + SEC_MAX * m \in Int
    BY <1>1, <2>1
  <2> QED
    BY <2>2, ClockUnits
<1>4. 0 + MS_PER_SEC * (s + SEC_MAX * m) = MS_PER_SEC * (s + SEC_MAX * m)
  BY <1>3
<1>5. FND_Number(m, s) = 100 * m + s
  BY NumberIsTime
<1>6. 100 * m + s \in 0 .. 9999
  BY <1>1
<1> DEFINE count == MS_PER_SEC * (s + SEC_MAX * m)
<1>7. /\ ms_count' = 0 /\ second' = s /\ minute' = m /\ fndNumber' = 100 * m + s
      /\ elapsed' = count /\ count \in 0 .. Hour - 1 /\ 0 + count = count
  BY <1>2, <1>4, <1>5
<1>8. ms_count' + MS_PER_SEC * (second' + SEC_MAX * minute') = 0 + count
  BY <1>7
<1> HIDE DEF count
<1> QED
  BY <1>1, <1>6, <1>7, <1>8, SMTT(40) DEF CountInv, CountInRange, CountIsTime

\* One millisecond: no carry, or one, two or three of them.
LEMMA ClockTick ==
  ASSUME CountInv, AdvanceTime, elapsed' = (elapsed + 1) % Hour
  PROVE  CountInv'
<1>1. /\ ms_count \in 0 .. MS_PER_SEC - 1 /\ second \in 0 .. SEC_MAX - 1
      /\ minute \in 0 .. MIN_MAX - 1 /\ fndNumber \in 0 .. 9999
      /\ elapsed \in 0 .. Hour - 1
      /\ elapsed = ms_count + MS_PER_SEC * (second + SEC_MAX * minute)
      /\ fndNumber = 100 * minute + second
  BY SMTT(40) DEF CountInv, CountInRange, CountIsTime
<1>2. /\ MS_PER_SEC \in Nat \ {0} /\ SEC_MAX \in Nat \ {0} /\ MIN_MAX \in Nat \ {0}
      /\ MIN_MAX <= 60 /\ SEC_MAX <= 60
  BY ClockUnits
<1>3. /\ ms_count' \in 0 .. MS_PER_SEC - 1
      /\ second' \in 0 .. SEC_MAX - 1 /\ minute' \in 0 .. MIN_MAX - 1
      /\ \/ /\ ms_count' = ms_count + 1 /\ second' = second /\ minute' = minute
         \/ /\ ms_count = MS_PER_SEC - 1 /\ ms_count' = 0
            /\ second' = second + 1 /\ minute' = minute
         \/ /\ ms_count = MS_PER_SEC - 1 /\ ms_count' = 0
            /\ second = SEC_MAX - 1 /\ second' = 0 /\ minute' = minute + 1
         \/ /\ ms_count = MS_PER_SEC - 1 /\ ms_count' = 0
            /\ second = SEC_MAX - 1 /\ second' = 0
            /\ minute = MIN_MAX - 1 /\ minute' = 0
  BY <1>1, <1>2 DEF AdvanceTime
<1>4. fndNumber' = 100 * minute' + second'
  <2>1. FND_Number(minute', second') = 100 * minute' + second'
    BY <1>3, NumberIsTime
  <2>2. CASE ms_count + 1 >= MS_PER_SEC
    BY <2>1, <2>2 DEF AdvanceTime
  <2>3. CASE ~(ms_count + 1 >= MS_PER_SEC)
    BY <1>1, <2>3 DEF AdvanceTime
  <2> QED
    BY <2>2, <2>3
<1>5. fndNumber' \in 0 .. 9999
  <2>1. minute' \in 0 .. MIN_MAX - 1 /\ second' \in 0 .. SEC_MAX - 1
    BY <1>3
  <2> DEFINE m == minute'
             s == second'
  <2>2. m \in 0 .. 59 /\ s \in 0 .. 59
    BY <1>2, <2>1
  <2>3. fndNumber' = 100 * m + s
    BY <1>4, Zenon
  <2> HIDE DEF m, s
  <2> QED
    BY <2>2, <2>3
<1> DEFINE Count == ms_count' + MS_PER_SEC * (second' + SEC_MAX * minute')
<1>6. Count \in 0 .. Hour - 1
  BY <1>3, UnitsAreWhole
<1>7. Count = elapsed + 1 \/ (Count = 0 /\ elapsed + 1 = Hour)
  <2> DEFINE unit == MS_PER_SEC * SEC_MAX
  <2>1. /\ Count = ms_count' + (MS_PER_SEC * second' + unit * minute')
        /\ elapsed = ms_count + (MS_PER_SEC * second + unit * minute)
    BY <1>1, <1>3, UnitsAreWhole
  <2>2. unit \in Nat /\ Hour = unit * MIN_MAX /\ unit = MS_PER_SEC * SEC_MAX
    BY UnitsAreWhole DEF Hour
  <2> HIDE DEF Count, unit
  <2>3. CASE ms_count' = ms_count + 1 /\ second' = second /\ minute' = minute
    <3>1. MS_PER_SEC * second \in Int /\ unit * minute \in Int
      BY <1>1, <1>2, <2>2
    <3> QED
      BY <1>1, <2>1, <2>3, <3>1
  <2>4. CASE /\ ms_count = MS_PER_SEC - 1 /\ ms_count' = 0
             /\ second' = second + 1 /\ minute' = minute
    <3>1. MS_PER_SEC * (second + 1) = MS_PER_SEC * second + MS_PER_SEC
      BY <1>1, <1>2
    <3>2. MS_PER_SEC * second \in Int /\ unit * minute \in Int
      BY <1>1, <1>2, <2>2
    <3> QED
      BY <1>2, <2>1, <2>4, <3>1, <3>2
  <2>5. CASE /\ ms_count = MS_PER_SEC - 1 /\ ms_count' = 0
             /\ second = SEC_MAX - 1 /\ second' = 0 /\ minute' = minute + 1
    <3>1. MS_PER_SEC * (SEC_MAX - 1) = unit - MS_PER_SEC /\ MS_PER_SEC * 0 = 0
      BY <1>2, <2>2
    <3>2. unit * (minute + 1) = unit * minute + unit /\ unit * minute \in Int
      BY <1>1, <1>2, <2>2
    <3> QED
      BY <1>2, <2>1, <2>2, <2>5, <3>1, <3>2
  <2>6. CASE /\ ms_count = MS_PER_SEC - 1 /\ ms_count' = 0
             /\ second = SEC_MAX - 1 /\ second' = 0
             /\ minute = MIN_MAX - 1 /\ minute' = 0
    <3>1. MS_PER_SEC * (SEC_MAX - 1) = unit - MS_PER_SEC /\ MS_PER_SEC * 0 = 0
      BY <1>2, <2>2
    <3>2. unit * (MIN_MAX - 1) = unit * MIN_MAX - unit /\ unit * MIN_MAX \in Int
      BY <1>2, <2>2
    <3>3. unit * 0 = 0
      BY <2>2
    <3>4. Count = 0
      BY <2>1, <2>6, <3>1, <3>3
    <3>5. elapsed = (MS_PER_SEC - 1) + ((unit - MS_PER_SEC) + (unit * MIN_MAX - unit))
      BY <2>1, <2>6, <3>1, <3>2
    <3> QED
      BY <1>2, <2>2, <3>2, <3>4, <3>5
  <2> QED
    BY <1>3, <2>3, <2>4, <2>5, <2>6
<1>8. (elapsed + 1) % Hour = Count
  <2> HIDE DEF Count
  <2>1. Hour \in Nat \ {0}
    BY UnitsAreWhole
  <2>2. CASE Count = elapsed + 1
    <3>1. \A n \in 0 .. Hour - 1 : (n % Hour) = n
      BY <2>1
    <3> QED
      BY <1>6, <2>2, <3>1
  <2>3. CASE Count = 0 /\ elapsed + 1 = Hour
    BY <2>1, <2>3
  <2> QED
    BY <1>7, <2>2, <2>3
<1>9. elapsed' = Count /\ elapsed' \in 0 .. Hour - 1
  BY <1>6, <1>8
<1>10. /\ ms_count' \in 0 .. MS_PER_SEC - 1
       /\ second' \in 0 .. SEC_MAX - 1 /\ minute' \in 0 .. MIN_MAX - 1
  BY <1>3
<1>11. elapsed' = ms_count' + MS_PER_SEC * (second' + SEC_MAX * minute')
  BY <1>9, Zenon
<1>12. elapsed' \in 0 .. Hour - 1
  BY <1>9
<1> HIDE DEF Count
<1>13. CountInRange'
  BY <1>5, <1>10, <1>12 DEF CountInRange
<1>14. CountIsTime'
  BY <1>4, <1>11, Zenon DEF CountIsTime
<1> QED
  BY <1>13, <1>14, Zenon DEF CountInv

\* Each millisecond, and each reset of the time, keeps the counters, the
\* number on display and the ticks since the reset together.
LEMMA CountStep == ClockInv /\ [NextClock]_clock_vars => CountInv'
<1> SUFFICES ASSUME ClockInv, [NextClock]_clock_vars PROVE CountInv'
  OBVIOUS
<1>1. CASE Tick1ms
  BY <1>1, ClockTick DEF Tick1ms, ClockInv
<1>2. CASE ResetTime
  <2>1. 0 \in 0 .. MIN_MAX - 1 /\ 0 \in 0 .. SEC_MAX - 1
    BY ClockUnits
  <2>2. MS_PER_SEC * (0 + SEC_MAX * 0) = 0
    BY ClockUnits
  <2>3. /\ ms_count' = 0 /\ second' = 0 /\ minute' = 0
        /\ fndNumber' = FND_Number(0, 0)
        /\ elapsed' = MS_PER_SEC * (0 + SEC_MAX * 0)
    BY <1>2, <2>2 DEF ResetTime
  <2> QED
    BY <2>1, <2>3, ClockIsSet
<1>3. ASSUME NEW min \in {0, MIN_MAX - 1, MIN_MAX}, NEW sec \in {SEC_MAX - 1, SEC_MAX},
             SetTime(min, sec)
      PROVE  CountInv'
  <2> DEFINE m == IF min >= MIN_MAX THEN 0 ELSE min
             s == IF sec >= SEC_MAX THEN 0 ELSE sec
  <2>1. m \in 0 .. MIN_MAX - 1 /\ s \in 0 .. SEC_MAX - 1
    BY ClockUnits
  <2>2. /\ ms_count' = 0 /\ second' = s /\ minute' = m
        /\ fndNumber' = FND_Number(m, s)
        /\ elapsed' = MS_PER_SEC * (s + SEC_MAX * m)
    BY <1>3 DEF SetTime
  <2> HIDE DEF m, s
  <2> QED
    BY <2>1, <2>2, ClockIsSet
<1>4. CASE UNCHANGED time_vars
  BY <1>4, SMTT(40) DEF time_vars, ClockInv, CountInv, CountInRange, CountIsTime
<1> QED
  BY <1>1, <1>2, <1>3, <1>4
     DEF NextClock, FndOff, FndSegments, FndSelect, clock_vars, time_vars

\* FND_Execute keeps the segments and the selected digit together.
LEMMA PortStep == ClockInv /\ [NextClock]_clock_vars => PortInv'
<1> SUFFICES ASSUME ClockInv, [NextClock]_clock_vars PROVE PortInv'
  OBVIOUS
<1> USE DEF ClockInv, PortInv
<1>1. CASE Tick1ms
  BY <1>1 DEF Tick1ms, port_vars
<1>2. CASE ResetTime
  BY <1>2 DEF ResetTime, None
<1>3. ASSUME NEW min, NEW sec, SetTime(min, sec) PROVE PortInv'
  BY <1>3 DEF SetTime, port_vars
<1>4. CASE FndOff
  BY <1>4 DEF FndOff, time_vars, Digits, None
<1>5. CASE FndSegments
  <2>1. \A d \in Digits : FND_GetDigitData(fndNumber, d) \in 0 .. 9
    <3>1. fndNumber \in Nat
      BY DEF CountInv, CountInRange, CountIsTime
    <3>2. /\ FND_GetDigitData(fndNumber, 0) = fndNumber % 10
          /\ FND_GetDigitData(fndNumber, 1) = (fndNumber \div 10) % 10
          /\ FND_GetDigitData(fndNumber, 2) = (fndNumber \div 100) % 10
          /\ FND_GetDigitData(fndNumber, 3) = (fndNumber \div 1000) % 10
      BY DEF FND_GetDigitData
    <3>3. \A n \in Nat : (n % 10) \in 0 .. 9
      OBVIOUS
    <3>4. fndNumber \div 10 \in Nat /\ fndNumber \div 100 \in Nat /\ fndNumber \div 1000 \in Nat
      BY <3>1
    <3> QED
      BY <3>1, <3>2, <3>3, <3>4 DEF Digits
  <2>2. FND_MakeSegmentData(fndNumber, fndDigitState) \in [value : 0 .. 15, point : BOOLEAN]
    BY <2>1 DEF FND_MakeSegmentData
  <2> QED
    BY <1>5, <2>2 DEF FndSegments
<1>6. CASE FndSelect
  BY <1>6 DEF FndSelect
<1>7. CASE UNCHANGED clock_vars
  BY <1>7 DEF clock_vars
<1> QED
  BY <1>1, <1>2, <1>3, <1>4, <1>5, <1>6, <1>7 DEF NextClock

\* The two invariants hold in every run.
LEMMA ClockInvariant == SpecClock => []ClockInv
BY ClockInit, CountStep, PortStep, PTL DEF SpecClock, ClockInv

\* TimeClock_Execute loses no tick: minute, second and ms_count are exactly the
\* ticks since the last TimeClock_Reset, and the number on display is that time,
\* for every length of a second, a minute and an hour.
THEOREM ClockIsExact == SpecClock => []ClockCountsTicks
<1>1. ClockInv => ClockCountsTicks
  BY SMTT(40) DEF ClockInv, CountInv, CountInRange, CountIsTime, PortInv, ClockCountsTicks, ClockTypeOK
<1> QED
  BY <1>1, ClockInvariant, PTL

\* FND_Execute lights no digit with the segments of another one: a digit that is
\* lit shows its own decimal digit of a number that was on display, whenever the
\* timer interrupts the two port writes.
THEOREM NoGhostDigit == SpecClock => LitDigitIsCurrent
<1> DEFINE Current ==
      lit' # None /\ (lit' # lit \/ segments' # segments) =>
        segments' = FND_MakeSegmentData(100 * minute + second, lit')
<1>1. ClockInv /\ [NextClock]_clock_vars => [Current]_clock_vars
  <2> SUFFICES ASSUME ClockInv, NextClock PROVE Current
    BY Zenon
  <2>1. /\ fndNumber = 100 * minute + second
        /\ task # "idle" => lit = None
        /\ task = "select" => segments = FND_MakeSegmentData(fndNumber, fndDigitState)
    BY DEF ClockInv, CountInv, CountInRange, CountIsTime, PortInv
  <2>2. CASE lit' = None \/ (lit' = lit /\ segments' = segments)
    BY <2>2
  <2>3. CASE FndSelect
    BY <2>1, <2>3 DEF FndSelect
  <2>4. CASE FndSegments
    BY <2>1, <2>4 DEF FndSegments
  <2> QED
    BY <2>2, <2>3, <2>4, Zenon
       DEF NextClock, Tick1ms, ResetTime, SetTime, FndOff, port_vars
<1> QED
  BY <1>1, ClockInvariant, PTL DEF SpecClock, LitDigitIsCurrent

-----------------------------------------------------------------------------
(* The display shows what was printed.                                     *)

\* The bytes that the display has still to take.
Pending == IF step > 0 THEN <<tx>> \o todo ELSE todo

LcdBytes == [byte : 0 .. 255, rs : BOOLEAN]
Displays ==
  [four : BOOLEAN, two : BOOLEAN, on : BOOLEAN, up : BOOLEAN, cgram : BOOLEAN,
   busy : BOOLEAN, half : 0 .. NoNibble, row : Rows, col : 0 .. DDRAM_COLS - 1,
   ddram : [Rows -> [0 .. DDRAM_COLS - 1 -> 0 .. 255]]]

BusInv ==
  /\ board \in {"master", "slave"} /\ op \in {"init", "print"}
  /\ todo \in Seq(LcdBytes) /\ tx \in LcdBytes /\ step \in 0 .. 4
  /\ en \in BOOLEAN /\ spoilt \in BOOLEAN /\ disturbed \in BOOLEAN
  /\ lcd \in Displays
  /\ resets \in 0 .. MAX_RESETS /\ lost \in 0 .. MAX_LOST
  /\ step \in {2, 4} => en
  /\ step = 3 => ~en

\* In step: the display holds a nibble only in the middle of a frame, after its
\* second data byte, and it is this frame's.
InStep(l, s, byte) ==
  l.four /\ l.half = IF s >= 3 THEN byte \div 16 ELSE NoNibble
HalfInv(l) == ~l.four => l.half = NoNibble

\* How far an Init that went through has brought the display after k bytes.
Booted(l, s, byte, b, k) ==
  /\ k = 0 /\ s >= 3 => ~l.four \/ l.half \in {3, NoNibble}
  /\ k = 1 /\ s < 3 => ~l.four \/ l.half = 3
  /\ k = 1 /\ s >= 3 => ~l.four
  /\ k >= 2 => InStep(l, s, byte)
  /\ k >= 3 => l.two
  /\ k >= (IF b = "master" THEN 4 ELSE 7) => l.on
  /\ k >= (IF b = "master" THEN 5 ELSE 6) => l.up

InitLength == Len(InitSequence[board])
InitInv ==
  /\ HalfInv(lcd)
  /\ op = "init" /\ ~spoilt =>
       /\ Len(Pending) <= InitLength
       /\ \A i \in 1 .. Len(Pending) :
            Pending[i] = InitBytes(board)[InitLength - Len(Pending) + i]
       /\ Booted(lcd, step, tx.byte, board, InitLength - Len(Pending))

\* A print sends characters and three commands, of which none takes the
\* display out of step.
PrintBytes ==
  {Command(LCD_CMD_DISPLAY_ON), Command(128), Command(192)}
    \cup {Data(c) : c \in Space .. 127}

Prepared(l, s, byte) == InStep(l, s, byte) /\ l.two /\ l.on /\ l.up
PrintInv ==
  op = "print" =>
    /\ todo \in Seq(PrintBytes)
    /\ step > 0 => tx \in PrintBytes
    /\ ~spoilt => Prepared(lcd, step, tx.byte)

\* The characters of a padded line, the bytes of a print, and what the display
\* shows after k of them.  A warning has a byte of number 0.
Char(text, c) == IF c < Len(text) THEN text[c + 1] ELSE Space
LastByte == 2 * LCD_COL_COUNT + 2
PrintByte(line1, line2, k) ==
  CASE k = 0 -> Command(LCD_CMD_DISPLAY_ON)
    [] k = 1 -> Command(128)
    [] k \in 2 .. LCD_COL_COUNT + 1 -> Data(Char(line1, k - 2))
    [] k = LCD_COL_COUNT + 2 -> Command(192)
    [] k > LCD_COL_COUNT + 2 -> Data(Char(line2, k - LCD_COL_COUNT - 3))

Shown(l, line1, line2, k) ==
  /\ k >= 1 => ~l.cgram
  /\ k \in 1 .. LCD_COL_COUNT => l.row = 0 /\ l.col = k - 1
  /\ k \in LCD_COL_COUNT + 2 .. LastByte - 1 =>
       l.row = 1 /\ l.col = k - LCD_COL_COUNT - 2
  /\ \A c \in Cols : c + 2 <= k => l.ddram[0][c] = Char(line1, c)
  /\ \A c \in Cols : c + LCD_COL_COUNT + 3 <= k => l.ddram[1][c] = Char(line2, c)

Characters == Space .. 127
ScreenInv ==
  op = "print" /\ ~spoilt /\ ~disturbed =>
    /\ asked[1] \in Seq(Characters) /\ asked[2] \in Seq(Characters)
    /\ Len(Pending) <= LastByte + 1
    /\ \A i \in 1 .. Len(Pending) :
         Pending[i] = PrintByte(asked[1], asked[2], LastByte - Len(Pending) + i)
    /\ Shown(lcd, asked[1], asked[2], LastByte - Len(Pending))

DisplayInv == BusInv /\ InitInv /\ PrintInv /\ ScreenInv

\* The sizes of the display are numbers, and a line fits into a row of its
\* memory.
LEMMA SizesOfDisplay ==
  /\ LCD_COL_COUNT \in Nat /\ LCD_COL_COUNT >= 1
  /\ DDRAM_COLS \in Nat /\ DDRAM_COLS >= LCD_COL_COUNT
  /\ TIME_COLS \in 0 .. LCD_COL_COUNT
BY DisplayAssumption

-----------------------------------------------------------------------------
(* The display.                                                            *)

\* Nothing that is sent to a display makes it anything but a display.
LEMMA FieldTypes ==
  ASSUME NEW l \in Displays
  PROVE  /\ \A b \in BOOLEAN : /\ [l EXCEPT !.four = b] \in Displays
                               /\ [l EXCEPT !.two = b] \in Displays
                               /\ [l EXCEPT !.on = b] \in Displays
                               /\ [l EXCEPT !.up = b] \in Displays
                               /\ [l EXCEPT !.cgram = b] \in Displays
                               /\ [l EXCEPT !.busy = b] \in Displays
         /\ \A h \in 0 .. NoNibble : [l EXCEPT !.half = h] \in Displays
         /\ \A x \in Rows : [l EXCEPT !.row = x] \in Displays
         /\ \A x \in 0 .. DDRAM_COLS - 1 : [l EXCEPT !.col = x] \in Displays
         /\ \A d \in [Rows -> [0 .. DDRAM_COLS - 1 -> 0 .. 255]] :
              [l EXCEPT !.ddram = d] \in Displays
BY ZenonT(40) DEF Displays

\* The instructions, the characters and the nibbles take a display to a display.
LEMMA HomeType == ASSUME NEW l \in Displays PROVE Home(l) \in Displays
<1>1. 0 \in Rows /\ 0 \in 0 .. DDRAM_COLS - 1
  BY SizesOfDisplay DEF Rows
<1>2. [l EXCEPT !.row = 0] \in Displays
  BY <1>1, FieldTypes
<1>3. [l EXCEPT !.row = 0, !.col = 0] \in Displays
  BY <1>1, <1>2, FieldTypes
<1>4. [l EXCEPT !.row = 0, !.col = 0, !.cgram = FALSE] \in Displays
  BY <1>3, FieldTypes
<1>5. [l EXCEPT !.row = 0, !.col = 0, !.cgram = FALSE, !.busy = TRUE] \in Displays
  BY <1>4, FieldTypes
<1> QED
  BY <1>5 DEF Home

\* An instruction leaves a display.
LEMMA ExecuteType ==
  ASSUME NEW l \in Displays, NEW c \in 0 .. 255
  PROVE  Execute(l, c) \in Displays
<1>1. CASE c >= 128
  <2>1. (c % 128) \div 64 \in Rows
    BY DEF Rows
  <2>2. (c % 64) % DDRAM_COLS \in 0 .. DDRAM_COLS - 1
    <3>1. (c % 64) \in Nat
      OBVIOUS
    <3> QED
      BY <3>1, SizesOfDisplay
  <2>3. Execute(l, c) = [l EXCEPT !.row = (c % 128) \div 64, !.cgram = FALSE,
                                  !.col = (c % 64) % DDRAM_COLS]
    BY <1>1 DEF Execute
  <2> DEFINE x == (c % 128) \div 64
             y == (c % 64) % DDRAM_COLS
  <2> HIDE DEF x, y
  <2>4. [l EXCEPT !.row = x] \in Displays
    BY <2>1, FieldTypes DEF x
  <2>5. [l EXCEPT !.row = x, !.cgram = FALSE] \in Displays
    BY <2>4, FieldTypes
  <2>6. [l EXCEPT !.row = x, !.cgram = FALSE, !.col = y] \in Displays
    BY <2>2, <2>5, FieldTypes DEF y
  <2> QED
    BY <2>3, <2>6 DEF x, y
<1>2. CASE c \in 64 .. 127
  <2>1. Execute(l, c) = [l EXCEPT !.cgram = TRUE]
    BY <1>2 DEF Execute
  <2> QED
    BY <2>1, FieldTypes
<1>3. CASE c \in 32 .. 63
  <2>1. Execute(l, c) = [l EXCEPT !.four = c % 32 < 16, !.two = c % 16 >= 8]
    BY <1>3 DEF Execute
  <2> DEFINE four == c % 32 < 16
             two == c % 16 >= 8
  <2>2. four \in BOOLEAN /\ two \in BOOLEAN
    OBVIOUS
  <2> HIDE DEF four, two
  <2>3. [l EXCEPT !.four = four] \in Displays
    BY <2>2, FieldTypes
  <2>4. [l EXCEPT !.four = four, !.two = two] \in Displays
    BY <2>2, <2>3, FieldTypes
  <2> QED
    BY <2>1, <2>4 DEF four, two
<1>4. CASE c \in 8 .. 15
  <2>1. Execute(l, c) = [l EXCEPT !.on = c % 8 >= 4]
    BY <1>4 DEF Execute
  <2>2. (c % 8 >= 4) \in BOOLEAN
    OBVIOUS
  <2> QED
    BY <2>1, <2>2, FieldTypes
<1>5. CASE c \in 4 .. 7
  <2>1. Execute(l, c) = [l EXCEPT !.up = c % 4 >= 2]
    BY <1>5 DEF Execute
  <2>2. (c % 4 >= 2) \in BOOLEAN
    OBVIOUS
  <2> QED
    BY <2>1, <2>2, FieldTypes
<1>6. CASE c \in 2 .. 3
  BY <1>6, HomeType DEF Execute
<1>7. CASE c = 1
  <2>1. Execute(l, c) = [Home(l) EXCEPT !.ddram = Blank, !.up = TRUE]
    BY <1>7 DEF Execute
  <2>2. Blank \in [Rows -> [0 .. DDRAM_COLS - 1 -> 0 .. 255]]
    BY DEF Blank, Space
  <2>3. Home(l) \in Displays
    BY HomeType
  <2> HIDE DEF Blank
  <2> QED
    BY <2>1, <2>2, <2>3, ZenonT(40) DEF Displays
<1>8. CASE c \in 16 .. 31 \/ c = 0
  BY <1>8 DEF Execute
<1>9. \/ c >= 128 \/ c \in 64 .. 127 \/ c \in 32 .. 63 \/ c \in 16 .. 31
      \/ c \in 8 .. 15 \/ c \in 4 .. 7 \/ c \in 2 .. 3 \/ c = 1 \/ c = 0
  OBVIOUS
<1> QED
  BY <1>1, <1>2, <1>3, <1>4, <1>5, <1>6, <1>7, <1>8, <1>9

\* A step of the cursor leaves a display.
LEMMA AdvanceType == ASSUME NEW l \in Displays PROVE Advance(l) \in Displays
<1>1. l.col \in 0 .. DDRAM_COLS - 1 /\ l.row \in Rows /\ l.up \in BOOLEAN
  BY DEF Displays
<1> DEFINE last == IF l.up THEN DDRAM_COLS - 1 ELSE 0
<1>2. CASE l.col = last
  <2>1. 1 - l.row \in Rows /\ DDRAM_COLS - 1 - last \in 0 .. DDRAM_COLS - 1
    BY <1>1, SizesOfDisplay DEF Rows
  <2>2. Advance(l) = [l EXCEPT !.row = 1 - l.row, !.col = DDRAM_COLS - 1 - last]
    BY <1>2 DEF Advance
  <2> HIDE DEF last
  <2> QED
    BY <2>1, <2>2 DEF Displays
<1>3. CASE l.col # last
  <2>1. (IF l.up THEN l.col + 1 ELSE l.col - 1) \in 0 .. DDRAM_COLS - 1
    BY <1>1, <1>3, SizesOfDisplay
  <2>2. Advance(l) = [l EXCEPT !.col = IF l.up THEN l.col + 1 ELSE l.col - 1]
    BY <1>3 DEF Advance
  <2> QED
    BY <2>1, <2>2 DEF Displays
<1> QED
  BY <1>2, <1>3

\* A byte leaves a display.
LEMMA PerformType ==
  ASSUME NEW l \in Displays, NEW c \in 0 .. 255, NEW rs \in BOOLEAN
  PROVE  Perform(l, c, rs) \in Displays
<1>1. CASE rs /\ ~l.cgram
  <2>1. [l EXCEPT !.ddram[l.row][l.col] = c] \in Displays
    BY DEF Displays
  <2>2. Perform(l, c, rs) = Advance([l EXCEPT !.ddram[l.row][l.col] = c])
    BY <1>1 DEF Perform, WriteChar
  <2> QED
    BY <2>1, <2>2, AdvanceType
<1>2. CASE rs /\ l.cgram
  BY <1>2 DEF Perform, WriteChar
<1>3. CASE ~rs
  BY <1>3, ExecuteType DEF Perform
<1> QED
  BY <1>1, <1>2, <1>3

\* A nibble leaves a display.
LEMMA LatchType ==
  ASSUME NEW l \in Displays, NEW nibble \in 0 .. 15, NEW rs \in BOOLEAN
  PROVE  Latch(l, nibble, rs) \in Displays
<1>1. l.half \in 0 .. 16 /\ l.four \in BOOLEAN
  BY DEF Displays, NoNibble
<1>2. CASE ~l.four
  <2>1. 16 * nibble + 15 \in 0 .. 255
    OBVIOUS
  <2>2. Latch(l, nibble, rs) = Perform(l, 16 * nibble + 15, rs)
    BY <1>2 DEF Latch
  <2> QED
    BY <2>1, <2>2, PerformType
<1>3. CASE l.four /\ l.half = NoNibble
  <2>1. Latch(l, nibble, rs) = [l EXCEPT !.half = nibble]
    BY <1>3 DEF Latch
  <2>2. nibble \in 0 .. NoNibble
    BY DEF NoNibble
  <2> QED
    BY <2>1, <2>2, FieldTypes
<1>4. CASE l.four /\ l.half # NoNibble
  <2>1. 16 * l.half + nibble \in 0 .. 255
    BY <1>1, <1>4 DEF NoNibble
  <2>2. [l EXCEPT !.half = NoNibble] \in Displays
    <3>1. NoNibble \in 0 .. NoNibble
      BY DEF NoNibble
    <3> QED
      BY <3>1, FieldTypes
  <2>3. Latch(l, nibble, rs) = Perform([l EXCEPT !.half = NoNibble], 16 * l.half + nibble, rs)
    BY <1>4 DEF Latch
  <2> QED
    BY <2>1, <2>2, <2>3, PerformType
<1> QED
  BY <1>1, <1>2, <1>3, <1>4

-----------------------------------------------------------------------------
(* What the drivers send.                                                  *)

\* The bytes of a print and the commands are bytes of the bus.
LEMMA BytesAreSent ==
  /\ PrintBytes \subseteq LcdBytes
  /\ \A c \in 0 .. 255 : Command(c) \in LcdBytes
<1>1. \A c \in 0 .. 255 : Command(c) \in LcdBytes /\ Data(c) \in LcdBytes
  BY Zenon DEF LcdBytes, Command, Data
<1>2. /\ LCD_CMD_DISPLAY_ON \in 0 .. 255 /\ 128 \in 0 .. 255 /\ 192 \in 0 .. 255
      /\ \A c \in Space .. 127 : c \in 0 .. 255
  BY DEF LCD_CMD_DISPLAY_ON, Space
<1>3. \A c \in Space .. 127 : Data(c) \in LcdBytes
  <2> SUFFICES ASSUME NEW c \in Space .. 127 PROVE Data(c) \in LcdBytes
    OBVIOUS
  <2>1. c \in 0 .. 255
    BY <1>2
  <2> QED
    BY <1>1, <2>1
<1>4. /\ Command(LCD_CMD_DISPLAY_ON) \in LcdBytes
      /\ Command(128) \in LcdBytes /\ Command(192) \in LcdBytes
  BY <1>1, <1>2
<1> QED
  BY <1>1, <1>3, <1>4 DEF PrintBytes

\* LCD_SetCursor sends one command.
LEMMA CursorBytes ==
  ASSUME NEW b
  PROVE  SetCursor(b, 0, 0) = <<Command(128)>> /\ SetCursor(b, 1, 0) = <<Command(192)>>
BY SizesOfDisplay DEF SetCursor

\* A text padded or cut to a width.
LEMMA PaddedBytes ==
  ASSUME NEW text \in Seq(Characters), NEW width \in Nat
  PROVE  /\ Padded(text, width) \in Seq(PrintBytes)
         /\ Len(Padded(text, width)) = width
         /\ \A i \in 1 .. width : Padded(text, width)[i] = Data(Char(text, i - 1))
<1>1. \A i \in 1 .. width : Padded(text, width)[i] = Data(Char(text, i - 1))
  <2> SUFFICES ASSUME NEW i \in 1 .. width
               PROVE  Padded(text, width)[i] = Data(Char(text, i - 1))
    OBVIOUS
  <2>1. Padded(text, width)[i] = Data(IF i <= Len(text) THEN text[i] ELSE Space)
    BY Zenon DEF Padded
  <2>2. Len(text) \in Nat
    BY LenProperties
  <2>3. (IF i <= Len(text) THEN text[i] ELSE Space) = Char(text, i - 1)
    BY <2>2 DEF Char
  <2> QED
    BY <2>1, <2>3
<1>2. ASSUME NEW i \in 1 .. width PROVE Data(Char(text, i - 1)) \in PrintBytes
  <2>1. Char(text, i - 1) \in Characters
    <3>1. Len(text) \in Nat
      BY LenProperties
    <3>2. CASE i - 1 < Len(text)
      <4>1. i \in 1 .. Len(text)
        BY <3>1, <3>2
      <4>2. text[i] \in Characters
        BY <4>1, ElementOfSeq
      <4> QED
        BY <3>2, <4>2 DEF Char
    <3>3. CASE ~(i - 1 < Len(text))
      BY <3>3 DEF Char, Space, Characters
    <3> QED
      BY <3>2, <3>3
  <2> QED
    BY <2>1, Zenon DEF PrintBytes, Characters
<1>3. Padded(text, width) \in [1 .. width -> PrintBytes]
  <2>1. \A i \in 1 .. width : Padded(text, width)[i] \in PrintBytes
    BY <1>1, <1>2, Zenon
  <2>2. Padded(text, width) = [i \in 1 .. width |-> Padded(text, width)[i]]
    BY Zenon DEF Padded
  <2> QED
    BY <2>1, <2>2, Zenon
<1> QED
  BY <1>1, <1>3

\* The elements of two sequences put together.
LEMMA Joined ==
  ASSUME NEW S
  PROVE  \A s, t \in Seq(S) :
           /\ s \o t \in Seq(S) /\ Len(s \o t) = Len(s) + Len(t)
           /\ \A i \in 1 .. Len(s) : (s \o t)[i] = s[i]
           /\ \A i \in 1 .. Len(t) : (s \o t)[Len(s) + i] = t[i]
<1> SUFFICES ASSUME NEW s \in Seq(S), NEW t \in Seq(S)
             PROVE  /\ s \o t \in Seq(S) /\ Len(s \o t) = Len(s) + Len(t)
                    /\ \A i \in 1 .. Len(s) : (s \o t)[i] = s[i]
                    /\ \A i \in 1 .. Len(t) : (s \o t)[Len(s) + i] = t[i]
  OBVIOUS
<1>1. /\ s \o t \in Seq(S) /\ Len(s \o t) = Len(s) + Len(t)
      /\ \A i \in 1 .. Len(s) + Len(t) :
           (s \o t)[i] = IF i <= Len(s) THEN s[i] ELSE t[i - Len(s)]
  BY ConcatProperties
<1>2. Len(s) \in Nat /\ Len(t) \in Nat
  BY LenProperties
<1>3. ASSUME NEW i \in 1 .. Len(t) PROVE (s \o t)[Len(s) + i] = t[i]
  <2>1. /\ Len(s) + i \in 1 .. Len(s) + Len(t) /\ ~(Len(s) + i <= Len(s))
        /\ (Len(s) + i) - Len(s) = i
    BY <1>2
  <2> QED
    BY <1>1, <2>1
<1> QED
  BY <1>1, <1>2, <1>3

\* Two sequences of bytes, one after the other.
LEMMA PrintsJoined ==
  \A s, t \in Seq(PrintBytes) :
    /\ s \o t \in Seq(PrintBytes) /\ Len(s \o t) = Len(s) + Len(t)
    /\ \A i \in 1 .. Len(s) : (s \o t)[i] = s[i]
    /\ \A i \in 1 .. Len(t) : (s \o t)[Len(s) + i] = t[i]
BY Joined

\* LCD_PrintMessage and the slave's ready message: two lines of full length.
LEMMA MessageBytes ==
  ASSUME NEW b, NEW line1 \in Seq(Characters), NEW line2 \in Seq(Characters)
  PROVE  /\ PrintMessage(b, line1, line2) \in Seq(PrintBytes)
         /\ Len(PrintMessage(b, line1, line2)) = LastByte
         /\ \A k \in 1 .. LastByte :
              PrintMessage(b, line1, line2)[k] = PrintByte(line1, line2, k)
<1> DEFINE W == LCD_COL_COUNT
           p == <<Command(128)>>
           q == Line(line1)
           r == <<Command(192)>>
           t == Line(line2)
<1>1. W \in Nat /\ W >= 1
  BY SizesOfDisplay
<1>2. /\ p \in Seq(PrintBytes) /\ Len(p) = 1 /\ p[1] = Command(128)
      /\ r \in Seq(PrintBytes) /\ Len(r) = 1 /\ r[1] = Command(192)
  <2>1. Command(128) \in PrintBytes /\ Command(192) \in PrintBytes
    BY Zenon DEF PrintBytes
  <2> QED
    BY <2>1
<1>3. /\ q \in Seq(PrintBytes) /\ Len(q) = W
      /\ \A i \in 1 .. W : q[i] = Data(Char(line1, i - 1))
  BY <1>1, PaddedBytes DEF Line
<1>4. /\ t \in Seq(PrintBytes) /\ Len(t) = W
      /\ \A i \in 1 .. W : t[i] = Data(Char(line2, i - 1))
  BY <1>1, PaddedBytes DEF Line
<1>5. PrintMessage(b, line1, line2) = p \o q \o r \o t
  <2>1. SetCursor(b, 0, 0) = p /\ SetCursor(b, 1, 0) = r
    BY CursorBytes
  <2> HIDE DEF p, r
  <2> QED
    BY <2>1 DEF PrintMessage
<1>6. LastByte = 2 * W + 2
  BY DEF LastByte
<1> HIDE DEF W, p, q, r, t
<1> DEFINE pq == p \o q
           pqr == pq \o r
           message == pqr \o t
<1>types. p \in Seq(PrintBytes) /\ q \in Seq(PrintBytes) /\ r \in Seq(PrintBytes)
  BY <1>2, <1>3
<1>7. /\ pq \in Seq(PrintBytes) /\ Len(pq) = 1 + W
      /\ pq[1] = p[1] /\ \A i \in 1 .. W : pq[1 + i] = q[i]
  <2>1. /\ pq \in Seq(PrintBytes) /\ Len(pq) = Len(p) + Len(q)
        /\ \A i \in 1 .. Len(p) : pq[i] = p[i]
        /\ \A i \in 1 .. Len(q) : pq[Len(p) + i] = q[i]
    BY <1>types, PrintsJoined, Zenon
  <2> HIDE DEF pq
  <2>2. 1 \in 1 .. 1
    OBVIOUS
  <2> QED
    BY <1>1, <1>2, <1>3, <2>1, <2>2
<1> HIDE DEF pq
<1>8. /\ pqr \in Seq(PrintBytes) /\ Len(pqr) = W + 2
      /\ \A i \in 1 .. W + 1 : pqr[i] = pq[i]
      /\ pqr[W + 2] = r[1]
  <2>0. pq \in Seq(PrintBytes)
    BY <1>7
  <2>1. /\ pqr \in Seq(PrintBytes) /\ Len(pqr) = Len(pq) + Len(r)
        /\ \A i \in 1 .. Len(pq) : pqr[i] = pq[i]
        /\ \A i \in 1 .. Len(r) : pqr[Len(pq) + i] = r[i]
    BY <1>types, <2>0, PrintsJoined, Zenon
  <2> HIDE DEF pqr
  <2>2. (1 + W) + 1 = W + 2 /\ 1 \in 1 .. 1 /\ 1 + W = W + 1
    BY <1>1
  <2> QED
    BY <1>1, <1>2, <1>7, <2>1, <2>2
<1> HIDE DEF pqr
<1>9. /\ message \in Seq(PrintBytes) /\ Len(message) = LastByte
      /\ \A i \in 1 .. W + 2 : message[i] = pqr[i]
      /\ \A i \in 1 .. W : message[W + 2 + i] = t[i]
  <2>1. /\ message \in Seq(PrintBytes) /\ Len(message) = Len(pqr) + Len(t)
        /\ \A i \in 1 .. Len(pqr) : message[i] = pqr[i]
        /\ \A i \in 1 .. Len(t) : message[Len(pqr) + i] = t[i]
    BY <1>4, <1>8, PrintsJoined, Zenon
  <2> HIDE DEF message
  <2>2. (W + 2) + W = LastByte
    BY <1>1, <1>6
  <2> QED
    BY <1>1, <1>4, <1>8, <2>1, <2>2
<1>10. PrintMessage(b, line1, line2) = message
  BY <1>5 DEF pq, pqr
<1> HIDE DEF message
<1>11. ASSUME NEW k \in 1 .. LastByte
       PROVE  message[k] = PrintByte(line1, line2, k)
  <2>1. CASE k = 1
    <3>1. 1 \in 1 .. W + 1 /\ 1 \in 1 .. W + 2
      BY <1>1
    <3>2. message[1] = Command(128)
      BY <1>2, <1>7, <1>8, <1>9, <3>1
    <3>3. PrintByte(line1, line2, 1) = Command(128)
      BY <1>1 DEF PrintByte, W
    <3> QED
      BY <2>1, <3>2, <3>3
  <2>2. CASE k \in 2 .. W + 1
    <3>1. /\ k \in 1 .. W + 1 /\ k \in 1 .. W + 2 /\ k - 1 \in 1 .. W
          /\ 1 + (k - 1) = k /\ (k - 1) - 1 = k - 2
      BY <1>1, <2>2
    <3>2. message[k] = q[k - 1]
      BY <1>7, <1>8, <1>9, <3>1
    <3>3. message[k] = Data(Char(line1, k - 2))
      BY <1>3, <3>1, <3>2
    <3>4. PrintByte(line1, line2, k) = Data(Char(line1, k - 2))
      BY <1>1, <2>2 DEF PrintByte, W
    <3> QED
      BY <3>3, <3>4
  <2>3. CASE k = W + 2
    <3>1. W + 2 \in 1 .. W + 2
      BY <1>1
    <3>2. message[W + 2] = Command(192)
      BY <1>2, <1>8, <1>9, <3>1
    <3>3. PrintByte(line1, line2, k) = Command(192)
      BY <1>1, <2>3 DEF PrintByte, W
    <3> QED
      BY <2>3, <3>2, <3>3
  <2>4. CASE k \in W + 3 .. LastByte
    <3>1. /\ k - W - 2 \in 1 .. W /\ W + 2 + (k - W - 2) = k
          /\ (k - W - 2) - 1 = k - W - 3
      BY <1>1, <1>6, <2>4
    <3>2. message[k] = t[k - W - 2]
      BY <1>9, <3>1
    <3>3. message[k] = Data(Char(line2, k - W - 3))
      BY <1>4, <3>1, <3>2
    <3>4. PrintByte(line1, line2, k) = Data(Char(line2, k - W - 3))
      BY <1>1, <1>6, <2>4 DEF PrintByte, W
    <3> QED
      BY <3>3, <3>4
  <2>5. k = 1 \/ k \in 2 .. W + 1 \/ k = W + 2 \/ k \in W + 3 .. LastByte
    BY <1>1, <1>6
  <2> QED
    BY <2>1, <2>2, <2>3, <2>4, <2>5
<1> QED
  BY <1>9, <1>10, <1>11

\* Three of them, in either grouping.
LEMMA PrintsAssociate ==
  \A s, t, u \in Seq(PrintBytes) : (s \o t) \o u = s \o (t \o u)
BY ConcatAssociative

\* The two parts of a warning's second line make one line.
LEMMA LineOfTwoParts ==
  ASSUME NEW time \in Seq(Characters), NEW name \in Seq(Characters),
         Len(time) = TIME_COLS
  PROVE  /\ time \o name \in Seq(Characters)
         /\ Padded(time, TIME_COLS) \o Padded(name, LCD_COL_COUNT - TIME_COLS)
              = Line(time \o name)
<1> DEFINE W == LCD_COL_COUNT
           T == TIME_COLS
           text == time \o name
           x == Padded(time, T)
           y == Padded(name, W - T)
           z == Padded(text, W)
           xy == x \o y
<1>1. W \in Nat /\ T \in Nat /\ T <= W /\ W - T \in Nat
  BY SizesOfDisplay
<1>2. /\ text \in Seq(Characters) /\ Len(text) = T + Len(name)
      /\ \A i \in 1 .. T : text[i] = time[i]
      /\ \A i \in 1 .. Len(name) : text[T + i] = name[i]
  <2>1. \A s, t \in Seq(Characters) :
           /\ s \o t \in Seq(Characters) /\ Len(s \o t) = Len(s) + Len(t)
           /\ \A i \in 1 .. Len(s) : (s \o t)[i] = s[i]
           /\ \A i \in 1 .. Len(t) : (s \o t)[Len(s) + i] = t[i]
    BY Joined
  <2>2. /\ text \in Seq(Characters) /\ Len(text) = Len(time) + Len(name)
        /\ \A i \in 1 .. Len(time) : text[i] = time[i]
        /\ \A i \in 1 .. Len(name) : text[Len(time) + i] = name[i]
    BY <2>1, Zenon
  <2> HIDE DEF text
  <2> QED
    BY <2>2
<1>3. /\ x \in Seq(PrintBytes) /\ Len(x) = T
      /\ \A i \in 1 .. T : x[i] = Data(Char(time, i - 1))
  BY <1>1, PaddedBytes
<1>4. /\ y \in Seq(PrintBytes) /\ Len(y) = W - T
      /\ \A i \in 1 .. W - T : y[i] = Data(Char(name, i - 1))
  <2> DEFINE n == W - T
  <2>1. n \in Nat
    BY <1>1
  <2> HIDE DEF n
  <2>2. /\ Padded(name, n) \in Seq(PrintBytes) /\ Len(Padded(name, n)) = n
        /\ \A i \in 1 .. n : Padded(name, n)[i] = Data(Char(name, i - 1))
    BY <2>1, PaddedBytes
  <2> QED
    BY <2>2 DEF n
<1>5. /\ z \in Seq(PrintBytes) /\ Len(z) = W
      /\ \A i \in 1 .. W : z[i] = Data(Char(text, i - 1))
  <2> HIDE DEF text
  <2> QED
    BY <1>1, <1>2, PaddedBytes
<1> HIDE DEF W, T, text, x, y, z
<1>6. /\ xy \in Seq(PrintBytes) /\ Len(xy) = W
      /\ \A i \in 1 .. T : xy[i] = x[i]
      /\ \A i \in 1 .. W - T : xy[T + i] = y[i]
  <2>1. x \in Seq(PrintBytes) /\ y \in Seq(PrintBytes)
    BY <1>3, <1>4
  <2>2. /\ xy \in Seq(PrintBytes) /\ Len(xy) = Len(x) + Len(y)
        /\ \A i \in 1 .. Len(x) : xy[i] = x[i]
        /\ \A i \in 1 .. Len(y) : xy[Len(x) + i] = y[i]
    BY <2>1, PrintsJoined, Zenon
  <2>3. T + (W - T) = W
    BY <1>1
  <2> HIDE DEF xy
  <2> QED
    BY <1>3, <1>4, <2>2, <2>3
<1> HIDE DEF xy
<1>7. ASSUME NEW i \in 1 .. W PROVE xy[i] = z[i]
  <2>1. CASE i \in 1 .. T
    <3>1. Char(time, i - 1) = time[i] /\ Char(text, i - 1) = text[i]
      <4>1. Len(name) \in Nat /\ Len(time) = T
        BY LenProperties DEF T
      <4>2. i - 1 < Len(time) /\ i - 1 < Len(text) /\ (i - 1) + 1 = i
        BY <1>1, <1>2, <2>1, <4>1
      <4> QED
        BY <4>2 DEF Char
    <3> QED
      BY <1>2, <1>3, <1>5, <1>6, <2>1, <3>1
  <2>2. CASE i \in T + 1 .. W
    <3>1. i - T \in 1 .. W - T /\ T + (i - T) = i
      BY <1>1, <2>2
    <3>2. xy[i] = Data(Char(name, (i - T) - 1))
      BY <1>4, <1>6, <3>1
    <3>3. Char(name, (i - T) - 1) = Char(text, i - 1)
      <4>1. Len(name) \in Nat
        BY LenProperties
      <4>2. (i - T) - 1 < Len(name) <=> i - 1 < Len(text)
        BY <1>1, <1>2, <2>2, <4>1
      <4>3. CASE i - 1 < Len(text)
        <5>1. i - T \in 1 .. Len(name) /\ ((i - T) - 1) + 1 = i - T /\ (i - 1) + 1 = i
          BY <1>1, <2>2, <4>1, <4>2, <4>3
        <5>2. text[i] = name[i - T]
          BY <1>2, <3>1, <5>1
        <5> QED
          BY <4>2, <4>3, <5>1, <5>2 DEF Char
      <4>4. CASE ~(i - 1 < Len(text))
        BY <4>2, <4>4 DEF Char
      <4> QED
        BY <4>3, <4>4
    <3> QED
      BY <1>5, <3>2, <3>3
  <2> QED
    BY <1>1, <2>1, <2>2
<1>8. xy = z
  BY <1>5, <1>6, <1>7, SeqEqual
<1> QED
  BY <1>2, <1>8, Zenon DEF xy, x, y, z, text, W, T, Line

\* LCD1602_PrintWarning: the backlight, then a message.
LEMMA WarningBytes ==
  ASSUME NEW line1 \in Seq(Characters), NEW time \in Seq(Characters),
         NEW name \in Seq(Characters), Len(time) = TIME_COLS
  PROVE  /\ PrintWarning(line1, time, name) \in Seq(PrintBytes)
         /\ Len(PrintWarning(line1, time, name)) = LastByte + 1
         /\ \A k \in 1 .. LastByte + 1 :
              PrintWarning(line1, time, name)[k] = PrintByte(line1, time \o name, k - 1)
<1> DEFINE a == <<Command(LCD_CMD_DISPLAY_ON)>>
           p == <<Command(128)>>
           q == Line(line1)
           r == <<Command(192)>>
           x == Padded(time, TIME_COLS)
           y == Padded(name, LCD_COL_COUNT - TIME_COLS)
           text == time \o name
           message == PrintMessage("slave", line1, text)
           warning == a \o message
<1>1. /\ a \in Seq(PrintBytes) /\ p \in Seq(PrintBytes) /\ q \in Seq(PrintBytes)
      /\ r \in Seq(PrintBytes) /\ x \in Seq(PrintBytes) /\ y \in Seq(PrintBytes)
      /\ Len(a) = 1 /\ a[1] = Command(LCD_CMD_DISPLAY_ON)
  <2>1. /\ Command(LCD_CMD_DISPLAY_ON) \in PrintBytes
        /\ Command(128) \in PrintBytes /\ Command(192) \in PrintBytes
    BY Zenon DEF PrintBytes
  <2>2. q \in Seq(PrintBytes)
    BY SizesOfDisplay, PaddedBytes DEF Line
  <2>3. x \in Seq(PrintBytes)
    BY SizesOfDisplay, PaddedBytes
  <2>4. y \in Seq(PrintBytes)
    <3> DEFINE n == LCD_COL_COUNT - TIME_COLS
    <3>1. n \in Nat
      BY SizesOfDisplay
    <3> HIDE DEF n
    <3>2. Padded(name, n) \in Seq(PrintBytes)
      BY <3>1, PaddedBytes
    <3> QED
      BY <3>2 DEF n
  <2> HIDE DEF q, x, y
  <2> QED
    BY <2>1, <2>2, <2>3, <2>4
<1>2. text \in Seq(Characters) /\ x \o y = Line(text)
  BY LineOfTwoParts
<1>3. SetCursor("slave", 0, 0) = p /\ SetCursor("slave", 1, 0) = r
  BY CursorBytes
<1>4. message = ((p \o q) \o r) \o (x \o y)
  <2> HIDE DEF p, r, x, y, text
  <2> QED
    BY <1>2, <1>3 DEF PrintMessage
<1>5. PrintWarning(line1, time, name) = ((((a \o p) \o q) \o r) \o x) \o y
  <2> HIDE DEF p, r
  <2> QED
    BY <1>3 DEF PrintWarning
<1>6. PrintWarning(line1, time, name) = a \o (((p \o q) \o r) \o (x \o y))
  <2> HIDE DEF a, p, q, r, x, y, message, warning
  <2>0. /\ a \in Seq(PrintBytes) /\ p \in Seq(PrintBytes) /\ q \in Seq(PrintBytes)
        /\ r \in Seq(PrintBytes) /\ x \in Seq(PrintBytes) /\ y \in Seq(PrintBytes)
    BY <1>1
  <2> DEFINE pq == p \o q
             pqr == pq \o r
  <2>1. pq \in Seq(PrintBytes)
    BY <2>0, PrintsJoined, Zenon
  <2>2. a \o pq = (a \o p) \o q
    <3>1. a \in Seq(PrintBytes) /\ p \in Seq(PrintBytes) /\ q \in Seq(PrintBytes)
      BY <2>0
    <3> QED
      BY <3>1, PrintsAssociate
  <2> HIDE DEF pq
  <2>3. pqr \in Seq(PrintBytes)
    BY <2>0, <2>1, PrintsJoined, Zenon
  <2>4. a \o pqr = (a \o pq) \o r
    <3>1. a \in Seq(PrintBytes) /\ r \in Seq(PrintBytes)
      BY <2>0
    <3> QED
      BY <2>1, <3>1, PrintsAssociate
  <2> HIDE DEF pqr
  <2>5. a \o pqr \in Seq(PrintBytes) /\ x \o y \in Seq(PrintBytes)
    BY <2>0, <2>3, PrintsJoined, Zenon
  <2>6. ((a \o pqr) \o x) \o y = (a \o pqr) \o (x \o y)
    <3>1. x \in Seq(PrintBytes) /\ y \in Seq(PrintBytes)
      BY <2>0
    <3> QED
      BY <2>5, <3>1, PrintsAssociate
  <2>7. (a \o pqr) \o (x \o y) = a \o (pqr \o (x \o y))
    <3>1. a \in Seq(PrintBytes)
      BY <2>0
    <3> QED
      BY <2>3, <2>5, <3>1, PrintsAssociate
  <2>8. PrintWarning(line1, time, name) = ((a \o pqr) \o x) \o y
    BY <1>5, <2>2, <2>4, Zenon
  <2>9. pqr = (p \o q) \o r
    BY DEF pq, pqr
  <2> QED
    BY <2>6, <2>7, <2>8, <2>9, Zenon
<1>7. PrintWarning(line1, time, name) = warning
  BY <1>4, <1>6, Zenon
<1>8. /\ message \in Seq(PrintBytes) /\ Len(message) = LastByte
      /\ \A k \in 1 .. LastByte : message[k] = PrintByte(line1, text, k)
  <2> HIDE DEF text
  <2> QED
    BY <1>2, MessageBytes
<1> HIDE DEF a, message
<1>9. /\ warning \in Seq(PrintBytes) /\ Len(warning) = Len(a) + Len(message)
      /\ \A i \in 1 .. Len(a) : warning[i] = a[i]
      /\ \A i \in 1 .. Len(message) : warning[Len(a) + i] = message[i]
  <2>1. a \in Seq(PrintBytes) /\ message \in Seq(PrintBytes)
    BY <1>1, <1>8
  <2> QED
    BY <2>1, PrintsJoined, Zenon
<1> HIDE DEF warning
<1>10. LastByte \in Nat
  BY SizesOfDisplay DEF LastByte
<1>11. ASSUME NEW k \in 1 .. LastByte + 1
       PROVE  warning[k] = PrintByte(line1, text, k - 1)
  <2>1. CASE k = 1
    <3>1. 1 \in 1 .. Len(a)
      BY <1>1
    <3>2. PrintByte(line1, text, 0) = Command(LCD_CMD_DISPLAY_ON)
      BY SizesOfDisplay DEF PrintByte
    <3>3. k - 1 = 0
      BY <2>1
    <3> QED
      BY <1>1, <1>9, <2>1, <3>1, <3>2, <3>3
  <2>2. CASE k # 1
    <3>1. k - 1 \in 1 .. LastByte /\ 1 + (k - 1) = k
      BY <1>10, <2>2
    <3> QED
      BY <1>1, <1>8, <1>9, <3>1, SMTT(40)
  <2> QED
    BY <2>1, <2>2
<1>12. Len(warning) = LastByte + 1
  BY <1>1, <1>8, <1>9, <1>10
<1> QED
  BY <1>7, <1>9, <1>11, <1>12

-----------------------------------------------------------------------------
(* What a byte or a nibble does to the display.                            *)

\* The commands that can change the mode of the interface, the light, and the
\* direction in which the cursor moves.
FunctionSet(c) == c \in 32 .. 63
OnOff(c) == c \in 8 .. 15
Moves(c) == c \in 1 .. 7

Kept(l, c, e) ==
  /\ e.half = l.half
  /\ ~FunctionSet(c) => e.four = l.four /\ e.two = l.two
  /\ ~OnOff(c) => e.on = l.on
  /\ ~Moves(c) => e.up = l.up
Set(c, e) ==
  /\ c = 51 \/ c = 63 => ~e.four
  /\ c = 47 => e.four
  /\ c = LCD_CMD_FUNCTION_SET_4BIT => e.four /\ e.two
  /\ c = LCD_CMD_DISPLAY_ON => e.on
  /\ c = LCD_CMD_ENTRY_MODE \/ c = LCD_CMD_CLEAR => e.up
CursorSet(l, c, e) ==
  c = 128 \/ c = 192 => /\ e.row = (IF c = 128 THEN 0 ELSE 1)
                        /\ e.col = 0 /\ ~e.cgram /\ e.ddram = l.ddram

\* What a command keeps and what it sets.
LEMMA ExecuteFields ==
  ASSUME NEW l \in Displays, NEW c \in 0 .. 255
  PROVE  /\ Kept(l, c, Execute(l, c))
         /\ Set(c, Execute(l, c))
         /\ CursorSet(l, c, Execute(l, c))
<1> USE DEF LCD_CMD_FUNCTION_SET_4BIT, LCD_CMD_DISPLAY_ON, LCD_CMD_ENTRY_MODE,
            LCD_CMD_CLEAR, FunctionSet, OnOff, Moves, Kept, Set, CursorSet
<1>1. CASE c >= 128
  <2> DEFINE x == (c % 128) \div 64
             y == (c % 64) % DDRAM_COLS
  <2>1. Execute(l, c) = [l EXCEPT !.row = x, !.cgram = FALSE, !.col = y]
    BY <1>1 DEF Execute
  <2>2. c = 128 => x = 0 /\ y = 0
    BY SizesOfDisplay
  <2>3. c = 192 => x = 1 /\ y = 0
    BY SizesOfDisplay
  <2> HIDE DEF x, y
  <2>4. ~(c \in 32 .. 63) /\ ~(c \in 8 .. 15) /\ ~(c \in 1 .. 7)
        /\ c \notin {51, 63, 47, 40, 12, 6, 1}
    BY <1>1
  <2>5. LET e == [l EXCEPT !.row = x, !.cgram = FALSE, !.col = y]
        IN  /\ e.half = l.half /\ e.four = l.four /\ e.two = l.two /\ e.on = l.on
            /\ e.up = l.up /\ e.row = x /\ e.col = y /\ e.cgram = FALSE
            /\ e.ddram = l.ddram
    BY Zenon DEF Displays
  <2> QED
    BY <2>1, <2>2, <2>3, <2>4, <2>5
<1>2. CASE c \in 64 .. 127
  <2>1. Execute(l, c) = [l EXCEPT !.cgram = TRUE]
    BY <1>2 DEF Execute
  <2>2. LET e == [l EXCEPT !.cgram = TRUE]
        IN  /\ e.half = l.half /\ e.four = l.four /\ e.two = l.two /\ e.on = l.on
            /\ e.up = l.up
    BY Zenon DEF Displays
  <2>3. ~(c \in 32 .. 63) /\ ~(c \in 8 .. 15) /\ ~(c \in 1 .. 7)
        /\ c \notin {51, 63, 47, 40, 12, 6, 1, 128, 192} /\ c # 47 /\ c # 40 /\ c # 12
        /\ c # 51 /\ c # 63 /\ c # 6 /\ c # 1 /\ c # 128 /\ c # 192
    BY <1>2
  <2> QED
    BY <2>1, <2>2, <2>3
<1>3. CASE c \in 32 .. 63
  <2> DEFINE four == c % 32 < 16
             two == c % 16 >= 8
  <2>1. Execute(l, c) = [l EXCEPT !.four = four, !.two = two]
    BY <1>3 DEF Execute
  <2>2. /\ c = 51 \/ c = 63 => ~four
        /\ c = 47 => four
        /\ c = 40 => four /\ two
    OBVIOUS
  <2> HIDE DEF four, two
  <2>3. LET e == [l EXCEPT !.four = four, !.two = two]
        IN  /\ e.half = l.half /\ e.four = four /\ e.two = two /\ e.on = l.on
            /\ e.up = l.up
    BY Zenon DEF Displays
  <2>4. ~(c \in 8 .. 15) /\ ~(c \in 1 .. 7) /\ c \notin {12, 6, 1, 128, 192}
    BY <1>3
  <2> QED
    BY <1>3, <2>1, <2>2, <2>3, <2>4
<1>4. CASE c \in 8 .. 15
  <2> DEFINE on == c % 8 >= 4
  <2>1. Execute(l, c) = [l EXCEPT !.on = on]
    BY <1>4 DEF Execute
  <2>2. c = 12 => on
    OBVIOUS
  <2> HIDE DEF on
  <2>3. LET e == [l EXCEPT !.on = on]
        IN  /\ e.half = l.half /\ e.four = l.four /\ e.two = l.two /\ e.on = on
            /\ e.up = l.up
    BY Zenon DEF Displays
  <2>4. c \notin {51, 63, 47, 40, 6, 1, 128, 192}
    BY <1>4
  <2> QED
    BY <1>4, <2>1, <2>2, <2>3, <2>4
<1>5. CASE c \in 4 .. 7
  <2> DEFINE up == c % 4 >= 2
  <2>1. Execute(l, c) = [l EXCEPT !.up = up]
    BY <1>5 DEF Execute
  <2>2. c = 6 => up
    OBVIOUS
  <2> HIDE DEF up
  <2>3. LET e == [l EXCEPT !.up = up]
        IN  /\ e.half = l.half /\ e.four = l.four /\ e.two = l.two /\ e.on = l.on
            /\ e.up = up
    BY Zenon DEF Displays
  <2>4. c \notin {51, 63, 47, 40, 12, 1, 128, 192}
    BY <1>5
  <2> QED
    BY <1>5, <2>1, <2>2, <2>3, <2>4
<1>6. /\ Home(l).half = l.half /\ Home(l).four = l.four /\ Home(l).two = l.two
      /\ Home(l).on = l.on /\ Home(l).up = l.up /\ Home(l) \in Displays
  <2>1. /\ Home(l).half = l.half /\ Home(l).four = l.four /\ Home(l).two = l.two
        /\ Home(l).on = l.on /\ Home(l).up = l.up
    BY Zenon DEF Home, Displays
  <2> QED
    BY <2>1, HomeType
<1>7. CASE c \in 2 .. 3
  <2>1. Execute(l, c) = Home(l)
    BY <1>7 DEF Execute
  <2> QED
    BY <1>6, <1>7, <2>1
<1>8. CASE c = 1
  <2> DEFINE h == Home(l)
  <2>1. Execute(l, c) = [h EXCEPT !.ddram = Blank, !.up = TRUE]
    BY <1>8 DEF Execute
  <2> HIDE DEF h
  <2>2. /\ h.half = l.half /\ h.four = l.four /\ h.two = l.two
        /\ h.on = l.on /\ h \in Displays
    BY <1>6 DEF h
  <2>3. LET e == [h EXCEPT !.ddram = Blank, !.up = TRUE]
        IN  /\ e.half = h.half /\ e.four = h.four /\ e.two = h.two /\ e.on = h.on
            /\ e.up = TRUE
    BY <2>2, Zenon DEF Displays
  <2>4. /\ c # 47 /\ c # 40 /\ c # 12
        /\ c # 51 /\ c # 63 /\ c # 128 /\ c # 192 /\ ~(~(c \in 1 .. 7))
    BY <1>8
  <2>5. /\ Execute(l, c).half = l.half /\ Execute(l, c).four = l.four
        /\ Execute(l, c).two = l.two /\ Execute(l, c).on = l.on /\ Execute(l, c).up
    BY <2>1, <2>2, <2>3, Zenon
  <2> QED
    BY <2>4, <2>5, Zenon
<1>9. CASE c \in 16 .. 31 \/ c = 0
  <2>1. Execute(l, c) = l
    BY <1>9 DEF Execute
  <2>2. /\ c # 47 /\ c # 40 /\ c # 12
        /\ c # 51 /\ c # 63 /\ c # 6 /\ c # 1 /\ c # 128 /\ c # 192
    BY <1>9
  <2> QED
    BY <2>1, <2>2, Zenon
<1>10. \/ c >= 128 \/ c \in 64 .. 127 \/ c \in 32 .. 63 \/ c \in 16 .. 31
       \/ c \in 8 .. 15 \/ c \in 4 .. 7 \/ c \in 2 .. 3 \/ c = 1 \/ c = 0
  OBVIOUS
<1> QED
  BY <1>1, <1>2, <1>3, <1>4, <1>5, <1>7, <1>8, <1>9, <1>10

\* A character changes only the memory and the cursor.
LEMMA WriteFields ==
  ASSUME NEW l \in Displays, NEW c \in 0 .. 255
  PROVE  LET w == WriteChar(l, c)
         IN  /\ w.half = l.half /\ w.four = l.four /\ w.two = l.two
             /\ w.on = l.on /\ w.up = l.up /\ w.cgram = l.cgram
             /\ ~l.cgram => w.ddram = [l.ddram EXCEPT ![l.row][l.col] = c]
             /\ ~l.cgram /\ l.up /\ l.col # DDRAM_COLS - 1 =>
                  w.row = l.row /\ w.col = l.col + 1
<1> DEFINE d == [l.ddram EXCEPT ![l.row][l.col] = c]
           k == [l EXCEPT !.ddram = d]
           last == IF k.up THEN DDRAM_COLS - 1 ELSE 0
<1>1. CASE l.cgram
  BY <1>1, Zenon DEF WriteChar
<1>2. CASE ~l.cgram
  <2>1. WriteChar(l, c) = Advance(k)
    BY <1>2 DEF WriteChar
  <2> HIDE DEF d
  <2>2. /\ k.half = l.half /\ k.four = l.four /\ k.two = l.two /\ k.on = l.on
        /\ k.up = l.up /\ k.cgram = l.cgram /\ k.ddram = d /\ k.row = l.row
        /\ k.col = l.col
        /\ DOMAIN k = DOMAIN l
    BY Zenon DEF Displays
  <2>3. DOMAIN k = {"four", "two", "on", "up", "cgram", "busy", "half", "row", "col", "ddram"}
    BY <2>2, Zenon DEF Displays
  <2>4. Advance(k) = IF k.col = last
                     THEN [k EXCEPT !.row = 1 - k.row, !.col = DDRAM_COLS - 1 - last]
                     ELSE [k EXCEPT !.col = IF k.up THEN k.col + 1 ELSE k.col - 1]
    BY Zenon DEF Advance
  <2> HIDE DEF k
  <2>5. ASSUME NEW x, NEW y
        PROVE  LET e == [k EXCEPT !.row = x, !.col = y]
                   f == [k EXCEPT !.col = y]
               IN  /\ e.half = k.half /\ e.four = k.four /\ e.two = k.two
                   /\ e.on = k.on /\ e.up = k.up /\ e.cgram = k.cgram
                   /\ e.ddram = k.ddram
                   /\ f.half = k.half /\ f.four = k.four /\ f.two = k.two
                   /\ f.on = k.on /\ f.up = k.up /\ f.cgram = k.cgram
                   /\ f.ddram = k.ddram /\ f.row = k.row /\ f.col = y
    BY <2>3
  <2>6. CASE k.col = last
    <3>1. Advance(k) = [k EXCEPT !.row = 1 - k.row, !.col = DDRAM_COLS - 1 - last]
      BY <2>4, <2>6
    <3>2. ~(l.up /\ l.col # DDRAM_COLS - 1)
      BY <2>2, <2>6
    <3> HIDE DEF last
    <3> QED
      BY <1>2, <2>1, <2>2, <2>5, <3>1, <3>2 DEF d
  <2>7. CASE k.col # last
    <3>1. Advance(k) = [k EXCEPT !.col = IF k.up THEN k.col + 1 ELSE k.col - 1]
      BY <2>4, <2>7
    <3> QED
      BY <1>2, <2>1, <2>2, <2>5, <3>1 DEF d
  <2> QED
    BY <2>6, <2>7
<1> QED
  BY <1>1, <1>2

\* What an instruction leaves as it is.
LEMMA ExecuteKeeps ==
  \A l \in Displays : \A c \in 0 .. 255 :
    /\ Execute(l, c).half = l.half
    /\ ~FunctionSet(c) => Execute(l, c).four = l.four /\ Execute(l, c).two = l.two
    /\ ~OnOff(c) => Execute(l, c).on = l.on
    /\ ~Moves(c) => Execute(l, c).up = l.up
<1>1. \A l \in Displays : \A c \in 0 .. 255 : Kept(l, c, Execute(l, c))
  BY ExecuteFields
<1> QED
  BY <1>1, Zenon DEF Kept

\* What the instructions of LCD_Init set.
LEMMA ExecuteSets ==
  \A l \in Displays :
    /\ ~Execute(l, 51).four /\ ~Execute(l, 63).four /\ Execute(l, 47).four
    /\ Execute(l, 40).four /\ Execute(l, 40).two
    /\ Execute(l, 12).on /\ Execute(l, 6).up /\ Execute(l, 1).up
<1>1. \A l \in Displays : \A c \in 0 .. 255 : Set(c, Execute(l, c))
  BY ExecuteFields
<1>2. /\ 51 \in 0 .. 255 /\ 63 \in 0 .. 255 /\ 47 \in 0 .. 255 /\ 40 \in 0 .. 255
      /\ 12 \in 0 .. 255 /\ 6 \in 0 .. 255 /\ 1 \in 0 .. 255
  OBVIOUS
<1> QED
  BY <1>1, <1>2, ZenonT(40) DEF Set, LCD_CMD_FUNCTION_SET_4BIT, LCD_CMD_DISPLAY_ON,
     LCD_CMD_ENTRY_MODE, LCD_CMD_CLEAR

\* A byte leaves the nibble alone.
LEMMA PerformFields ==
  ASSUME NEW l \in Displays, NEW c \in 0 .. 255, NEW rs \in BOOLEAN
  PROVE  Perform(l, c, rs).half = l.half
<1>1. CASE rs
  BY <1>1, WriteFields DEF Perform
<1>2. CASE ~rs
  <2>1. Execute(l, c).half = l.half
    BY ExecuteKeeps, Zenon
  <2> QED
    BY <1>2, <2>1 DEF Perform
<1> QED
  BY <1>1, <1>2

\* A half byte taken, and its fields.
LEMMA HalfTaken ==
  ASSUME NEW l \in Displays, NEW h \in 0 .. NoNibble
  PROVE  LET e == [l EXCEPT !.half = h]
         IN  /\ e \in Displays /\ e.half = h
             /\ e.four = l.four /\ e.two = l.two /\ e.on = l.on /\ e.up = l.up
             /\ e.cgram = l.cgram /\ e.row = l.row /\ e.col = l.col
             /\ e.ddram = l.ddram
BY Zenon DEF Displays

\* The three things that can come of a nibble.
LEMMA LatchIs ==
  ASSUME NEW l \in Displays, NEW nibble \in 0 .. 15, NEW rs \in BOOLEAN
  PROVE  /\ ~l.four => Latch(l, nibble, rs) = Perform(l, 16 * nibble + 15, rs)
         /\ l.four /\ l.half = NoNibble =>
              Latch(l, nibble, rs) = [l EXCEPT !.half = nibble]
         /\ l.four /\ l.half # NoNibble =>
              Latch(l, nibble, rs)
                = Perform([l EXCEPT !.half = NoNibble], 16 * l.half + nibble, rs)
  BY Zenon DEF Latch

\* A display in 8-bit mode holds no nibble.
LEMMA LatchHalf ==
  ASSUME NEW l \in Displays, NEW nibble \in 0 .. 15, NEW rs \in BOOLEAN,
         HalfInv(l)
  PROVE  HalfInv(Latch(l, nibble, rs))
<1>1. l.half \in 0 .. 16 /\ l.four \in BOOLEAN
  BY DEF Displays, NoNibble
<1>2. nibble \in 0 .. NoNibble /\ NoNibble \in 0 .. NoNibble
  BY DEF NoNibble
<1>3. CASE ~l.four
  <2>1. 16 * nibble + 15 \in 0 .. 255
    OBVIOUS
  <2>2. Perform(l, 16 * nibble + 15, rs).half = l.half
    BY <2>1, PerformFields
  <2> QED
    BY <1>3, <2>2, LatchIs, Zenon DEF HalfInv
<1>4. CASE l.four /\ l.half = NoNibble
  <2>1. [l EXCEPT !.half = nibble].four = l.four
    BY <1>2, HalfTaken, Zenon
  <2> QED
    BY <1>4, <2>1, LatchIs, Zenon DEF HalfInv
<1>5. CASE l.four /\ l.half # NoNibble
  <2>1. 16 * l.half + nibble \in 0 .. 255
    BY <1>1, <1>5 DEF NoNibble
  <2> DEFINE e == [l EXCEPT !.half = NoNibble]
  <2>2. e \in Displays /\ e.half = NoNibble
    BY <1>2, HalfTaken, Zenon
  <2>3. Latch(l, nibble, rs) = Perform(e, 16 * l.half + nibble, rs)
    BY <1>5, LatchIs, Zenon
  <2> HIDE DEF e
  <2>4. Perform(e, 16 * l.half + nibble, rs).half = e.half
    BY <2>1, <2>2, PerformFields
  <2> QED
    BY <2>2, <2>3, <2>4 DEF HalfInv
<1> QED
  BY <1>3, <1>4, <1>5, <1>1, Zenon

-----------------------------------------------------------------------------
(* A frame to a display that is in step.                                   *)

\* Its first nibble is kept, its second completes the byte.
LEMMA FrameInStep ==
  ASSUME NEW l \in Displays, NEW byte \in 0 .. 255, NEW rs \in BOOLEAN
  PROVE  /\ InStep(l, 2, byte) =>
              Latch(l, byte \div 16, rs) = [l EXCEPT !.half = byte \div 16]
         /\ InStep(l, 4, byte) =>
              Latch(l, byte % 16, rs) = Perform([l EXCEPT !.half = NoNibble], byte, rs)
<1>1. /\ byte \div 16 \in 0 .. 15 /\ byte % 16 \in 0 .. 15
      /\ 16 * (byte \div 16) + (byte % 16) = byte
  OBVIOUS
<1>2. ~(2 >= 3) /\ 4 >= 3
  OBVIOUS
<1>3. byte \div 16 # NoNibble
  BY <1>1 DEF NoNibble
<1>4. ASSUME InStep(l, 2, byte)
      PROVE  Latch(l, byte \div 16, rs) = [l EXCEPT !.half = byte \div 16]
  <2>1. l.four /\ l.half = NoNibble
    BY <1>2, <1>4 DEF InStep
  <2> DEFINE n == byte \div 16
  <2>2. n \in 0 .. 15
    BY <1>1
  <2> HIDE DEF n
  <2>3. Latch(l, n, rs) = [l EXCEPT !.half = n]
    BY <2>1, <2>2, LatchIs, ZenonT(40)
  <2> QED
    BY <2>3 DEF n
<1>5. ASSUME InStep(l, 4, byte)
      PROVE  Latch(l, byte % 16, rs) = Perform([l EXCEPT !.half = NoNibble], byte, rs)
  <2>1. l.four /\ l.half = byte \div 16
    BY <1>2, <1>5 DEF InStep
  <2>2. Latch(l, byte % 16, rs)
          = Perform([l EXCEPT !.half = NoNibble], 16 * l.half + (byte % 16), rs)
    BY <1>1, <1>3, <2>1, LatchIs
  <2>3. 16 * l.half + (byte % 16) = byte
    BY <1>1, <2>1
  <2> QED
    BY <2>2, <2>3
<1> QED
  BY <1>4, <1>5

\* The bytes of LCD_Init on the two boards.
LEMMA InitBytesAre ==
  ASSUME NEW b \in {"master", "slave"}
  PROVE  /\ Len(InitSequence[b]) = IF b = "master" THEN 6 ELSE 10
         /\ \A i \in 1 .. Len(InitSequence[b]) :
              /\ InitBytes(b)[i] = Command(InitSequence[b][i])
              /\ InitSequence[b][i] \in {51, 50, 40, 12, 8, 6, 1}
              /\ InitSequence[b][i] \in 0 .. 255
         /\ InitBytes(b) \in Seq(LcdBytes)
         /\ Len(InitBytes(b)) = Len(InitSequence[b])
<1> USE DEF LCD_CMD_FUNCTION_SET_4BIT, LCD_CMD_DISPLAY_ON, LCD_CMD_DISPLAY_OFF,
            LCD_CMD_ENTRY_MODE, LCD_CMD_CLEAR
<1> DEFINE n == Len(InitSequence[b])
<1>1. /\ n = IF b = "master" THEN 6 ELSE 10
      /\ \A i \in 1 .. n : InitSequence[b][i] \in {51, 50, 40, 12, 8, 6, 1}
  <2>1. CASE b = "master"
    BY <2>1 DEF InitSequence
  <2>2. CASE b = "slave"
    BY <2>2 DEF InitSequence
  <2> QED
    BY <2>1, <2>2
<1>2. \A i \in 1 .. n : InitSequence[b][i] \in 0 .. 255
  <2> DEFINE f == InitSequence[b]
  <2> HIDE DEF n
  <2>1. \A i \in 1 .. n : f[i] \in {51, 50, 40, 12, 8, 6, 1}
    BY <1>1
  <2> HIDE DEF f
  <2>2. \A i \in 1 .. n : f[i] \in 0 .. 255
    BY <2>1
  <2> QED
    BY <2>2 DEF f
<1>3. InitBytes(b) = [i \in 1 .. n |-> Command(InitSequence[b][i])]
  BY DEF InitBytes
<1> HIDE DEF n
<1>4. \A i \in 1 .. n : Command(InitSequence[b][i]) \in LcdBytes
  BY <1>2, BytesAreSent
<1>5. InitBytes(b) \in [1 .. n -> LcdBytes]
  BY <1>3, <1>4, Zenon
<1>6. n \in Nat
  BY <1>1
<1>7. InitBytes(b) \in Seq(LcdBytes) /\ Len(InitBytes(b)) = n
  BY <1>5, <1>6
<1> QED
  BY <1>1, <1>2, <1>3, <1>7 DEF n

\* The bytes that matter, by their place.
LEMMA InitOrder ==
  ASSUME NEW b \in {"master", "slave"}, NEW i \in 1 .. Len(InitSequence[b])
  PROVE  LET c == InitSequence[b][i]
         IN  /\ i = 1 => c = 51
             /\ i = 2 => c = 50
             /\ i = 3 => c = 40
             /\ i >= 4 => c \in {12, 8, 6, 1}
             /\ i = (IF b = "master" THEN 4 ELSE 7) => c = 12
             /\ i > (IF b = "master" THEN 4 ELSE 7) => c \in {12, 6, 1}
             /\ i = (IF b = "master" THEN 5 ELSE 6) => c = 6
             /\ i > (IF b = "master" THEN 5 ELSE 6) => c \in {12, 1}
<1> USE DEF LCD_CMD_FUNCTION_SET_4BIT, LCD_CMD_DISPLAY_ON, LCD_CMD_DISPLAY_OFF,
            LCD_CMD_ENTRY_MODE, LCD_CMD_CLEAR
<1>1. CASE b = "master"
  BY <1>1 DEF InitSequence
<1>2. CASE b = "slave"
  BY <1>2 DEF InitSequence
<1> QED
  BY <1>1, <1>2

\* An odd frame to a display that may be out of step, and the first nibble of
\* the others.
LEMMA BootedFirstHalf ==
  ASSUME NEW l \in Displays, NEW b \in {"master", "slave"},
         NEW k \in 0 .. Len(InitSequence[b]) - 1, HalfInv(l),
         Booted(l, 2, InitSequence[b][k + 1], b, k)
  PROVE  LET c == InitSequence[b][k + 1]
         IN  Booted(Latch(l, c \div 16, FALSE), 3, c, b, k)
<1> DEFINE c == InitSequence[b][k + 1]
           e == Latch(l, c \div 16, FALSE)
<1> SUFFICES Booted(e, 3, c, b, k)
  OBVIOUS
<1>1. c \in 0 .. 255 /\ k \in Nat /\ k + 1 \in 1 .. Len(InitSequence[b])
  <2>1. Len(InitSequence[b]) \in Nat
    BY InitBytesAre
  <2>2. k \in Nat /\ k + 1 \in 1 .. Len(InitSequence[b])
    BY <2>1
  <2> QED
    BY <2>2, InitBytesAre
<1>2. /\ k = 0 => c = 51
      /\ k = 1 => c = 50
  BY <1>1, InitOrder
<1> HIDE DEF c
<1>3. l.half \in 0 .. 16 /\ l.four \in BOOLEAN
  BY DEF Displays, NoNibble
<1>4. /\ NoNibble \in 0 .. NoNibble /\ 3 \in 0 .. NoNibble /\ 3 \in 0 .. 15
      /\ c \div 16 \in 0 .. NoNibble
  BY <1>1 DEF NoNibble
<1>5. CASE k < 2
  <2>0. /\ ~(k >= 2) /\ ~(k >= 3) /\ ~(k >= (IF b = "master" THEN 4 ELSE 7))
        /\ ~(k >= (IF b = "master" THEN 5 ELSE 6))
        /\ ~(3 < 3) /\ ~(k = 0 /\ k = 1)
    BY <1>1, <1>5
  <2>1. c \div 16 = 3
    BY <1>1, <1>2, <1>5
  <2>2. e = Latch(l, 3, FALSE)
    BY <2>1
  <2> HIDE DEF e
  <2>3. CASE ~l.four
    <3>1. e = Execute(l, 63)
      <4>1. e = Perform(l, 16 * 3 + 15, FALSE)
        BY <1>4, <2>2, <2>3, LatchIs, Zenon
      <4>2. 16 * 3 + 15 = 63
        OBVIOUS
      <4> QED
        BY <4>1, <4>2 DEF Perform
    <3>2. ~e.four
      BY <3>1, ExecuteSets
    <3> QED
      BY <2>0, <3>2, Zenon DEF Booted
  <2>4. CASE l.four /\ l.half = NoNibble
    <3>1. e = [l EXCEPT !.half = 3]
      BY <1>4, <2>2, <2>4, LatchIs, Zenon
    <3>2. e.half = 3
      BY <1>4, <3>1, HalfTaken, Zenon
    <3>3. k = 0
      <4>1. 3 # NoNibble /\ ~(2 >= 3)
        BY DEF NoNibble
      <4> QED
        BY <1>1, <1>5, <2>4, <4>1 DEF Booted, c
    <3> QED
      <4>1. e.half \in {3, NoNibble} /\ ~(k = 1)
        BY <3>2, <3>3
      <4> QED
        BY <2>0, <4>1, Zenon DEF Booted
  <2>5. CASE l.four /\ l.half # NoNibble
    <3> DEFINE d == [l EXCEPT !.half = NoNibble]
    <3>1. e = Execute(d, 16 * l.half + 3)
      BY <1>4, <2>2, <2>5, LatchIs, Zenon DEF Perform
    <3>2. d \in Displays /\ d.half = NoNibble
      BY <1>4, HalfTaken, Zenon
    <3>3. 16 * l.half + 3 \in 0 .. 255
      <4>1. l.half \in 0 .. 15
        BY <1>3, <2>5 DEF NoNibble
      <4> DEFINE h == l.half
      <4> HIDE DEF h
      <4>2. h \in 0 .. 15 => 16 * h + 3 \in 0 .. 255
        OBVIOUS
      <4> QED
        BY <4>1, <4>2 DEF h
    <3> HIDE DEF d
    <3>4. CASE k = 0
      <4>1. e.half = NoNibble
        BY <3>1, <3>2, <3>3, ExecuteKeeps, Zenon
      <4>2. e.half \in {3, NoNibble} /\ ~(k = 1)
        BY <3>4, <4>1
      <4> QED
        BY <2>0, <4>2, Zenon DEF Booted
    <3>5. CASE k = 1
      <4>1. l.half = 3
        BY <2>5, <3>5 DEF Booted, c
      <4>2. 16 * l.half + 3 = 51
        BY <4>1
      <4>3. e = Execute(d, 51)
        BY <3>1, <4>2
      <4>4. ~e.four
        BY <3>2, <4>3, ExecuteSets
      <4> QED
        BY <2>0, <3>5, <4>4, Zenon DEF Booted
    <3> QED
      <4>1. k = 0 \/ k = 1
        BY <1>1, <1>5
      <4> QED
        BY <3>4, <3>5, <4>1
  <2> QED
    BY <2>3, <2>4, <2>5
<1>6. CASE k >= 2
  <2>1. InStep(l, 2, c)
    BY <1>6 DEF Booted, c
  <2>2. e = [l EXCEPT !.half = c \div 16]
    <3>1. FALSE \in BOOLEAN
      OBVIOUS
    <3> QED
      BY <1>1, <2>1, <3>1, FrameInStep
  <2>3. /\ e.half = c \div 16 /\ e.four = l.four /\ e.two = l.two /\ e.on = l.on
        /\ e.up = l.up
    <3> HIDE DEF e
    <3> QED
      BY <1>4, <2>2, HalfTaken, Zenon
  <2>4. l.four
    BY <2>1 DEF InStep
  <2>5. InStep(e, 3, c)
    <3>1. 3 >= 3
      OBVIOUS
    <3> QED
      BY <2>3, <2>4, <3>1, Zenon DEF InStep
  <2>6. ~(k = 0) /\ ~(k = 1)
    BY <1>6
  <2> HIDE DEF e
  <2> QED
    BY <2>3, <2>5, <2>6, Zenon DEF Booted, c
<1> QED
  <2>1. k < 2 \/ k >= 2
    BY <1>1
  <2> QED
    BY <1>5, <1>6, <2>1

\* The second nibble of a byte of LCD_Init brings the display one byte on.
LEMMA BootedSecondHalf ==
  ASSUME NEW l \in Displays, NEW b \in {"master", "slave"},
         NEW k \in 0 .. Len(InitSequence[b]) - 1, HalfInv(l),
         NEW byte \in 0 .. 255,
         Booted(l, 4, InitSequence[b][k + 1], b, k)
  PROVE  Booted(Latch(l, InitSequence[b][k + 1] % 16, FALSE), 0, byte, b, k + 1)
<1> DEFINE c == InitSequence[b][k + 1]
           e == Latch(l, c % 16, FALSE)
           m == IF b = "master" THEN 4 ELSE 7
           n == IF b = "master" THEN 5 ELSE 6
<1> SUFFICES Booted(e, 0, byte, b, k + 1)
  OBVIOUS
<1>1. c \in 0 .. 255 /\ k \in Nat /\ k + 1 \in 1 .. Len(InitSequence[b])
  <2>1. Len(InitSequence[b]) \in Nat
    BY InitBytesAre
  <2>2. k \in Nat /\ k + 1 \in 1 .. Len(InitSequence[b])
    BY <2>1
  <2> QED
    BY <2>2, InitBytesAre
<1>2. /\ k = 0 => c = 51
      /\ k = 1 => c = 50
      /\ k = 2 => c = 40
      /\ k >= 3 => c \in {12, 8, 6, 1}
      /\ k + 1 = m => c = 12
      /\ k + 1 > m => c \in {12, 6, 1}
      /\ k + 1 = n => c = 6
      /\ k + 1 > n => c \in {12, 1}
  <2> HIDE DEF c, m, n
  <2>1. LET i == k + 1
        IN  /\ i = 1 => c = 51
            /\ i = 2 => c = 50
            /\ i = 3 => c = 40
            /\ i >= 4 => c \in {12, 8, 6, 1}
            /\ i = m => c = 12
            /\ i > m => c \in {12, 6, 1}
            /\ i = n => c = 6
            /\ i > n => c \in {12, 1}
    BY <1>1, InitOrder, Zenon DEF c, m, n
  <2> QED
    BY <1>1, <2>1
<1>3. Booted(l, 4, c, b, k)
  OBVIOUS
<1>4. m \in 4 .. 7 /\ n \in 5 .. 6
  OBVIOUS
<1> HIDE DEF c
<1>5. l.half \in 0 .. 16 /\ l.four \in BOOLEAN
  BY DEF Displays, NoNibble
<1>6. /\ NoNibble \in 0 .. NoNibble /\ 3 \in 0 .. NoNibble /\ 3 \in 0 .. 15
      /\ 2 \in 0 .. 15 /\ ~(0 >= 3) /\ 4 >= 3 /\ ~(4 < 3) /\ 0 < 3 /\ NoNibble = 16
  BY DEF NoNibble
<1>7. CASE k = 0
  <2>0. /\ ~(k + 1 >= 2) /\ ~(k + 1 >= 3) /\ ~(k + 1 >= m) /\ ~(k + 1 >= n)
        /\ ~(k + 1 = 0) /\ k + 1 = 1
    BY <1>4, <1>7
  <2>1. e = Latch(l, 3, FALSE)
    <3>1. c % 16 = 3
      BY <1>2, <1>7
    <3> QED
      BY <3>1
  <2> HIDE DEF e, m, n
  <2>2. ~l.four \/ l.half \in {3, NoNibble}
    BY <1>3, <1>6, <1>7, Zenon DEF Booted
  <2> SUFFICES ~e.four \/ e.half = 3
    BY <1>6, <2>0, Zenon DEF Booted, m, n
  <2>3. CASE ~l.four
    <3>1. e = Execute(l, 63)
      <4>1. e = Perform(l, 16 * 3 + 15, FALSE)
        BY <1>6, <2>1, <2>3, LatchIs, Zenon
      <4>2. 16 * 3 + 15 = 63
        OBVIOUS
      <4> QED
        BY <4>1, <4>2 DEF Perform
    <3> QED
      BY <3>1, ExecuteSets
  <2>4. CASE l.four /\ l.half = NoNibble
    <3>1. e = [l EXCEPT !.half = 3]
      BY <1>6, <2>1, <2>4, LatchIs, Zenon
    <3> QED
      BY <1>6, <3>1, HalfTaken, Zenon
  <2>5. CASE l.four /\ l.half = 3
    <3> DEFINE d == [l EXCEPT !.half = NoNibble]
    <3>1. e = Execute(d, 16 * l.half + 3)
      <4>1. l.half # NoNibble
        BY <1>6, <2>5
      <4>2. l.four
        BY <2>5
      <4> QED
        BY <1>6, <2>1, <4>1, <4>2, LatchIs, Zenon DEF Perform
    <3>2. d \in Displays
      BY <1>6, HalfTaken, Zenon
    <3> HIDE DEF d
    <3>3. 16 * l.half + 3 = 51
      BY <2>5
    <3> QED
      BY <3>1, <3>2, <3>3, ExecuteSets
  <2> QED
    BY <2>2, <2>3, <2>4, <2>5
<1>8. CASE k = 1
  <2>0. /\ k + 1 >= 2 /\ ~(k + 1 >= 3) /\ ~(k + 1 >= m) /\ ~(k + 1 >= n)
        /\ ~(k + 1 = 0) /\ ~(k + 1 = 1)
    BY <1>4, <1>8
  <2>1. e = Latch(l, 2, FALSE)
    <3>1. c % 16 = 2
      BY <1>2, <1>8
    <3> QED
      BY <3>1
  <2> HIDE DEF e, m, n
  <2>2. ~l.four /\ l.half = NoNibble
    BY <1>3, <1>6, <1>8, Zenon DEF Booted, HalfInv
  <2>3. e = Execute(l, 47)
    <3>1. e = Perform(l, 16 * 2 + 15, FALSE)
      BY <1>6, <2>1, <2>2, LatchIs, Zenon
    <3>2. 16 * 2 + 15 = 47
      OBVIOUS
    <3> QED
      BY <3>1, <3>2 DEF Perform
  <2>4. e.four
    BY <2>3, ExecuteSets
  <2>5. e.half = NoNibble
    <3>1. 47 \in 0 .. 255
      OBVIOUS
    <3> QED
      BY <2>2, <2>3, <3>1, ExecuteKeeps, Zenon
  <2>6. InStep(e, 0, byte)
    BY <1>6, <2>4, <2>5, Zenon DEF InStep
  <2> QED
    BY <2>0, <2>6, Zenon DEF Booted, m, n
<1>9. CASE k >= 2
  <2> DEFINE d == [l EXCEPT !.half = NoNibble]
  <2>1. InStep(l, 4, c)
    BY <1>3, <1>9, Zenon DEF Booted
  <2>2. e = Execute(d, c)
    <3>1. FALSE \in BOOLEAN
      OBVIOUS
    <3>2. e = Perform(d, c, FALSE)
      BY <1>1, <2>1, <3>1, FrameInStep
    <3> QED
      BY <3>2 DEF Perform
  <2>3. /\ d \in Displays /\ d.half = NoNibble /\ d.four = l.four /\ d.two = l.two
        /\ d.on = l.on /\ d.up = l.up
    BY <1>6, HalfTaken, ZenonT(40)
  <2> HIDE DEF d, e
  <2>4. /\ e.half = d.half
        /\ ~FunctionSet(c) => e.four = d.four /\ e.two = d.two
        /\ ~OnOff(c) => e.on = d.on
        /\ ~Moves(c) => e.up = d.up
    BY <1>1, <2>2, <2>3, ExecuteKeeps, Zenon
  <2>5. /\ c = 40 => e.four /\ e.two
        /\ c = 12 => e.on
        /\ c = 6 => e.up
        /\ c = 1 => e.up
    BY <2>2, <2>3, ExecuteSets, Zenon
  <2>6. InStep(e, 0, byte)
    <3>1. c = 40 \/ ~FunctionSet(c)
      BY <1>1, <1>2, <1>9 DEF FunctionSet
    <3>2. l.four
      BY <2>1 DEF InStep
    <3>3. e.four /\ e.half = NoNibble
      BY <2>3, <2>4, <2>5, <3>1, <3>2, Zenon
    <3> QED
      BY <1>6, <3>3, Zenon DEF InStep
  <2>7. e.two
    <3>1. k = 2 \/ k >= 3
      BY <1>1, <1>9
    <3>2. CASE k = 2
      BY <1>2, <2>5, <3>2
    <3>3. CASE k >= 3
      <4>1. ~FunctionSet(c)
        <5>1. c \in {12, 8, 6, 1}
          BY <1>2, <3>3, Zenon
        <5> QED
          BY <5>1 DEF FunctionSet, OnOff, Moves
      <4>2. l.two
        BY <1>3, <3>3, Zenon DEF Booted
      <4> QED
        BY <2>3, <2>4, <4>1, <4>2, Zenon
    <3> QED
      BY <3>1, <3>2, <3>3
  <2>8. ASSUME k + 1 >= m PROVE e.on
    <3>1. k + 1 = m \/ (k + 1 > m /\ k >= m)
      BY <1>1, <1>4, <2>8
    <3>2. CASE k + 1 = m
      BY <1>2, <2>5, <3>2, Zenon
    <3>3. CASE k + 1 > m /\ k >= m
      <4>1. c = 12 \/ ~OnOff(c)
        <5>1. c \in {12, 6, 1}
          BY <1>2, <3>3, Zenon
        <5> QED
          BY <5>1 DEF FunctionSet, OnOff, Moves
      <4>2. l.on
        BY <1>3, <3>3, Zenon DEF Booted
      <4> QED
        BY <2>3, <2>4, <2>5, <4>1, <4>2, Zenon
    <3> QED
      BY <3>1, <3>2, <3>3
  <2>9. ASSUME k + 1 >= n PROVE e.up
    <3>1. k + 1 = n \/ (k + 1 > n /\ k >= n)
      BY <1>1, <1>4, <2>9
    <3>2. CASE k + 1 = n
      BY <1>2, <2>5, <3>2, Zenon
    <3>3. CASE k + 1 > n /\ k >= n
      <4>1. c = 1 \/ ~Moves(c)
        <5>1. c \in {12, 1}
          BY <1>2, <3>3, Zenon
        <5> QED
          BY <5>1 DEF FunctionSet, OnOff, Moves
      <4>2. l.up
        BY <1>3, <3>3, Zenon DEF Booted
      <4> QED
        BY <2>3, <2>4, <2>5, <4>1, <4>2, Zenon
    <3> QED
      BY <3>1, <3>2, <3>3
  <2>10. ~(k + 1 = 0) /\ ~(k + 1 = 1)
    BY <1>1, <1>9
  <2> QED
    BY <2>6, <2>7, <2>8, <2>9, <2>10, Zenon DEF Booted
<1>10. k = 0 \/ k = 1 \/ k >= 2
  BY <1>1
<1> QED
  BY <1>7, <1>8, <1>9, <1>10

-----------------------------------------------------------------------------
(* A byte of a print.                                                      *)

\* A byte of a print is a character, or one of three commands.
LEMMA PrintByteIs ==
  ASSUME NEW p \in PrintBytes
  PROVE  /\ p.byte \in 0 .. 255 /\ p.rs \in BOOLEAN
         /\ ~p.rs => p.byte \in {12, 128, 192}
<1>1. p.byte \in 0 .. 255 /\ p.rs \in BOOLEAN
  BY BytesAreSent DEF LcdBytes
<1>2. ~p.rs => p.byte \in {12, 128, 192}
  <2>1. \/ p = Command(12) \/ p = Command(128) \/ p = Command(192)
        \/ \E c \in Characters : p = Data(c)
    BY Zenon DEF PrintBytes, Characters, LCD_CMD_DISPLAY_ON
  <2>2. \A c \in Characters : Data(c).rs
    BY DEF Data
  <2>3. Command(12).byte = 12 /\ Command(128).byte = 128 /\ Command(192).byte = 192
    BY DEF Command
  <2> QED
    BY <2>1, <2>2, <2>3
<1> QED
  BY <1>1, <1>2

\* No byte of a print changes the mode of the display.
LEMMA PrintKeepsMode ==
  ASSUME NEW l \in Displays, NEW p \in PrintBytes
  PROVE  LET e == Perform(l, p.byte, p.rs)
         IN  /\ e.half = l.half /\ e.four = l.four /\ e.two = l.two /\ e.up = l.up
             /\ l.on => e.on
<1> DEFINE c == p.byte
           e == Perform(l, p.byte, p.rs)
<1>1. c \in 0 .. 255
  BY PrintByteIs
<1>2. CASE p.rs
  <2>1. e = WriteChar(l, c)
    BY <1>2 DEF Perform
  <2> HIDE DEF e, c
  <2>2. e.half = l.half /\ e.four = l.four /\ e.two = l.two /\ e.up = l.up /\ e.on = l.on
    BY <1>1, <2>1, WriteFields, Zenon
  <2> QED
    BY <2>2, Zenon DEF e
<1>3. CASE ~p.rs
  <2>1. c \in {12, 128, 192}
    BY <1>3, PrintByteIs
  <2>2. e = Execute(l, c)
    BY <1>3 DEF Perform
  <2> HIDE DEF e, c
  <2>3. ~FunctionSet(c) /\ ~Moves(c) /\ (c = 12 \/ ~OnOff(c))
    BY <2>1 DEF FunctionSet, Moves, OnOff
  <2>4. /\ e.half = l.half /\ e.four = l.four /\ e.two = l.two /\ e.up = l.up
        /\ ~OnOff(c) => e.on = l.on
    BY <1>1, <2>2, <2>3, ExecuteKeeps, Zenon
  <2>5. c = 12 => e.on
    BY <2>2, ExecuteSets, Zenon
  <2> QED
    BY <2>3, <2>4, <2>5, Zenon DEF e
<1> QED
  BY <1>2, <1>3

\* Half a frame of a print, and the whole of it.
LEMMA PrintFrame ==
  ASSUME NEW l \in Displays, NEW p \in PrintBytes, NEW other
  PROVE  /\ Prepared(l, 2, p.byte) =>
              Prepared(Latch(l, p.byte \div 16, p.rs), 3, p.byte)
         /\ Prepared(l, 4, p.byte) =>
              Prepared(Latch(l, p.byte % 16, p.rs), 0, other)
<1>0. p.byte \in 0 .. 255 /\ p.rs \in BOOLEAN
  BY PrintByteIs
<1>1. 3 >= 3 /\ ~(0 >= 3) /\ NoNibble \in 0 .. NoNibble
  BY DEF NoNibble
<1>2. ASSUME Prepared(l, 2, p.byte)
      PROVE  Prepared(Latch(l, p.byte \div 16, p.rs), 3, p.byte)
  <2> DEFINE n == p.byte \div 16
             e == Latch(l, n, p.rs)
  <2>1. n \in 0 .. NoNibble
    BY <1>0 DEF NoNibble
  <2>2. e = [l EXCEPT !.half = n]
    BY <1>0, <1>2, FrameInStep DEF Prepared
  <2> HIDE DEF e, n
  <2>3. /\ e.half = n /\ e.four = l.four /\ e.two = l.two /\ e.on = l.on
        /\ e.up = l.up
    BY <2>1, <2>2, HalfTaken, Zenon
  <2>4. Prepared(e, 3, p.byte)
    BY <1>1, <1>2, <2>3, Zenon DEF Prepared, InStep, n
  <2> QED
    BY <2>4 DEF e, n
<1>3. ASSUME Prepared(l, 4, p.byte)
      PROVE  Prepared(Latch(l, p.byte % 16, p.rs), 0, other)
  <2> DEFINE d == [l EXCEPT !.half = NoNibble]
             e == Latch(l, p.byte % 16, p.rs)
  <2>1. e = Perform(d, p.byte, p.rs)
    BY <1>0, <1>3, FrameInStep DEF Prepared
  <2>2. /\ d \in Displays /\ d.half = NoNibble /\ d.four = l.four /\ d.two = l.two
        /\ d.on = l.on /\ d.up = l.up
    BY <1>1, HalfTaken, Zenon
  <2> HIDE DEF d, e
  <2>3. /\ e.half = d.half /\ e.four = d.four /\ e.two = d.two /\ e.up = d.up
        /\ d.on => e.on
    BY <2>1, <2>2, PrintKeepsMode, Zenon
  <2>4. Prepared(e, 0, other)
    BY <1>1, <1>3, <2>2, <2>3, Zenon DEF Prepared, InStep
  <2> QED
    BY <2>4 DEF e
<1> QED
  BY <1>2, <1>3

\* A character of a line is a byte.
LEMMA CharType ==
  ASSUME NEW text \in Seq(Characters), NEW c \in Nat
  PROVE  Char(text, c) \in 0 .. 255
<1>1. Len(text) \in Nat
  BY LenProperties
<1>2. CASE c < Len(text)
  <2>1. c + 1 \in 1 .. Len(text)
    BY <1>1, <1>2
  <2>2. text[c + 1] \in Characters
    BY <2>1, ElementOfSeq
  <2> QED
    BY <1>2, <2>2 DEF Char, Characters, Space
<1>3. CASE ~(c < Len(text))
  BY <1>3 DEF Char, Space
<1> QED
  BY <1>2, <1>3

\* A character at its place.
LEMMA WrittenAt ==
  ASSUME NEW l \in Displays, NEW c \in 0 .. 255, ~l.cgram
  PROVE  LET d == WriteChar(l, c).ddram
         IN  /\ \A r \in Rows : r # l.row => d[r] = l.ddram[r]
             /\ d[l.row][l.col] = c
             /\ \A x \in 0 .. DDRAM_COLS - 1 :
                  x # l.col => d[l.row][x] = l.ddram[l.row][x]
<1>1. /\ l.ddram \in [Rows -> [0 .. DDRAM_COLS - 1 -> 0 .. 255]]
      /\ l.row \in Rows /\ l.col \in 0 .. DDRAM_COLS - 1
  BY Zenon DEF Displays
<1> DEFINE d == WriteChar(l, c).ddram
           m == l.ddram
           r == l.row
           x == l.col
<1>2. d = [m EXCEPT ![r][x] = c]
  BY WriteFields
<1> HIDE DEF d, m, r, x
<1>3. /\ m \in [Rows -> [0 .. DDRAM_COLS - 1 -> 0 .. 255]]
      /\ r \in Rows /\ x \in 0 .. DDRAM_COLS - 1
  BY <1>1 DEF m, r, x
<1>4. /\ \A q \in Rows : q # r => d[q] = m[q]
      /\ d[r][x] = c
      /\ \A y \in 0 .. DDRAM_COLS - 1 : y # x => d[r][y] = m[r][y]
  BY <1>2, <1>3, Zenon
<1> QED
  BY <1>4, Zenon DEF d, m, r, x

\* What the display shows after one byte more of a print.
LEMMA ShownNext ==
  ASSUME NEW l \in Displays, l.up,
         NEW line1 \in Seq(Characters), NEW line2 \in Seq(Characters),
         NEW k \in -1 .. LastByte - 1, Shown(l, line1, line2, k)
  PROVE  LET p == PrintByte(line1, line2, k + 1)
         IN  Shown(Perform(l, p.byte, p.rs), line1, line2, k + 1)
<1> DEFINE W == LCD_COL_COUNT
           p == PrintByte(line1, line2, k + 1)
           e == Perform(l, p.byte, p.rs)
<1> SUFFICES Shown(e, line1, line2, k + 1)
  OBVIOUS
<1>1. /\ W \in Nat /\ W >= 1 /\ LastByte = 2 * W + 2 /\ k \in Int
      /\ DDRAM_COLS \in Nat /\ DDRAM_COLS >= W
  BY SizesOfDisplay DEF LastByte
<1>2. CASE k = -1
  <2>1. k + 1 = 0 /\ \A c \in Cols : ~(c + 2 <= k + 1) /\ ~(c + W + 3 <= k + 1)
    BY <1>1, <1>2 DEF Cols
  <2>2. /\ ~(k + 1 >= 1) /\ ~(k + 1 \in 1 .. W)
        /\ ~(k + 1 \in W + 2 .. LastByte - 1)
    BY <1>1, <1>2
  <2> HIDE DEF e
  <2> QED
    BY <2>1, <2>2, Zenon DEF Shown
<1>3. CASE k = 0
  <2>1. p = Command(128)
    BY <1>1, <1>3 DEF PrintByte
  <2>2. e = Execute(l, 128)
    BY <2>1 DEF Perform, Command
  <2> HIDE DEF e
  <2>3. e.row = 0 /\ e.col = 0 /\ ~e.cgram
    <3>1. 128 \in 0 .. 255
      OBVIOUS
    <3>2. CursorSet(l, 128, e)
      BY <2>2, <3>1, ExecuteFields, Zenon
    <3> QED
      BY <3>2 DEF CursorSet
  <2>4. \A c \in Cols : ~(c + 2 <= k + 1) /\ ~(c + W + 3 <= k + 1)
    BY <1>1, <1>3 DEF Cols
  <2>5. e.col = (k + 1) - 1 /\ ~(k + 1 \in W + 2 .. LastByte - 1)
    BY <1>1, <1>3, <2>3
  <2> QED
    BY <2>3, <2>4, <2>5, Zenon DEF Shown
<1>4. CASE k \in 1 .. W
  <2> DEFINE c == Char(line1, k - 1)
  <2>1. c \in 0 .. 255
    <3>1. k - 1 \in Nat
      BY <1>1, <1>4
    <3> QED
      BY <3>1, CharType
  <2>2. p = Data(c)
    BY <1>1, <1>4, SMTT(40) DEF PrintByte
  <2>3. e = WriteChar(l, c)
    BY <2>2 DEF Perform, Data
  <2> HIDE DEF e, c
  <2>4. ~l.cgram /\ l.row = 0 /\ l.col = k - 1
    BY <1>1, <1>4 DEF Shown
  <2>5. /\ e.cgram = l.cgram
        /\ l.col # DDRAM_COLS - 1 => e.row = l.row /\ e.col = l.col + 1
    BY <2>1, <2>3, <2>4, WriteFields, Zenon
  <2>6. /\ e.ddram[0][k - 1] = c
        /\ \A x \in 0 .. DDRAM_COLS - 1 : x # k - 1 => e.ddram[0][x] = l.ddram[0][x]
    <3>1. /\ e.ddram[l.row][l.col] = c
          /\ \A x \in 0 .. DDRAM_COLS - 1 :
               x # l.col => e.ddram[l.row][x] = l.ddram[l.row][x]
      <4>1. ~l.cgram
        BY <2>4
      <4> QED
        BY <2>1, <2>3, <4>1, WrittenAt, ZenonT(60)
    <3> QED
      BY <2>4, <3>1
  <2>7. ~e.cgram
    BY <2>4, <2>5
  <2>8. ASSUME k + 1 \in 1 .. W PROVE e.row = 0 /\ e.col = (k + 1) - 1
    <3>1. k - 1 # DDRAM_COLS - 1 /\ (k - 1) + 1 = (k + 1) - 1
      BY <1>1, <2>8
    <3> QED
      BY <2>4, <2>5, <3>1
  <2>9. ASSUME NEW x \in Cols, x + 2 <= k + 1 PROVE e.ddram[0][x] = Char(line1, x)
    <3>1. x \in 0 .. DDRAM_COLS - 1 /\ (x = k - 1 \/ x + 2 <= k)
      BY <1>1, <1>4, <2>9 DEF Cols
    <3>2. CASE x = k - 1
      BY <2>6, <3>2 DEF c
    <3>3. CASE x # k - 1 /\ x + 2 <= k
      <4>1. l.ddram[0][x] = Char(line1, x)
        BY <3>3 DEF Shown
      <4> QED
        BY <2>6, <3>1, <3>3, <4>1, Zenon
    <3> QED
      BY <3>1, <3>2, <3>3
  <2>10. \A x \in Cols : ~(x + W + 3 <= k + 1)
    BY <1>1, <1>4 DEF Cols
  <2>11. ~(k + 1 \in W + 2 .. LastByte - 1)
    BY <1>1, <1>4
  <2> QED
    BY <2>7, <2>8, <2>9, <2>10, <2>11, Zenon DEF Shown
<1>5. CASE k = W + 1
  <2>1. p = Command(192)
    BY <1>1, <1>5 DEF PrintByte
  <2>2. e = Execute(l, 192)
    BY <2>1 DEF Perform, Command
  <2> HIDE DEF e
  <2>3. e.row = 1 /\ e.col = 0 /\ ~e.cgram /\ e.ddram = l.ddram
    <3>1. 192 \in 0 .. 255 /\ 192 # 128
      OBVIOUS
    <3>2. CursorSet(l, 192, e)
      BY <2>2, <3>1, ExecuteFields, ZenonT(40)
    <3> QED
      BY <3>1, <3>2, Zenon DEF CursorSet
  <2>4. ASSUME NEW x \in Cols PROVE e.ddram[0][x] = Char(line1, x)
    <3>1. x + 2 <= k
      BY <1>1, <1>5 DEF Cols
    <3>2. l.ddram[0][x] = Char(line1, x)
      BY <3>1, Zenon DEF Shown
    <3> QED
      BY <2>3, <3>2
  <2>5. \A x \in Cols : ~(x + W + 3 <= k + 1)
    BY <1>1, <1>5 DEF Cols
  <2>6. e.col = (k + 1) - W - 2 /\ ~(k + 1 \in 1 .. W)
    BY <1>1, <1>5, <2>3
  <2> QED
    BY <2>3, <2>4, <2>5, <2>6, Zenon DEF Shown
<1>6. CASE k \in W + 2 .. LastByte - 1
  <2> DEFINE c == Char(line2, k - W - 2)
  <2>1. c \in 0 .. 255
    <3>1. k - W - 2 \in Nat
      BY <1>1, <1>6
    <3> QED
      BY <3>1, CharType
  <2>2. p = Data(c)
    <3>1. (k + 1) - W - 3 = k - W - 2
      BY <1>1
    <3>2. p = Data(Char(line2, (k + 1) - W - 3))
      BY <1>1, <1>6 DEF PrintByte
    <3> QED
      BY <3>1, <3>2
  <2>3. e = WriteChar(l, c)
    BY <2>2 DEF Perform, Data
  <2> HIDE DEF e, c
  <2>4. ~l.cgram /\ l.row = 1 /\ l.col = k - W - 2
    <3>1. k >= 1
      BY <1>1, <1>6
    <3> QED
      BY <1>6, <3>1 DEF Shown
  <2>5. /\ e.cgram = l.cgram
        /\ l.col # DDRAM_COLS - 1 => e.row = l.row /\ e.col = l.col + 1
    BY <2>1, <2>3, <2>4, WriteFields, Zenon
  <2>6. /\ e.ddram[1][k - W - 2] = c
        /\ \A x \in 0 .. DDRAM_COLS - 1 : x # k - W - 2 => e.ddram[1][x] = l.ddram[1][x]
        /\ \A r \in Rows : r # 1 => e.ddram[r] = l.ddram[r]
    <3>1. /\ e.ddram[l.row][l.col] = c
          /\ \A x \in 0 .. DDRAM_COLS - 1 :
               x # l.col => e.ddram[l.row][x] = l.ddram[l.row][x]
          /\ \A r \in Rows : r # l.row => e.ddram[r] = l.ddram[r]
      <4>1. ~l.cgram
        BY <2>4
      <4> QED
        BY <2>1, <2>3, <4>1, WrittenAt, ZenonT(60)
    <3> QED
      BY <2>4, <3>1
  <2>7. ~e.cgram
    BY <2>4, <2>5
  <2>8. ASSUME k + 1 \in W + 2 .. LastByte - 1
        PROVE  e.row = 1 /\ e.col = (k + 1) - W - 2
    <3>1. k - W - 2 # DDRAM_COLS - 1 /\ (k - W - 2) + 1 = (k + 1) - W - 2
      BY <1>1, <2>8
    <3> QED
      BY <2>4, <2>5, <3>1
  <2>9. ASSUME NEW x \in Cols PROVE e.ddram[0][x] = Char(line1, x)
    <3>1. 0 \in Rows /\ 0 # 1 /\ x + 2 <= k
      BY <1>1, <1>6 DEF Cols, Rows
    <3>2. l.ddram[0][x] = Char(line1, x)
      BY <3>1, Zenon DEF Shown
    <3> QED
      BY <2>6, <3>1, <3>2, Zenon
  <2>10. ASSUME NEW x \in Cols, x + W + 3 <= k + 1
         PROVE  e.ddram[1][x] = Char(line2, x)
    <3>1. x \in 0 .. DDRAM_COLS - 1 /\ (x = k - W - 2 \/ x + W + 3 <= k)
      BY <1>1, <1>6, <2>10 DEF Cols
    <3>2. CASE x = k - W - 2
      BY <2>6, <3>2 DEF c
    <3>3. CASE x # k - W - 2 /\ x + W + 3 <= k
      <4>1. l.ddram[1][x] = Char(line2, x)
        BY <3>3 DEF Shown
      <4> QED
        BY <2>6, <3>1, <3>3, <4>1, Zenon
    <3> QED
      BY <3>1, <3>2, <3>3
  <2>11. ~(k + 1 \in 1 .. W)
    BY <1>1, <1>6
  <2> QED
    BY <2>7, <2>8, <2>9, <2>10, <2>11, Zenon DEF Shown
<1>7. k = -1 \/ k = 0 \/ k \in 1 .. W \/ k = W + 1 \/ k \in W + 2 .. LastByte - 1
  BY <1>1
<1> QED
  BY <1>2, <1>3, <1>4, <1>5, <1>6, <1>7

\* Shown says nothing of the interface.
LEMMA ShownSame ==
  ASSUME NEW l, NEW e, NEW line1, NEW line2, NEW k,
         e.cgram = l.cgram, e.row = l.row, e.col = l.col, e.ddram = l.ddram,
         Shown(l, line1, line2, k)
  PROVE  Shown(e, line1, line2, k)
BY Zenon DEF Shown

-----------------------------------------------------------------------------
(* The steps.                                                              *)

\* A byte put before the bytes still to send.
LEMMA ByteFirst ==
  \A x \in LcdBytes : \A s \in Seq(LcdBytes) :
    /\ <<x>> \o s \in Seq(LcdBytes) /\ Len(<<x>> \o s) = Len(s) + 1
    /\ (<<x>> \o s)[1] = x
    /\ \A i \in 1 .. Len(s) : (<<x>> \o s)[i + 1] = s[i]
<1> SUFFICES ASSUME NEW x \in LcdBytes, NEW s \in Seq(LcdBytes)
             PROVE  /\ <<x>> \o s \in Seq(LcdBytes) /\ Len(<<x>> \o s) = Len(s) + 1
                    /\ (<<x>> \o s)[1] = x
                    /\ \A i \in 1 .. Len(s) : (<<x>> \o s)[i + 1] = s[i]
  OBVIOUS
<1>1. \A p, q \in Seq(LcdBytes) :
        /\ p \o q \in Seq(LcdBytes) /\ Len(p \o q) = Len(p) + Len(q)
        /\ \A i \in 1 .. Len(p) : (p \o q)[i] = p[i]
        /\ \A i \in 1 .. Len(q) : (p \o q)[Len(p) + i] = q[i]
  BY Joined
<1> DEFINE p == <<x>>
           t == p \o s
<1>2. p \in Seq(LcdBytes) /\ Len(p) = 1 /\ p[1] = x
  OBVIOUS
<1>3. p \in Seq(LcdBytes)
  BY <1>2
<1> HIDE DEF p
<1>4. /\ t \in Seq(LcdBytes) /\ Len(t) = Len(p) + Len(s)
      /\ \A i \in 1 .. Len(p) : t[i] = p[i]
      /\ \A i \in 1 .. Len(s) : t[Len(p) + i] = s[i]
  BY <1>1, <1>3, Zenon
<1> HIDE DEF t
<1>5. Len(s) \in Nat
  BY LenProperties
<1>6. /\ Len(t) = Len(s) + 1 /\ t[1] = x
      /\ \A i \in 1 .. Len(s) : t[i + 1] = s[i]
  <2>1. 1 \in 1 .. Len(p)
    BY <1>2
  <2>2. \A i \in 1 .. Len(s) : 1 + i = i + 1
    BY <1>5
  <2> QED
    BY <1>2, <1>4, <1>5, <2>1, <2>2
<1> QED
  BY <1>4, <1>6 DEF t, p

\* The byte on the bus and those behind it.
LEMMA PendingIs ==
  ASSUME BusInv
  PROVE  /\ Pending \in Seq(LcdBytes) /\ Len(Pending) \in Nat
         /\ step > 0 => /\ Len(Pending) = Len(todo) + 1 /\ Pending[1] = tx
                        /\ \A i \in 1 .. Len(todo) : Pending[i + 1] = todo[i]
         /\ step = 0 => Pending = todo
<1>1. todo \in Seq(LcdBytes) /\ tx \in LcdBytes /\ step \in 0 .. 4
  BY DEF BusInv
<1>2. CASE step > 0
  <2>1. Pending = <<tx>> \o todo
    BY <1>2 DEF Pending
  <2>2. /\ Pending \in Seq(LcdBytes)
        /\ Len(Pending) = Len(todo) + 1 /\ Pending[1] = tx
        /\ \A i \in 1 .. Len(todo) : Pending[i + 1] = todo[i]
    BY <1>1, <2>1, ByteFirst, Zenon
  <2>3. Len(Pending) \in Nat
    BY <2>2, LenProperties
  <2> QED
    BY <1>2, <2>2, <2>3
<1>3. CASE step = 0
  <2>1. Pending = todo
    BY <1>3 DEF Pending
  <2>2. Len(Pending) \in Nat
    BY <1>1, <2>1, LenProperties
  <2> QED
    BY <1>1, <1>3, <2>1, <2>2
<1> QED
  BY <1>1, <1>2, <1>3

\* Sending a byte, and every data byte of a frame but the last, leave what the
\* display has still to take.
LEMMA PendingKept ==
  ASSUME BusInv, SendByte \/ (DataByte /\ step # 4)
  PROVE  Pending' = Pending
<1>1. todo \in Seq(LcdBytes) /\ step \in 0 .. 4
  BY DEF BusInv
<1>2. CASE SendByte
  <2>1. /\ todo # <<>> /\ step = 0 /\ tx' = Head(todo) /\ todo' = Tail(todo)
        /\ step' = 1
    BY <1>2 DEF SendByte
  <2>2. <<Head(todo)>> \o Tail(todo) = todo
    BY <1>1, <2>1
  <2>3. step' > 0 /\ ~(step > 0)
    BY <2>1
  <2> QED
    BY <2>1, <2>2, <2>3, Zenon DEF Pending
<1>3. CASE DataByte /\ step # 4
  <2>1. step > 0 /\ step' = step + 1 /\ todo' = todo /\ tx' = tx
    BY <1>3 DEF DataByte
  <2>2. step' > 0
    BY <1>1, <2>1
  <2> QED
    BY <2>1, <2>2, Zenon DEF Pending
<1> QED
  BY <1>2, <1>3

\* What a data byte of a frame does.
LEMMA DataByteIs ==
  ASSUME BusInv, DataByte
  PROVE  /\ step \in {1, 3} => lcd' = lcd /\ spoilt' = spoilt
         /\ step \in {1, 2, 3} => step' = step + 1
         /\ step = 4 => step' = 0
         /\ step = 2 => \/ lcd' = Latch(lcd, tx.byte \div 16, tx.rs) /\ spoilt' = spoilt
                        \/ lcd' = lcd /\ spoilt'
         /\ step = 4 => \/ lcd' = Latch(lcd, tx.byte % 16, tx.rs) /\ spoilt' = spoilt
                        \/ lcd' = lcd /\ spoilt'
<1>1. step \in 0 .. 4 /\ (step \in {2, 4} => en)
  BY DEF BusInv
<1>2. step > 0 /\ step' = (IF step = 4 THEN 0 ELSE step + 1)
  BY DEF DataByte
<1>3. /\ en' = FrameByte(step).enable
      /\ IF en /\ ~en'
         THEN \/ lcd' = Latch(lcd, FrameByte(step).nibble, tx.rs) /\ spoilt' = spoilt
              \/ lcd' = lcd /\ spoilt'
         ELSE lcd' = lcd /\ spoilt' = spoilt
  BY Zenon DEF DataByte
<1>4. CASE step = 1 \/ step = 3
  <2>1. FrameByte(step).enable
    BY <1>4 DEF FrameByte
  <2>2. lcd' = lcd /\ spoilt' = spoilt
    BY <1>3, <2>1, Zenon
  <2> QED
    BY <1>2, <1>4, <2>2
<1>5. CASE step = 2
  <2>1. ~FrameByte(step).enable /\ FrameByte(step).nibble = tx.byte \div 16
    <3>1. 2 \notin {1, 3} /\ 2 <= 2
      OBVIOUS
    <3>2. ~FrameByte(step).enable
      BY <1>5, <3>1, Zenon DEF FrameByte
    <3>3. FrameByte(step).nibble = tx.byte \div 16
      BY <1>5, <3>1, Zenon DEF FrameByte
    <3> QED
      BY <3>2, <3>3
  <2>2. \/ lcd' = Latch(lcd, tx.byte \div 16, tx.rs) /\ spoilt' = spoilt
        \/ lcd' = lcd /\ spoilt'
    <3>1. en
      BY <1>1, <1>5
    <3> QED
      BY <1>3, <2>1, <3>1, Zenon
  <2> QED
    BY <1>2, <1>5, <2>2
<1>6. CASE step = 4
  <2>1. ~FrameByte(step).enable /\ FrameByte(step).nibble = tx.byte % 16
    <3>1. 4 \notin {1, 3} /\ ~(4 <= 2)
      OBVIOUS
    <3>2. ~FrameByte(step).enable
      BY <1>6, <3>1, Zenon DEF FrameByte
    <3>3. FrameByte(step).nibble = tx.byte % 16
      BY <1>6, <3>1, Zenon DEF FrameByte
    <3> QED
      BY <3>2, <3>3
  <2>2. \/ lcd' = Latch(lcd, tx.byte % 16, tx.rs) /\ spoilt' = spoilt
        \/ lcd' = lcd /\ spoilt'
    <3>1. en
      BY <1>1, <1>6
    <3> QED
      BY <1>3, <2>1, <3>1, Zenon
  <2> QED
    BY <1>2, <1>6, <2>2
<1>7. step = 1 \/ step = 3 \/ step = 2 \/ step = 4
  BY <1>1, <1>2
<1> QED
  BY <1>4, <1>5, <1>6, <1>7

\* The texts are lines of characters.
LEMMA TextsAreLines ==
  \A t \in Texts : t \in Seq(Characters)
BY DisplayAssumption DEF Characters

\* The bus is idle at first.
LEMMA BusStart == InitLcd => BusInv
<1> SUFFICES ASSUME InitLcd PROVE BusInv
  OBVIOUS
<1> USE DEF InitLcd
<1>1. todo \in Seq(LcdBytes)
  BY InitBytesAre
<1>2. tx \in LcdBytes
  <2>1. 0 \in 0 .. 255
    OBVIOUS
  <2> QED
    BY <2>1, BytesAreSent
<1>3. lcd \in Displays
  <2>1. NoNibble \in 0 .. NoNibble /\ 0 \in Rows /\ 0 \in 0 .. DDRAM_COLS - 1
    BY SizesOfDisplay DEF NoNibble, Rows
  <2>2. Blank \in [Rows -> [0 .. DDRAM_COLS - 1 -> 0 .. 255]]
    BY DEF Blank, Space
  <2> HIDE DEF Blank
  <2> QED
    BY <2>1, <2>2, Zenon DEF Displays, PowerOn
<1>4. /\ board \in {"master", "slave"} /\ op \in {"init", "print"} /\ step = 0
      /\ en = FALSE /\ spoilt = FALSE /\ disturbed = FALSE /\ resets = 0 /\ lost = 0
  OBVIOUS
<1> HIDE DEF InitLcd
<1>5. 0 \in 0 .. MAX_RESETS /\ 0 \in 0 .. MAX_LOST
  BY DisplayAssumption
<1>6. (step \in {2, 4} => en) /\ (step = 3 => ~en) /\ step \in 0 .. 4
  BY <1>4
<1>7. en \in BOOLEAN /\ spoilt \in BOOLEAN /\ disturbed \in BOOLEAN
  BY <1>4
<1> QED
  BY <1>1, <1>2, <1>3, <1>4, <1>5, <1>6, <1>7, Zenon DEF BusInv

\* A print can be sent.
LEMMA PrintsAreSent == \A s \in Seq(PrintBytes) : s \in Seq(LcdBytes)
<1> SUFFICES ASSUME NEW s \in Seq(PrintBytes) PROVE s \in Seq(LcdBytes)
  OBVIOUS
<1>1. Len(s) \in Nat /\ s \in [1 .. Len(s) -> PrintBytes]
  BY LenProperties
<1>2. s \in [1 .. Len(s) -> LcdBytes]
  BY <1>1, BytesAreSent, Zenon
<1> DEFINE n == Len(s)
<1>3. n \in Nat /\ s \in [1 .. n -> LcdBytes]
  BY <1>1, <1>2
<1> HIDE DEF n
<1> QED
  BY <1>3

\* The bytes a print queues.
LEMMA PrintsQueued ==
  ASSUME BusInv, NEW line1 \in Texts, NEW line2 \in Texts, PrintLines(line1, line2)
  PROVE  /\ todo' \in Seq(PrintBytes) /\ todo' \in Seq(LcdBytes)
         /\ asked'[1] \in Seq(Characters) /\ asked'[2] \in Seq(Characters)
         /\ Len(todo') \in LastByte .. LastByte + 1
         /\ \A i \in 1 .. Len(todo') :
              todo'[i] = PrintByte(asked'[1], asked'[2], LastByte - Len(todo') + i)
<1>0. LastByte \in Nat
  BY SizesOfDisplay DEF LastByte
<1>t. line1 \in Seq(Characters) /\ line2 \in Seq(Characters)
  BY TextsAreLines
<1>1. CASE todo' = PrintMessage(board, line1, line2) /\ asked' = <<line1, line2>>
  <2>1. /\ todo' \in Seq(PrintBytes) /\ Len(todo') = LastByte
        /\ \A k \in 1 .. LastByte : todo'[k] = PrintByte(line1, line2, k)
    BY <1>1, <1>t, MessageBytes
  <2>2. asked'[1] = line1 /\ asked'[2] = line2
    BY <1>1
  <2> HIDE <1>1
  <2>4. ASSUME NEW i \in 1 .. Len(todo')
        PROVE  todo'[i] = PrintByte(asked'[1], asked'[2], LastByte - Len(todo') + i)
    <3>1. LastByte - Len(todo') + i = i /\ i \in 1 .. LastByte
      BY <1>0, <2>1
    <3> QED
      BY <2>1, <2>2, <3>1
  <2>5. Len(todo') \in LastByte .. LastByte + 1
    BY <1>0, <2>1
  <2>6. todo' \in Seq(LcdBytes)
    BY <2>1, PrintsAreSent, Zenon
  <2> QED
    BY <1>t, <2>1, <2>2, <2>4, <2>5, <2>6
<1>2. ASSUME NEW time \in Texts, Len(time) = TIME_COLS,
             todo' = PrintWarning(line1, time, line2),
             asked' = <<line1, time \o line2>>
      PROVE  /\ todo' \in Seq(PrintBytes) /\ todo' \in Seq(LcdBytes)
             /\ asked'[1] \in Seq(Characters) /\ asked'[2] \in Seq(Characters)
             /\ Len(todo') \in LastByte .. LastByte + 1
             /\ \A i \in 1 .. Len(todo') :
                  todo'[i] = PrintByte(asked'[1], asked'[2], LastByte - Len(todo') + i)
  <2>t. time \in Seq(Characters)
    BY TextsAreLines
  <2>1. /\ todo' \in Seq(PrintBytes) /\ Len(todo') = LastByte + 1
        /\ \A k \in 1 .. LastByte + 1 :
             todo'[k] = PrintByte(line1, time \o line2, k - 1)
    BY <1>t, <1>2, <2>t, WarningBytes
  <2>2. asked'[1] = line1 /\ asked'[2] = time \o line2
    BY <1>2
  <2>3. time \o line2 \in Seq(Characters)
    BY <1>t, <1>2, <2>t, LineOfTwoParts
  <2> HIDE <1>2
  <2>4. ASSUME NEW i \in 1 .. Len(todo')
        PROVE  todo'[i] = PrintByte(asked'[1], asked'[2], LastByte - Len(todo') + i)
    <3>1. LastByte - Len(todo') + i = i - 1 /\ i \in 1 .. LastByte + 1
      BY <1>0, <2>1
    <3> QED
      BY <2>1, <2>2, <3>1
  <2>5. Len(todo') \in LastByte .. LastByte + 1
    BY <1>0, <2>1
  <2>6. todo' \in Seq(LcdBytes)
    BY <2>1, PrintsAreSent, Zenon
  <2> QED
    BY <1>t, <2>1, <2>2, <2>3, <2>4, <2>5, <2>6
<1> QED
  BY <1>1, <1>2 DEF PrintLines

\* Every step of driver, bus and display keeps the registers' ranges.
LEMMA BusStep == ASSUME BusInv, [NextLcd]_lcd_vars PROVE BusInv'
<1>0. /\ board \in {"master", "slave"} /\ op \in {"init", "print"}
      /\ todo \in Seq(LcdBytes) /\ tx \in LcdBytes /\ step \in 0 .. 4
      /\ en \in BOOLEAN /\ spoilt \in BOOLEAN /\ disturbed \in BOOLEAN
      /\ lcd \in Displays
      /\ resets \in 0 .. MAX_RESETS /\ lost \in 0 .. MAX_LOST
      /\ (step \in {2, 4} => en) /\ (step = 3 => ~en)
  BY DEF BusInv
<1>1. CASE \E line1, line2 \in Texts : PrintLines(line1, line2)
  <2>1. PICK line1 \in Texts, line2 \in Texts : PrintLines(line1, line2)
    BY <1>1
  <2>2. todo' \in Seq(LcdBytes)
    BY <2>1, PrintsQueued
  <2>3. /\ op' = "print" /\ disturbed' = FALSE
        /\ board' = board /\ tx' = tx /\ step' = step /\ en' = en /\ lcd' = lcd
        /\ spoilt' = spoilt /\ resets' = resets /\ lost' = lost
    BY <2>1, Zenon DEF PrintLines
  <2> QED
    BY <1>0, <2>2, <2>3 DEF BusInv
<1>2. CASE SendByte
  <2>1. tx' \in LcdBytes /\ todo' \in Seq(LcdBytes)
    BY <1>0, <1>2 DEF SendByte
  <2>2. lcd' \in Displays
    BY <1>0, <1>2, FieldTypes DEF SendByte
  <2>3. /\ step' = 1 /\ op' = op /\ disturbed' = disturbed
        /\ board' = board /\ en' = en
        /\ spoilt' = spoilt /\ resets' = resets /\ lost' = lost
    BY <1>2 DEF SendByte
  <2> QED
    BY <1>0, <2>1, <2>2, <2>3 DEF BusInv
<1>3. CASE LoseFrame
  <2>1. /\ step' = 0 /\ lost' = lost + 1 /\ lost < MAX_LOST
        /\ op' = op /\ board' = board /\ en' = en /\ lcd' = lcd /\ todo' = todo
        /\ tx' = tx /\ resets' = resets
    BY <1>3 DEF LoseFrame
  <2>2. spoilt' \in BOOLEAN /\ disturbed' \in BOOLEAN
    BY <1>0, <1>3 DEF LoseFrame
  <2>3. lost' \in 0 .. MAX_LOST
    BY <1>0, <2>1, DisplayAssumption
  <2> QED
    BY <1>0, <2>1, <2>2, <2>3 DEF BusInv
<1>4. CASE DataByte
  <2>1. /\ op' = op /\ board' = board /\ todo' = todo /\ tx' = tx /\ resets' = resets
        /\ lost' = lost /\ disturbed' = disturbed /\ step > 0
    BY <1>4 DEF DataByte
  <2>2. step' \in 0 .. 4
    BY <1>0, <1>4, DataByteIs, <2>1
  <2>3. tx.byte \in 0 .. 255 /\ tx.rs \in BOOLEAN
    BY <1>0 DEF LcdBytes
  <2>4. tx.byte \div 16 \in 0 .. 15 /\ tx.byte % 16 \in 0 .. 15
    BY <2>3
  <2>5. lcd' \in Displays
    <3>1. /\ Latch(lcd, tx.byte \div 16, tx.rs) \in Displays
          /\ Latch(lcd, tx.byte % 16, tx.rs) \in Displays
      BY <1>0, <2>3, <2>4, LatchType
    <3>2. \/ lcd' = lcd \/ lcd' = Latch(lcd, tx.byte \div 16, tx.rs)
          \/ lcd' = Latch(lcd, tx.byte % 16, tx.rs)
      <4>1. step = 1 \/ step = 2 \/ step = 3 \/ step = 4
        BY <1>0, <2>1
      <4>2. 1 \in {1, 3} /\ 3 \in {1, 3}
        OBVIOUS
      <4> QED
        BY <1>4, <4>1, <4>2, DataByteIs, Zenon
    <3> QED
      BY <1>0, <3>1, <3>2, Zenon
  <2>6. spoilt' \in BOOLEAN
    BY <1>0, <1>4, Zenon DEF DataByte
  <2>7. en' \in BOOLEAN
    <3>1. en' = (step \in {1, 3})
      BY <1>4, Zenon DEF DataByte, FrameByte
    <3> QED
      BY <3>1
  <2>8. (step' \in {2, 4} => en') /\ (step' = 3 => ~en')
    <3>1. en' = (step \in {1, 3})
      BY <1>4, Zenon DEF DataByte, FrameByte
    <3>2. step' = (IF step = 4 THEN 0 ELSE step + 1)
      BY <1>4 DEF DataByte
    <3>3. (step' \in {2, 4} => step \in {1, 3}) /\ (step' = 3 => step \notin {1, 3})
      BY <1>0, <3>2
    <3> QED
      BY <3>1, <3>3, Zenon
  <2> QED
    BY <1>0, <2>1, <2>2, <2>5, <2>6, <2>7, <2>8, Zenon DEF BusInv
<1>5. CASE ResetBoard
  <2>1. todo' \in Seq(LcdBytes) /\ tx' \in LcdBytes
    <3>1. 0 \in 0 .. 255
      OBVIOUS
    <3> QED
      BY <1>0, <1>5, <3>1, InitBytesAre, BytesAreSent DEF ResetBoard
  <2>2. /\ resets < MAX_RESETS /\ resets' = resets + 1 /\ op' = "init" /\ step' = 0
        /\ spoilt' = FALSE /\ disturbed' = FALSE /\ board' = board /\ en' = en
        /\ lcd' = lcd /\ lost' = lost
    BY <1>5, Zenon DEF ResetBoard
  <2>3. resets' \in 0 .. MAX_RESETS
    BY <1>0, <2>2, DisplayAssumption
  <2>4. (step' \in {2, 4} => en') /\ (step' = 3 => ~en') /\ step' \in 0 .. 4
    BY <2>2
  <2>5. op' \in {"init", "print"} /\ spoilt' \in BOOLEAN /\ disturbed' \in BOOLEAN
    BY <2>2
  <2> QED
    BY <1>0, <2>1, <2>2, <2>3, <2>4, <2>5, Zenon DEF BusInv
<1>6. CASE UNCHANGED lcd_vars
  BY <1>0, <1>6 DEF BusInv, lcd_vars, driver
<1> QED
  BY <1>1, <1>2, <1>3, <1>4, <1>5, <1>6 DEF NextLcd

\* The display during Init.
LEMMA InitStart == InitLcd => InitInv
<1> SUFFICES ASSUME InitLcd PROVE InitInv
  OBVIOUS
<1>1. BusInv
  BY BusStart
<1>2. /\ board \in {"master", "slave"} /\ todo = InitBytes(board) /\ step = 0
      /\ lcd = PowerOn
  BY DEF InitLcd
<1>3. Pending = InitBytes(board) /\ Len(Pending) = InitLength /\ InitLength \in Nat
  BY <1>1, <1>2, PendingIs, InitBytesAre DEF InitLength
<1>4. HalfInv(lcd)
  BY <1>2, Zenon DEF HalfInv, PowerOn
<1>5. InitLength - Len(Pending) = 0
  BY <1>3
<1>6. Booted(lcd, step, tx.byte, board, 0)
  <2>1. /\ ~(0 = 1) /\ ~(0 >= 2) /\ ~(0 >= 3) /\ ~(step >= 3)
        /\ ~(0 >= (IF board = "master" THEN 4 ELSE 7))
        /\ ~(0 >= (IF board = "master" THEN 5 ELSE 6))
    BY <1>2
  <2> QED
    BY <2>1, Zenon DEF Booted
<1>7. \A i \in 1 .. Len(Pending) :
        Pending[i] = InitBytes(board)[InitLength - Len(Pending) + i]
  <2>1. \A i \in 1 .. Len(Pending) : InitLength - Len(Pending) + i = i
    BY <1>3
  <2> QED
    BY <1>3, <2>1
<1>8. Len(Pending) <= InitLength
  BY <1>3
<1> QED
  BY <1>4, <1>5, <1>6, <1>7, <1>8, Zenon DEF InitInv

\* Every step keeps what LCD_Init has already established.
LEMMA InitStep ==
  ASSUME BusInv, BusInv', InitInv, [NextLcd]_lcd_vars
  PROVE  InitInv'
<1> DEFINE n == InitLength
           k == n - Len(Pending)
           Left == /\ Len(Pending) <= n
                   /\ \A i \in 1 .. Len(Pending) :
                        Pending[i] = InitBytes(board)[k + i]
                   /\ Booted(lcd, step, tx.byte, board, k)
<1>0. /\ lcd \in Displays /\ tx \in LcdBytes /\ step \in 0 .. 4
      /\ board \in {"master", "slave"} /\ HalfInv(lcd)
      /\ tx.byte \in 0 .. 255 /\ tx.rs \in BOOLEAN
      /\ n \in Nat /\ Len(Pending) \in Nat
  BY PendingIs, InitBytesAre DEF BusInv, InitInv, LcdBytes, InitLength
<1>goal. /\ HalfInv(lcd)'
         /\ (op = "init" /\ ~spoilt)' => Left'
         => InitInv'
  BY Zenon DEF InitInv
<1>have. op = "init" /\ ~spoilt => Left
  BY Zenon DEF InitInv
<1>1. CASE \E line1, line2 \in Texts : PrintLines(line1, line2)
  <2>1. op' = "print" /\ lcd' = lcd
    BY <1>1, Zenon DEF PrintLines
  <2>2. HalfInv(lcd)'
    BY <1>0, <2>1
  <2> HIDE DEF Left
  <2> QED
    BY <1>goal, <2>1, <2>2
<1>2. CASE SendByte
  <2>1. /\ lcd' = [lcd EXCEPT !.busy = FALSE] /\ op' = op /\ spoilt' = spoilt
        /\ board' = board /\ step = 0 /\ step' = 1
    BY <1>2, Zenon DEF SendByte
  <2>2. lcd'.four = lcd.four /\ lcd'.half = lcd.half /\ lcd'.two = lcd.two
        /\ lcd'.on = lcd.on /\ lcd'.up = lcd.up
    BY <1>0, <2>1, Zenon DEF Displays
  <2>3. HalfInv(lcd)'
    BY <1>0, <2>2, Zenon DEF HalfInv
  <2>4. Pending' = Pending
    BY <1>2, PendingKept
  <2>5. ASSUME Left PROVE Left'
    <3>1. Len(Pending') = Len(Pending) /\ n' = n /\ k' = k
      BY <2>1, <2>4 DEF InitLength
    <3> DEFINE j == k
    <3>2. Booted(lcd, step, tx.byte, board, j)
      BY <2>5
    <3> HIDE DEF j
    <3>3. Booted(lcd', step', tx'.byte, board', j)
      <4>1. ~(step >= 3) /\ ~(step' >= 3) /\ step < 3 /\ step' < 3
        BY <2>1
      <4> QED
        BY <2>1, <2>2, <3>2, <4>1, Zenon DEF Booted, InStep
    <3> QED
      BY <2>1, <2>4, <2>5, <3>1, <3>3 DEF j
  <2> HIDE DEF Left
  <2> QED
    BY <1>goal, <1>have, <2>1, <2>3, <2>5
<1>3. CASE LoseFrame
  <2>1. /\ lcd' = lcd /\ op' = op /\ (op = "init" => spoilt')
    BY <1>3, Zenon DEF LoseFrame
  <2>2. HalfInv(lcd)'
    BY <1>0, <2>1
  <2> HIDE DEF Left
  <2> QED
    BY <1>goal, <2>1, <2>2
<1>4. CASE DataByte
  <2>1. op' = op /\ board' = board /\ tx' = tx /\ todo' = todo /\ step > 0
    BY <1>4, Zenon DEF DataByte
  <2>2. tx.byte \div 16 \in 0 .. 15 /\ tx.byte % 16 \in 0 .. 15
    <3> DEFINE c == tx.byte
    <3>1. c \in 0 .. 255
      BY <1>0
    <3> HIDE DEF c
    <3>2. c \div 16 \in 0 .. 15 /\ c % 16 \in 0 .. 15
      BY <3>1
    <3> QED
      BY <3>2 DEF c
  <2>3. \/ step = 1 \/ step = 2 \/ step = 3 \/ step = 4
    BY <1>0, <2>1
  <2>4. HalfInv(lcd)'
    <3>1. /\ HalfInv(Latch(lcd, tx.byte \div 16, tx.rs))
          /\ HalfInv(Latch(lcd, tx.byte % 16, tx.rs))
      BY <1>0, <2>2, LatchHalf
    <3>2. \/ lcd' = lcd \/ lcd' = Latch(lcd, tx.byte \div 16, tx.rs)
          \/ lcd' = Latch(lcd, tx.byte % 16, tx.rs)
      <4>1. 1 \in {1, 3} /\ 3 \in {1, 3}
        OBVIOUS
      <4> QED
        BY <1>4, <2>3, <4>1, DataByteIs, Zenon
    <3> QED
      BY <1>0, <3>1, <3>2, Zenon
  <2>5. ASSUME op = "init", ~spoilt' PROVE Left'
    <3>1. ~spoilt /\ Left
      <4>1. ~spoilt
        BY <1>4, <2>5, Zenon DEF DataByte
      <4> QED
        BY <1>have, <2>5, <4>1
    <3>2. n' = n
      BY <2>1 DEF InitLength
    <3> DEFINE j == k
    <3>3. Booted(lcd, step, tx.byte, board, j)
      BY <3>1
    <3>4. j \in Nat /\ j <= n
      BY <1>0, <3>1
    <3>5. CASE step # 4
      <4>1. Pending' = Pending
        BY <1>4, <3>5, PendingKept
      <4>2. k' = k /\ Len(Pending') = Len(Pending)
        BY <3>2, <4>1
      <4>3. Booted(lcd', step', tx'.byte, board', j)
        <5> HIDE DEF j
        <5>1. CASE step = 1 \/ step = 3
          <6>1. lcd' = lcd /\ step' = step + 1
            BY <1>4, <5>1, DataByteIs
          <6>2. (step' >= 3 <=> step >= 3) /\ (step' < 3 <=> step < 3)
            BY <5>1, <6>1
          <6> QED
            BY <2>1, <3>3, <6>1, <6>2, Zenon DEF Booted, InStep
        <5>2. CASE step = 2
          <6> DEFINE c == InitSequence[board][j + 1]
          <6>1. tx = Command(c) /\ j + 1 \in 1 .. n
            <7>1. Pending[1] = tx /\ Len(Pending) >= 1
              BY <2>1, PendingIs, LenProperties DEF BusInv
            <7>2. 1 \in 1 .. Len(Pending)
              BY <1>0, <7>1
            <7>3. Pending[1] = InitBytes(board)[k + 1]
              BY <3>1, <7>2
            <7>4. k + 1 \in 1 .. n
              BY <1>0, <3>1, <7>1
            <7>5. InitBytes(board)[k + 1] = Command(InitSequence[board][k + 1])
              BY <1>0, <7>4, InitBytesAre DEF InitLength
            <7> QED
              BY <7>1, <7>3, <7>4, <7>5 DEF j
          <6>2. tx.byte = c /\ tx.rs = FALSE
            BY <6>1 DEF Command
          <6>3. lcd' = Latch(lcd, c \div 16, FALSE) /\ step' = 3
            <7>1. lcd' = Latch(lcd, tx.byte \div 16, tx.rs)
              BY <1>4, <2>5, <5>2, DataByteIs, Zenon
            <7>2. step' = 3
              BY <1>4, <5>2, DataByteIs
            <7> QED
              BY <6>2, <7>1, <7>2
          <6>4. Booted(lcd, 2, c, board, j)
            BY <3>3, <5>2, <6>2
          <6>5. j \in 0 .. Len(InitSequence[board]) - 1
            BY <1>0, <3>4, <6>1 DEF InitLength
          <6>6. Booted(Latch(lcd, c \div 16, FALSE), 3, c, board, j)
            BY <1>0, <6>4, <6>5, BootedFirstHalf
          <6> QED
            BY <2>1, <6>2, <6>3, <6>6
        <5> QED
          BY <2>3, <3>5, <5>1, <5>2
      <4> QED
        BY <2>1, <3>1, <3>2, <4>1, <4>2, <4>3 DEF j
    <3>6. CASE step = 4
      <4>1. step' = 0
        BY <1>4, <3>6, DataByteIs
      <4>2. Pending' = todo /\ Len(Pending) = Len(todo) + 1 /\ Len(todo) \in Nat
        <5>1. Pending' = todo'
          BY <4>1 DEF Pending
        <5> QED
          BY <2>1, <5>1, PendingIs, LenProperties DEF BusInv
      <4>3. k' = k + 1 /\ k + 1 \in 1 .. n
        BY <1>0, <3>1, <3>2, <4>2
      <4>4. \A i \in 1 .. Len(todo) : todo[i] = InitBytes(board)[(k + 1) + i]
        <5> SUFFICES ASSUME NEW i \in 1 .. Len(todo)
                     PROVE  todo[i] = InitBytes(board)[(k + 1) + i]
          OBVIOUS
        <5>1. i + 1 \in 1 .. Len(Pending) /\ (k + 1) + i = k + (i + 1)
          BY <1>0, <4>2
        <5>2. Pending[i + 1] = todo[i]
          BY <2>1, PendingIs
        <5>3. Pending[i + 1] = InitBytes(board)[k + (i + 1)]
          BY <3>1, <5>1
        <5> QED
          BY <5>1, <5>2, <5>3
      <4>5. Booted(lcd', step', tx'.byte, board', j + 1)
        <5> DEFINE c == InitSequence[board][j + 1]
        <5>1. tx = Command(c)
          <6>1. Pending[1] = tx /\ 1 \in 1 .. Len(Pending)
            BY <2>1, <4>2, PendingIs
          <6>2. Pending[1] = InitBytes(board)[k + 1]
            BY <3>1, <6>1
          <6>3. InitBytes(board)[k + 1] = Command(InitSequence[board][k + 1])
            BY <1>0, <4>3, InitBytesAre DEF InitLength
          <6> QED
            BY <6>1, <6>2, <6>3
        <5>2. tx.byte = c /\ tx.rs = FALSE
          BY <5>1 DEF Command
        <5>3. lcd' = Latch(lcd, c % 16, FALSE)
          <6>1. lcd' = Latch(lcd, tx.byte % 16, tx.rs)
            BY <1>4, <2>5, <3>6, DataByteIs, Zenon
          <6> QED
            BY <5>2, <6>1
        <5>4. Booted(lcd, 4, c, board, j)
          BY <3>3, <3>6, <5>2
        <5>5. j \in 0 .. Len(InitSequence[board]) - 1
          BY <1>0, <3>4, <4>3 DEF InitLength
        <5> HIDE DEF j
        <5>6. Booted(Latch(lcd, c % 16, FALSE), 0, tx.byte, board, j + 1)
          BY <1>0, <5>4, <5>5, BootedSecondHalf
        <5> QED
          BY <2>1, <4>1, <5>3, <5>6
      <4>6. Len(Pending') <= n' /\ Len(Pending') = Len(todo)
        BY <1>0, <3>1, <3>2, <4>2
      <4>7. Booted(lcd', step', tx'.byte, board', k')
        BY <4>3, <4>5
      <4>8. \A i \in 1 .. Len(Pending') : Pending'[i] = InitBytes(board')[k' + i]
        BY <2>1, <4>2, <4>3, <4>4
      <4> QED
        BY <4>6, <4>7, <4>8
    <3> QED
      BY <3>5, <3>6
  <2> HIDE DEF Left
  <2> QED
    BY <1>goal, <2>1, <2>4, <2>5
<1>5. CASE ResetBoard
  <2>1. /\ lcd' = lcd /\ step' = 0 /\ board' = board /\ todo' = InitBytes(board)
    BY <1>5, Zenon DEF ResetBoard
  <2>2. HalfInv(lcd)'
    BY <1>0, <2>1
  <2>3. n' = n
    BY <2>1 DEF InitLength
  <2>4. Pending' = InitBytes(board) /\ Len(Pending') = n
    <3>1. Pending' = todo'
      BY <2>1 DEF Pending
    <3> QED
      BY <1>0, <2>1, <3>1, InitBytesAre DEF InitLength
  <2>5. k' = 0
    BY <1>0, <2>3, <2>4
  <2>6. Booted(lcd', step', tx'.byte, board', 0)
    <3>1. /\ ~(0 = 1) /\ ~(0 >= 2) /\ ~(0 >= 3) /\ ~(step' >= 3)
          /\ ~(0 >= (IF board' = "master" THEN 4 ELSE 7))
          /\ ~(0 >= (IF board' = "master" THEN 5 ELSE 6))
      BY <2>1
    <3> QED
      BY <3>1, Zenon DEF Booted
  <2>7. \A i \in 1 .. Len(Pending') : Pending'[i] = InitBytes(board')[k' + i]
    <3>1. \A i \in 1 .. n : 0 + i = i
      BY <1>0
    <3> QED
      BY <2>1, <2>4, <2>5, <3>1
  <2>8. Left'
    BY <1>0, <2>3, <2>4, <2>5, <2>6, <2>7
  <2> HIDE DEF Left
  <2> QED
    BY <1>goal, <2>2, <2>8
<1>6. CASE UNCHANGED lcd_vars
  <2>1. Pending' = Pending /\ InitLength' = InitLength
    BY <1>6 DEF lcd_vars, driver, Pending, InitLength
  <2> QED
    BY <1>6, <2>1, Zenon DEF lcd_vars, driver, InitInv
<1> QED
  BY <1>1, <1>2, <1>3, <1>4, <1>5, <1>6 DEF NextLcd

\* The display during the prints.
LEMMA PrintStep ==
  ASSUME BusInv, InitInv, PrintInv, [NextLcd]_lcd_vars
  PROVE  PrintInv'
<1>0. /\ lcd \in Displays /\ tx \in LcdBytes /\ step \in 0 .. 4
      /\ board \in {"master", "slave"} /\ todo \in Seq(LcdBytes)
  BY DEF BusInv
<1>1. CASE \E line1, line2 \in Texts : PrintLines(line1, line2)
  <2>1. PICK line1 \in Texts, line2 \in Texts : PrintLines(line1, line2)
    BY <1>1
  <2>2. todo' \in Seq(PrintBytes)
    BY <2>1, PrintsQueued
  <2>3. /\ todo = <<>> /\ step = 0 /\ step' = 0 /\ lcd' = lcd /\ spoilt' = spoilt
        /\ tx' = tx
    BY <2>1, Zenon DEF PrintLines, Idle
  <2>4. ASSUME ~spoilt PROVE Prepared(lcd, 0, tx.byte)
    <3>1. CASE op = "print"
      BY <2>3, <2>4, <3>1, Zenon DEF PrintInv
    <3>2. CASE op = "init"
      <4>1. Len(Pending) = 0 /\ InitLength \in 6 .. 10
            /\ InitLength = IF board = "master" THEN 6 ELSE 10
        <5>1. Pending = <<>>
          BY <2>3 DEF Pending
        <5>2. Len(Pending) = 0
          BY <5>1
        <5>3. InitLength = IF board = "master" THEN 6 ELSE 10
          BY <1>0, InitBytesAre DEF InitLength
        <5> QED
          BY <5>2, <5>3
      <4>2. Booted(lcd, step, tx.byte, board, InitLength - Len(Pending))
        BY <2>4, <3>2, Zenon DEF InitInv
      <4>3. /\ InitLength - Len(Pending) >= 2 /\ InitLength - Len(Pending) >= 3
            /\ InitLength - Len(Pending) >= (IF board = "master" THEN 4 ELSE 7)
            /\ InitLength - Len(Pending) >= (IF board = "master" THEN 5 ELSE 6)
        BY <4>1
      <4> QED
        BY <2>3, <4>2, <4>3, Zenon DEF Booted, Prepared
    <3> QED
      BY <3>1, <3>2 DEF BusInv
  <2>5. ~(step' > 0)
    BY <2>3
  <2> QED
    BY <2>2, <2>3, <2>4, <2>5, Zenon DEF PrintInv
<1>2. CASE SendByte
  <2>1. /\ lcd' = [lcd EXCEPT !.busy = FALSE] /\ op' = op /\ spoilt' = spoilt
        /\ todo # <<>> /\ step = 0 /\ step' = 1 /\ tx' = Head(todo) /\ todo' = Tail(todo)
    BY <1>2, Zenon DEF SendByte
  <2>2. lcd'.four = lcd.four /\ lcd'.half = lcd.half /\ lcd'.two = lcd.two
        /\ lcd'.on = lcd.on /\ lcd'.up = lcd.up
    BY <1>0, <2>1, Zenon DEF Displays
  <2>3. ASSUME op = "print" PROVE todo' \in Seq(PrintBytes) /\ tx' \in PrintBytes
    <3>1. todo \in Seq(PrintBytes) /\ todo # <<>>
      BY <2>1, <2>3 DEF PrintInv
    <3>2. Head(todo) \in PrintBytes /\ Tail(todo) \in Seq(PrintBytes)
      BY <3>1, HeadTailProperties
    <3> QED
      BY <2>1, <3>2
  <2>4. ASSUME op = "print", ~spoilt PROVE Prepared(lcd', step', tx'.byte)
    <3>1. Prepared(lcd, step, tx.byte)
      BY <2>4 DEF PrintInv
    <3>2. ~(step >= 3) /\ ~(step' >= 3)
      BY <2>1
    <3> QED
      BY <2>2, <3>1, <3>2, Zenon DEF Prepared, InStep
  <2> QED
    BY <2>1, <2>3, <2>4, Zenon DEF PrintInv
<1>3. CASE LoseFrame
  <2>1. /\ lcd' = lcd /\ op' = op /\ step = 1 /\ step' = 0 /\ tx' = tx /\ todo' = todo
        /\ (op = "print" => spoilt' = spoilt)
    BY <1>3, Zenon DEF LoseFrame
  <2>2. ~(step >= 3) /\ ~(step' >= 3) /\ ~(step' > 0)
    BY <2>1
  <2> QED
    BY <2>1, <2>2, Zenon DEF PrintInv, Prepared, InStep
<1>4. CASE DataByte
  <2>1. op' = op /\ board' = board /\ tx' = tx /\ todo' = todo /\ step > 0
    BY <1>4, Zenon DEF DataByte
  <2>2. \/ step = 1 \/ step = 2 \/ step = 3 \/ step = 4
    BY <1>0, <2>1
  <2>3. ASSUME op = "print" PROVE todo \in Seq(PrintBytes) /\ tx \in PrintBytes
    BY <2>1, <2>3, Zenon DEF PrintInv
  <2>4. ASSUME op = "print", ~spoilt' PROVE Prepared(lcd', step', tx'.byte)
    <3>1. ~spoilt /\ Prepared(lcd, step, tx.byte) /\ tx \in PrintBytes
      <4>1. ~spoilt
        BY <1>4, <2>4, Zenon DEF DataByte
      <4> QED
        BY <2>3, <2>4, <4>1, Zenon DEF PrintInv
    <3>2. CASE step = 1 \/ step = 3
      <4>1. lcd' = lcd /\ step' = step + 1
        BY <1>4, <3>2, DataByteIs
      <4>2. step' >= 3 <=> step >= 3
        BY <3>2, <4>1
      <4> QED
        BY <2>1, <3>1, <4>1, <4>2, Zenon DEF Prepared, InStep
    <3>3. CASE step = 2
      <4>1. lcd' = Latch(lcd, tx.byte \div 16, tx.rs)
        BY <1>4, <2>4, <3>3, DataByteIs, Zenon
      <4>2. step' = 3
        BY <1>4, <3>3, DataByteIs
      <4>3. Prepared(lcd, 2, tx.byte)
        BY <3>1, <3>3
      <4>4. Prepared(Latch(lcd, tx.byte \div 16, tx.rs), 3, tx.byte)
        BY <1>0, <3>1, <4>3, PrintFrame
      <4> QED
        BY <2>1, <4>1, <4>2, <4>4
    <3>4. CASE step = 4
      <4>1. lcd' = Latch(lcd, tx.byte % 16, tx.rs)
        BY <1>4, <2>4, <3>4, DataByteIs, Zenon
      <4>2. step' = 0
        BY <1>4, <3>4, DataByteIs
      <4>3. Prepared(lcd, 4, tx.byte)
        BY <3>1, <3>4
      <4>4. Prepared(Latch(lcd, tx.byte % 16, tx.rs), 0, tx.byte)
        BY <1>0, <3>1, <4>3, PrintFrame
      <4> QED
        BY <2>1, <4>1, <4>2, <4>4
    <3> QED
      BY <2>2, <3>2, <3>3, <3>4
  <2> QED
    BY <2>1, <2>3, <2>4, Zenon DEF PrintInv
<1>5. CASE ResetBoard
  BY <1>5 DEF ResetBoard, PrintInv
<1>6. CASE UNCHANGED lcd_vars
  BY <1>6, Zenon DEF lcd_vars, driver, PrintInv
<1> QED
  BY <1>1, <1>2, <1>3, <1>4, <1>5, <1>6 DEF NextLcd

\* Every step keeps what the display has already taken of the message.
LEMMA ScreenStep ==
  ASSUME BusInv, PrintInv, ScreenInv, [NextLcd]_lcd_vars
  PROVE  ScreenInv'
<1> DEFINE k == LastByte - Len(Pending)
           Left == /\ asked[1] \in Seq(Characters) /\ asked[2] \in Seq(Characters)
                   /\ Len(Pending) <= LastByte + 1
                   /\ \A i \in 1 .. Len(Pending) :
                        Pending[i] = PrintByte(asked[1], asked[2], k + i)
                   /\ Shown(lcd, asked[1], asked[2], k)
<1>0. /\ lcd \in Displays /\ tx \in LcdBytes /\ step \in 0 .. 4
      /\ board \in {"master", "slave"} /\ todo \in Seq(LcdBytes)
      /\ LastByte \in Nat /\ Len(Pending) \in Nat
  BY PendingIs, SizesOfDisplay DEF BusInv, LastByte
<1>goal. ((op = "print" /\ ~spoilt /\ ~disturbed)' => Left') => ScreenInv'
  BY Zenon DEF ScreenInv
<1>have. op = "print" /\ ~spoilt /\ ~disturbed => Left
  BY Zenon DEF ScreenInv
<1>1. CASE \E line1, line2 \in Texts : PrintLines(line1, line2)
  <2>1. PICK line1 \in Texts, line2 \in Texts : PrintLines(line1, line2)
    BY <1>1
  <2>2. /\ asked'[1] \in Seq(Characters) /\ asked'[2] \in Seq(Characters)
        /\ Len(todo') \in LastByte .. LastByte + 1
        /\ \A i \in 1 .. Len(todo') :
             todo'[i] = PrintByte(asked'[1], asked'[2], LastByte - Len(todo') + i)
    BY <2>1, PrintsQueued
  <2>3. step' = 0
    BY <2>1, Zenon DEF PrintLines, Idle
  <2>4. Pending' = todo'
    BY <2>3 DEF Pending
  <2>5. Len(todo') <= LastByte + 1 /\ LastByte - Len(todo') <= 0
    BY <1>0, <2>2
  <2>6. Shown(lcd', asked'[1], asked'[2], LastByte - Len(todo'))
    <3> DEFINE j == LastByte - Len(todo')
    <3>1. j \in Int /\ j <= 0
      BY <1>0, <2>2
    <3> HIDE DEF j
    <3>2. /\ ~(j >= 1) /\ ~(j \in 1 .. LCD_COL_COUNT)
          /\ ~(j \in LCD_COL_COUNT + 2 .. LastByte - 1)
          /\ \A c \in Cols : ~(c + 2 <= j) /\ ~(c + LCD_COL_COUNT + 3 <= j)
      BY <3>1, SizesOfDisplay DEF Cols
    <3>3. Shown(lcd', asked'[1], asked'[2], j)
      BY <3>2, Zenon DEF Shown
    <3> QED
      BY <3>3 DEF j
  <2>7. Left'
    BY <2>2, <2>4, <2>5, <2>6
  <2> HIDE DEF Left
  <2> QED
    BY <1>goal, <2>7
<1>2. CASE SendByte
  <2>1. /\ lcd' = [lcd EXCEPT !.busy = FALSE] /\ op' = op /\ spoilt' = spoilt
        /\ disturbed' = disturbed /\ asked' = asked
    BY <1>2, Zenon DEF SendByte
  <2>2. lcd'.cgram = lcd.cgram /\ lcd'.row = lcd.row /\ lcd'.col = lcd.col
        /\ lcd'.ddram = lcd.ddram
    BY <1>0, <2>1, Zenon DEF Displays
  <2>3. Pending' = Pending
    BY <1>2, PendingKept
  <2>4. ASSUME Left PROVE Left'
    <3>1. Shown(lcd', asked[1], asked[2], k)
      BY <2>2, <2>4, ShownSame
    <3> QED
      BY <2>1, <2>3, <2>4, <3>1
  <2> HIDE DEF Left
  <2> QED
    BY <1>goal, <1>have, <2>1, <2>4
<1>3. CASE LoseFrame
  <2>1. op' = op /\ (op = "print" => disturbed')
    BY <1>3 DEF LoseFrame
  <2> HIDE DEF Left
  <2> QED
    BY <1>goal, <2>1
<1>4. CASE DataByte
  <2>1. /\ op' = op /\ board' = board /\ tx' = tx /\ todo' = todo /\ step > 0
        /\ asked' = asked /\ disturbed' = disturbed
    BY <1>4, Zenon DEF DataByte
  <2>2. \/ step = 1 \/ step = 2 \/ step = 3 \/ step = 4
    BY <1>0, <2>1
  <2>3. ASSUME op = "print", ~spoilt', ~disturbed' PROVE Left'
    <3>1. /\ ~spoilt /\ Left /\ Prepared(lcd, step, tx.byte) /\ tx \in PrintBytes
          /\ tx.byte \in 0 .. 255 /\ tx.rs \in BOOLEAN
      <4>1. ~spoilt
        BY <1>4, <2>3, Zenon DEF DataByte
      <4>2. Left
        BY <1>have, <2>1, <2>3, <4>1
      <4>3. Prepared(lcd, step, tx.byte) /\ tx \in PrintBytes
        BY <2>1, <2>3, <4>1, Zenon DEF PrintInv
      <4> QED
        BY <4>1, <4>2, <4>3, PrintByteIs
    <3>2. CASE step = 1 \/ step = 2 \/ step = 3
      <4>1. step # 4
        BY <3>2
      <4>2. Pending' = Pending
        BY <1>4, <4>1, PendingKept
      <4>3. lcd'.cgram = lcd.cgram /\ lcd'.row = lcd.row /\ lcd'.col = lcd.col
            /\ lcd'.ddram = lcd.ddram
        <5>1. CASE step = 1 \/ step = 3
          BY <1>4, <5>1, DataByteIs
        <5>2. CASE step = 2
          <6>1. lcd' = Latch(lcd, tx.byte \div 16, tx.rs)
            BY <1>4, <2>3, <5>2, DataByteIs, Zenon
          <6>2. InStep(lcd, 2, tx.byte)
            BY <3>1, <5>2 DEF Prepared
          <6>3. lcd' = [lcd EXCEPT !.half = tx.byte \div 16]
            BY <1>0, <3>1, <6>1, <6>2, FrameInStep, ZenonT(40)
          <6> QED
            BY <1>0, <6>3, Zenon DEF Displays
        <5> QED
          BY <3>2, <5>1, <5>2
      <4>4. Shown(lcd', asked[1], asked[2], k)
        BY <3>1, <4>3, ShownSame
      <4> QED
        BY <2>1, <3>1, <4>2, <4>4
    <3>3. CASE step = 4
      <4> DEFINE d == [lcd EXCEPT !.half = NoNibble]
                 j == k
      <4>1. lcd' = Perform(d, tx.byte, tx.rs)
        <5>1. lcd' = Latch(lcd, tx.byte % 16, tx.rs)
          BY <1>4, <2>3, <3>3, DataByteIs, Zenon
        <5>2. InStep(lcd, 4, tx.byte)
          BY <3>1, <3>3 DEF Prepared
        <5> QED
          BY <1>0, <3>1, <5>1, <5>2, FrameInStep
      <4>2. /\ d \in Displays /\ d.up = lcd.up
            /\ d.cgram = lcd.cgram /\ d.row = lcd.row /\ d.col = lcd.col
            /\ d.ddram = lcd.ddram
        <5>1. NoNibble \in 0 .. NoNibble
          BY DEF NoNibble
        <5> QED
          BY <1>0, <5>1, HalfTaken, Zenon
      <4> HIDE DEF d
      <4>3. Shown(d, asked[1], asked[2], j)
        BY <3>1, <4>2, ShownSame
      <4>4. d.up
        BY <3>1, <4>2 DEF Prepared
      <4>5. step' = 0
        BY <1>4, <3>3, DataByteIs
      <4>6. Pending' = todo /\ Len(Pending) = Len(todo) + 1 /\ Len(todo) \in Nat
        <5>1. Pending' = todo'
          BY <4>5 DEF Pending
        <5> QED
          BY <1>0, <2>1, <5>1, PendingIs, LenProperties
      <4>7. /\ k' = k + 1 /\ k \in -1 .. LastByte - 1 /\ Len(todo) <= LastByte + 1
            /\ k \in Int
        BY <1>0, <3>1, <4>6
      <4>8. tx = PrintByte(asked[1], asked[2], j + 1)
        <5>1. Pending[1] = tx /\ 1 \in 1 .. Len(Pending)
          BY <2>1, <4>6, PendingIs
        <5> QED
          BY <3>1, <5>1
      <4>9. \A i \in 1 .. Len(todo) :
              todo[i] = PrintByte(asked[1], asked[2], (k + 1) + i)
        <5> SUFFICES ASSUME NEW i \in 1 .. Len(todo)
                     PROVE  todo[i] = PrintByte(asked[1], asked[2], (k + 1) + i)
          OBVIOUS
        <5>1. i + 1 \in 1 .. Len(Pending) /\ (k + 1) + i = k + (i + 1)
          BY <1>0, <4>6
        <5>2. Pending[i + 1] = todo[i]
          BY <2>1, PendingIs
        <5>3. Pending[i + 1] = PrintByte(asked[1], asked[2], k + (i + 1))
          BY <3>1, <5>1
        <5> QED
          BY <5>1, <5>2, <5>3
      <4>10. Shown(lcd', asked[1], asked[2], j + 1)
        <5>1. j \in -1 .. LastByte - 1
          BY <4>7
        <5>2. asked[1] \in Seq(Characters) /\ asked[2] \in Seq(Characters)
          BY <3>1
        <5> HIDE DEF j
        <5>3. LET p == PrintByte(asked[1], asked[2], j + 1)
              IN  Shown(Perform(d, p.byte, p.rs), asked[1], asked[2], j + 1)
          BY <4>2, <4>3, <4>4, <5>1, <5>2, ShownNext
        <5> QED
          BY <4>1, <4>8, <5>3
      <4>11. Shown(lcd', asked'[1], asked'[2], k')
        BY <2>1, <4>7, <4>10
      <4>12. \A i \in 1 .. Len(Pending') :
               Pending'[i] = PrintByte(asked'[1], asked'[2], k' + i)
        BY <2>1, <4>6, <4>7, <4>9
      <4>13. Len(Pending') <= LastByte + 1
        BY <4>6, <4>7
      <4> QED
        BY <2>1, <3>1, <4>11, <4>12, <4>13
    <3> QED
      BY <2>2, <3>2, <3>3
  <2> HIDE DEF Left
  <2> QED
    BY <1>goal, <2>1, <2>3
<1>5. CASE ResetBoard
  <2>1. op' = "init"
    BY <1>5 DEF ResetBoard
  <2> HIDE DEF Left
  <2> QED
    BY <1>goal, <2>1
<1>6. CASE UNCHANGED lcd_vars
  <2>1. Pending' = Pending
    BY <1>6 DEF lcd_vars, driver, Pending
  <2> QED
    BY <1>6, <2>1, Zenon DEF lcd_vars, driver, ScreenInv
<1> QED
  BY <1>1, <1>2, <1>3, <1>4, <1>5, <1>6 DEF NextLcd

\* The bus, the initialisation, the print and the screen keep their invariant
\* in every run.
THEOREM DisplayInvariant == SpecLcd => []DisplayInv
<1>1. InitLcd => DisplayInv
  <2> SUFFICES ASSUME InitLcd PROVE DisplayInv
    OBVIOUS
  <2>1. op = "init"
    BY DEF InitLcd
  <2> QED
    BY <2>1, BusStart, InitStart DEF DisplayInv, PrintInv, ScreenInv
<1>2. DisplayInv /\ [NextLcd]_lcd_vars => DisplayInv'
  <2> SUFFICES ASSUME DisplayInv, [NextLcd]_lcd_vars PROVE DisplayInv'
    OBVIOUS
  <2>1. BusInv /\ InitInv /\ PrintInv /\ ScreenInv
    BY DEF DisplayInv
  <2>2. BusInv'
    BY <2>1, BusStep
  <2>3. InitInv'
    BY <2>1, <2>2, InitStep
  <2>4. PrintInv'
    BY <2>1, PrintStep
  <2>5. ScreenInv'
    BY <2>1, ScreenStep
  <2> QED
    BY <2>2, <2>3, <2>4, <2>5 DEF DisplayInv
<1> QED
  BY <1>1, <1>2, PTL DEF SpecLcd

\* LCD_Init and LCD1602_Init bring the display into 4-bit mode with two lines,
\* display on and the cursor going up, whatever half of a byte or of an earlier
\* start a reset had left it in, and no lost frame takes it out of step again.
THEOREM DisplayResynchronises == SpecLcd => []InitResynchronises
<1>1. DisplayInv => InitResynchronises
  <2> SUFFICES ASSUME DisplayInv PROVE InitResynchronises
    OBVIOUS
  <2>0. BusInv /\ PrintInv
    BY DEF DisplayInv
  <2>1. TypeOK
    <3>1. lcd.half \in 0 .. NoNibble /\ lcd.row \in Rows /\ lcd.col \in 0 .. DDRAM_COLS - 1
      BY <2>0, Zenon DEF BusInv, Displays
    <3>2. {en, spoilt, disturbed} \subseteq BOOLEAN
      BY <2>0, Zenon DEF BusInv
    <3> QED
      BY <2>0, <3>1, <3>2 DEF BusInv, TypeOK
  <2>2. ASSUME Settled
        PROVE  lcd.four /\ lcd.half = NoNibble /\ lcd.two /\ lcd.on /\ lcd.up
    <3>1. op = "print" /\ step = 0 /\ ~spoilt
      BY <2>2 DEF Settled
    <3>2. ~(step >= 3)
      BY <3>1
    <3> QED
      BY <2>0, <3>1, <3>2, Zenon DEF PrintInv, Prepared, InStep
  <2> QED
    BY <2>1, <2>2, Zenon DEF InitResynchronises
<1> QED
  BY <1>1, DisplayInvariant, PTL

\* After a print that lost no frame both lines of the display show the message
\* and nothing else, for every set of texts, every width of the display and
\* whatever was on it before.
THEOREM DisplayShowsMessage == SpecLcd => []ScreenShowsMessage
<1>1. DisplayInv => ScreenShowsMessage
  <2> SUFFICES ASSUME DisplayInv, Settled, Idle, ~disturbed,
                      NEW r \in Rows, NEW c \in Cols
               PROVE  lcd.ddram[r][c] = IF c < Len(asked[r + 1]) THEN asked[r + 1][c + 1]
                                                                 ELSE Space
    BY DEF ScreenShowsMessage
  <2>1. /\ op = "print" /\ ~spoilt /\ todo = <<>> /\ step = 0
    BY DEF Settled, Idle
  <2>2. Pending = <<>>
    BY <2>1 DEF Pending
  <2>3. LastByte - Len(Pending) = LastByte
    BY <2>2, SizesOfDisplay DEF LastByte
  <2>4. Shown(lcd, asked[1], asked[2], LastByte)
    BY <2>1, <2>3, Zenon DEF DisplayInv, ScreenInv
  <2>5. c + 2 <= LastByte /\ c + LCD_COL_COUNT + 3 <= LastByte
    BY SizesOfDisplay DEF LastByte, Cols
  <2>6. lcd.ddram[0][c] = Char(asked[1], c) /\ lcd.ddram[1][c] = Char(asked[2], c)
    BY <2>4, <2>5, Zenon DEF Shown
  <2>7. r = 0 \/ r = 1
    BY DEF Rows
  <2> QED
    BY <2>6, <2>7 DEF Char
<1> QED
  BY <1>1, DisplayInvariant, PTL
=============================================================================
