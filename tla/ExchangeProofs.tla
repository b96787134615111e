--------------------------- MODULE ExchangeProofs ---------------------------
(***************************************************************************)
(* The two boards at both ends of the UART.  The packet formats agree on   *)
(* every sample and every result; the slave's parser and warning decision  *)
(* keep their invariants whatever is lost or damaged on the line, alone    *)
(* and in the exchange with the master, restarts of both boards included;  *)
(* and one exchange without a fault brings the boards back into step.      *)
(***************************************************************************)
EXTENDS PacketExchange, FiniteSetTheorems, SequenceTheorems, TLAPS

-----------------------------------------------------------------------------
(* The warning decision: the counter decides what the last WARN_LIMIT      *)
(* samples decide, for every limit of a uint8_t and every set of samples.  *)

\* Every sample is reduced to one of the nine codes.
LEMMA ConditionIsCode ==
  ASSUME NEW s
  PROVE  GetRawConditionCode(s) \in Code
<1> DEFINE c == ConditionOf(s.distance <= DISTANCE_WARN_THRESHOLD_CM,
                   s.temperature >= TEMP_HIGH_THRESHOLD_C,
                   s.humidity >= HUMID_HIGH_THRESHOLD_PERCENT)
<1>1. \A dist, temp, humid : ConditionOf(dist, temp, humid) \in Code
  BY DEF ConditionOf, Code, NORMAL, SENSOR_ERROR
<1>2. c \in Code
  BY <1>1
<1> QED
  BY <1>2 DEF GetRawConditionCode, Code, NORMAL, SENSOR_ERROR

\* The initial history holds no condition.
LEMMA InitInvariant == InitWarning => WarningInv
BY WarningAssumption
   DEF InitWarning, WarningInv, WarningTypeOK, CountIsRunLength, VerdictOf,
       Code, Warnings, NORMAL, SENSOR_ERROR

\* A restart forgets every sample, whatever came before.
LEMMA ResetRestores == ResetWarning => WarningInv'
BY WarningAssumption
   DEF ResetWarning, WarningInv, WarningTypeOK, CountIsRunLength, VerdictOf,
       Code, Warnings, NORMAL, SENSOR_ERROR

\* What a sample does to the history: it becomes the newest one, and every
\* older one moves up by one place.
LEMMA RememberShifts ==
  ASSUME NEW raw \in Code, WarningTypeOK, Remember(raw)
  PROVE  /\ recent' \in [1 .. WARN_LIMIT -> Code]
         /\ recent'[1] = raw
         /\ \A i \in 2 .. WARN_LIMIT : recent'[i] = recent[i - 1]
BY WarningAssumption DEF Remember, WarningTypeOK

\* The counter stays within its limit.
LEMMA CountIsBounded ==
  ASSUME NEW raw \in Code, WarningTypeOK
  PROVE  CountOf(raw) \in 0 .. WARN_LIMIT
<1>1. WARN_LIMIT \in 1 .. 255 /\ consecutive_count \in 0 .. WARN_LIMIT
  BY WarningAssumption DEF WarningTypeOK
<1>2. CASE raw = SENSOR_ERROR
  BY <1>1, <1>2 DEF CountOf
<1>3. CASE raw = NORMAL
  BY <1>1, <1>3 DEF CountOf, NORMAL, SENSOR_ERROR
<1>4. CASE raw \notin {SENSOR_ERROR, NORMAL} /\ raw # last_condition_code
  BY <1>1, <1>4 DEF CountOf
<1>5. CASE raw \notin {SENSOR_ERROR, NORMAL} /\ raw = last_condition_code
  BY <1>1, <1>5 DEF CountOf
<1> QED
  BY <1>2, <1>3, <1>4, <1>5

\* One sample preserves the invariant.
LEMMA EvaluatePreserves ==
  ASSUME WarningInv, NEW raw \in Code, EvaluateCondition(raw)
  PROVE  WarningInv'
<1> USE DEF WarningInv
<1>1. WarningTypeOK
  OBVIOUS
<1>2. /\ recent' \in [1 .. WARN_LIMIT -> Code]
      /\ recent'[1] = raw
      /\ \A i \in 2 .. WARN_LIMIT : recent'[i] = recent[i - 1]
  BY <1>1, RememberShifts DEF EvaluateCondition
<1>3. consecutive_count' \in 0 .. WARN_LIMIT
  BY <1>1, CountIsBounded DEF EvaluateCondition
<1>4. verdict' \in Code
  BY DEF EvaluateCondition, VerdictOf, Code, NORMAL, SENSOR_ERROR
<1>5. WarningTypeOK'
  BY <1>2, <1>3, <1>4 DEF WarningTypeOK, EvaluateCondition
<1>6. CASE raw \notin Warnings
  <2>1. raw \in {NORMAL, SENSOR_ERROR}
    BY <1>6 DEF Warnings
  <2>2. raw = NORMAL => consecutive_count' = 0
    BY DEF EvaluateCondition, CountOf, NORMAL, SENSOR_ERROR
  <2> QED
    BY <1>2, <1>5, <1>6, <2>1, <2>2
       DEF CountIsRunLength, EvaluateCondition, Warnings
<1>7. CASE raw \in Warnings /\ raw # last_condition_code
  <2>1. consecutive_count' = 1
    BY <1>7 DEF EvaluateCondition, CountOf, Warnings
  <2>2. 1 < WARN_LIMIT => recent'[2] # raw
    BY <1>2, <1>7, WarningAssumption DEF CountIsRunLength
  <2>3. raw # NORMAL
    BY <1>7 DEF Warnings
  <2> QED
    BY <1>2, <1>5, <1>7, <2>1, <2>2, <2>3, WarningAssumption
       DEF CountIsRunLength, EvaluateCondition
<1>8. CASE raw \in Warnings /\ raw = last_condition_code
  <2>1. consecutive_count' = IF consecutive_count < WARN_LIMIT
                             THEN consecutive_count + 1 ELSE consecutive_count
    BY <1>8 DEF EvaluateCondition, CountOf, Warnings
  <2>2. /\ consecutive_count \in 1 .. WARN_LIMIT
        /\ \A i \in 1 .. WARN_LIMIT : i <= consecutive_count => recent[i] = raw
        /\ consecutive_count < WARN_LIMIT => recent[consecutive_count + 1] # raw
    BY <1>1, <1>8, WarningAssumption DEF CountIsRunLength, WarningTypeOK
  <2>3. \A i \in 1 .. WARN_LIMIT : i <= consecutive_count' => recent'[i] = raw
    <3> SUFFICES ASSUME NEW i \in 1 .. WARN_LIMIT, i <= consecutive_count'
                 PROVE  recent'[i] = raw
      OBVIOUS
    <3>1. CASE i = 1
      BY <3>1, <1>2
    <3>2. CASE i # 1
      <4>1. /\ i \in 2 .. WARN_LIMIT
            /\ i - 1 \in 1 .. WARN_LIMIT
            /\ i - 1 <= consecutive_count
        BY <3>2, <2>1, <2>2, WarningAssumption
      <4> QED
        BY <4>1, <1>2, <2>2
    <3> QED
      BY <3>1, <3>2
  <2>4. consecutive_count' < WARN_LIMIT => recent'[consecutive_count' + 1] # raw
    <3> SUFFICES ASSUME consecutive_count' < WARN_LIMIT
                 PROVE  recent'[consecutive_count' + 1] # raw
      OBVIOUS
    <3>1. /\ consecutive_count' = consecutive_count + 1
          /\ consecutive_count' + 1 \in 2 .. WARN_LIMIT
          /\ consecutive_count < WARN_LIMIT
      BY <2>1, <2>2, WarningAssumption
    <3>2. recent'[consecutive_count' + 1] = recent[(consecutive_count' + 1) - 1]
      BY <3>1, <1>2
    <3>3. (consecutive_count' + 1) - 1 = consecutive_count + 1
      BY <3>1, <2>2
    <3> QED
      BY <3>1, <3>2, <3>3, <2>2
  <2>5. raw # NORMAL /\ consecutive_count' >= 1
    BY <1>8, <2>1, <2>2 DEF Warnings
  <2> QED
    BY <1>2, <1>5, <1>8, <2>3, <2>4, <2>5
       DEF CountIsRunLength, EvaluateCondition
<1> QED
  BY <1>6, <1>7, <1>8

\* WarningInv is inductive: the counter is always the length of the run of
\* equal conditions that ends with the newest sample.
THEOREM WarningInvariance == SpecWarning => []WarningInv
<1>1. WarningInv /\ [NextWarning]_warning_vars => WarningInv'
  <2> SUFFICES ASSUME WarningInv, [NextWarning]_warning_vars
               PROVE  WarningInv'
    OBVIOUS
  <2>1. CASE NextWarning
    <3>1. CASE ResetWarning
      BY <3>1, ResetRestores
    <3>2. CASE \E s \in Samples : Evaluate(s)
      <4>1. PICK s \in Samples : Evaluate(s)
        BY <3>2
      <4> QED
        BY <4>1, ConditionIsCode, EvaluatePreserves DEF Evaluate
    <3> QED
      BY <2>1, <3>1, <3>2 DEF NextWarning
  <2>2. CASE UNCHANGED warning_vars
    BY <2>2 DEF warning_vars, WarningInv, WarningTypeOK, CountIsRunLength,
                VerdictOf
  <2> QED
    BY <2>1, <2>2
<1> QED
  BY <1>1, InitInvariant, PTL DEF SpecWarning

\* What the invariant says of the verdict.
LEMMA InvariantDecides ==
  WarningInv => ConfirmedIffRepeated
<1> SUFFICES ASSUME WarningInv
             PROVE  ConfirmedIffRepeated
  OBVIOUS
<1> USE DEF WarningInv
<1>1. /\ recent[1] = last_condition_code
      /\ verdict = VerdictOf(last_condition_code, consecutive_count)
      /\ last_condition_code \in Code
      /\ consecutive_count \in 0 .. WARN_LIMIT
  BY DEF CountIsRunLength, WarningTypeOK
<1>2. ASSUME NEW c \in Warnings, verdict = c
      PROVE  \A i \in 1 .. WARN_LIMIT : recent[i] = c
  <2>1. last_condition_code = c /\ consecutive_count = WARN_LIMIT
    BY <1>1, <1>2, WarningAssumption DEF VerdictOf, Warnings
  <2> QED
    BY <2>1, WarningAssumption DEF CountIsRunLength
<1>3. ASSUME NEW c \in Warnings, \A i \in 1 .. WARN_LIMIT : recent[i] = c
      PROVE  verdict = c
  <2>1. last_condition_code = c
    BY <1>1, <1>3, WarningAssumption
  <2>2. consecutive_count = WARN_LIMIT
    BY <1>1, <1>3, <2>1, WarningAssumption DEF CountIsRunLength
  <2> QED
    BY <1>1, <2>1, <2>2, WarningAssumption DEF VerdictOf
<1> QED
  BY <1>2, <1>3 DEF ConfirmedIffRepeated

\* A warning is confirmed exactly when WARN_LIMIT samples in a row met it.
THEOREM WarningsAreConfirmed == SpecWarning => []ConfirmedIffRepeated
<1>1. WarningInv => ConfirmedIffRepeated
  BY InvariantDecides
<1> QED
  BY <1>1, WarningInvariance, PTL

-----------------------------------------------------------------------------
(* The checksum.                                                           *)

\* A parity is a bit.
LEMMA ParityIsBit ==
  ASSUME NEW packet, NEW first \in Nat, NEW last \in Nat, NEW d
  PROVE  Parity(packet, first, last, d) \in 0 .. 1
<1> DEFINE S == {i \in first .. last : (packet[i] \div d) % 2 = 1}
<1>1. IsFiniteSet(S)
  <2>1. IsFiniteSet(first .. last)
    BY FS_Interval
  <2>2. S \subseteq first .. last
    OBVIOUS
  <2> QED
    BY <2>1, <2>2, FS_Subset
<1>2. Cardinality(S) \in Nat
  BY <1>1, FS_CardinalityType
<1>3. Parity(packet, first, last, d) = Cardinality(S) % 2
  BY DEF Parity
<1> HIDE DEF S
<1> QED
  BY <1>2, <1>3

\* Every checksum is a byte.
LEMMA XorIsByte ==
  ASSUME NEW packet, NEW first \in Nat, NEW last \in Nat
  PROVE  XorOver(packet, first, last) \in Byte
<1> DEFINE P(d) == Parity(packet, first, last, d)
<1>1. /\ P(1) \in 0 .. 1 /\ P(2) \in 0 .. 1
      /\ P(4) \in 0 .. 1 /\ P(8) \in 0 .. 1
      /\ P(16) \in 0 .. 1 /\ P(32) \in 0 .. 1
      /\ P(64) \in 0 .. 1 /\ P(128) \in 0 .. 1
  BY ParityIsBit, Zenon
<1>2. XorOver(packet, first, last)
        = 1 * P(1) + 2 * P(2) + 4 * P(4) + 8 * P(8)
            + 16 * P(16) + 32 * P(32) + 64 * P(64) + 128 * P(128)
  BY Zenon DEF XorOver
<1> HIDE DEF P
<1> QED
  BY <1>1, <1>2 DEF Byte

\* A checksum depends only on the bytes it covers.
LEMMA XorDependsOnRange ==
  ASSUME NEW p, NEW q, NEW first \in Nat, NEW last \in Nat,
         \A i \in first .. last : p[i] = q[i]
  PROVE  XorOver(p, first, last) = XorOver(q, first, last)
<1>1. ASSUME NEW d
      PROVE  Parity(p, first, last, d) = Parity(q, first, last, d)
  <2>1. {i \in first .. last : (p[i] \div d) % 2 = 1}
          = {i \in first .. last : (q[i] \div d) % 2 = 1}
    OBVIOUS
  <2> QED
    BY <2>1, Zenon DEF Parity
<1> DEFINE P(d) == Parity(p, first, last, d)
           Q(d) == Parity(q, first, last, d)
<1>2. /\ P(1) = Q(1) /\ P(2) = Q(2) /\ P(4) = Q(4) /\ P(8) = Q(8)
      /\ P(16) = Q(16) /\ P(32) = Q(32) /\ P(64) = Q(64) /\ P(128) = Q(128)
  BY <1>1, Zenon
<1> QED
  BY <1>2, Zenon DEF XorOver

-----------------------------------------------------------------------------
(* Round trips between the two boards.                                     *)

\* A uint16_t is put together again from its high and its low byte.
LEMMA HighAndLow == \A d \in Nat : d = 256 * (d \div 256) + (d % 256)
<1> SUFFICES ASSUME NEW d \in Nat PROVE d = 256 * (d \div 256) + (d % 256)
  OBVIOUS
<1> QED
  BY Z3

\* A sensor packet is seven bytes.
LEMMA SensorPacketType ==
  ASSUME NEW s \in Sample
  PROVE  /\ BuildSensorPacket(s) \in Seq(Byte)
         /\ Len(BuildSensorPacket(s)) = SENSOR_PACKET_LEN
<1> DEFINE body == <<PACKET_START_BYTE, PACKET_TYPE_SENSOR, s.distance \div 256,
                     s.distance % 256, s.temperature, s.humidity>>
<1>1. /\ s.distance \in Word
      /\ s.temperature \in Byte /\ s.humidity \in Byte
  BY DEF Sample
<1>2. s.distance \div 256 \in Byte /\ s.distance % 256 \in Byte
  BY <1>1 DEF Byte, Word
<1>3. PACKET_START_BYTE \in Byte /\ PACKET_TYPE_SENSOR \in Byte
  BY DEF Byte, PACKET_START_BYTE, PACKET_TYPE_SENSOR
<1>4. body \in Seq(Byte) /\ Len(body) = 6
  BY <1>1, <1>2, <1>3
<1>5. CalcChecksum(body, SENSOR_PACKET_LEN - 1) \in Byte
  BY XorIsByte DEF CalcChecksum, SENSOR_PACKET_LEN
<1>6. BuildSensorPacket(s) = Append(body, CalcChecksum(body, SENSOR_PACKET_LEN - 1))
  BY DEF BuildSensorPacket
<1> HIDE DEF body
<1>7. \A c \in Byte : Append(body, c) \in Seq(Byte) /\ Len(Append(body, c)) = 7
  <2> SUFFICES ASSUME NEW c \in Byte
               PROVE  Append(body, c) \in Seq(Byte) /\ Len(Append(body, c)) = 7
    OBVIOUS
  <2>1. Append(body, c) \in Seq(Byte) /\ Len(Append(body, c)) = Len(body) + 1
    BY <1>4, AppendProperties, ZenonT(40)
  <2> QED
    BY <1>4, <2>1
<1> QED
  BY <1>5, <1>6, <1>7 DEF SENSOR_PACKET_LEN

\* The slave reads every sensor packet of the master as the sample it was
\* built from: Protocol_BuildSensorPacket and Slave0_ParseSensorPacket agree.
THEOREM SensorPacketRoundTrip ==
  \A s \in Sample :
    ParseSensorPacket(BuildSensorPacket(s)) = [ok |-> TRUE, sample |-> s]
<1> SUFFICES ASSUME NEW s \in Sample
             PROVE  ParseSensorPacket(BuildSensorPacket(s))
                      = [ok |-> TRUE, sample |-> s]
  OBVIOUS
<1> DEFINE body == <<PACKET_START_BYTE, PACKET_TYPE_SENSOR, s.distance \div 256,
                     s.distance % 256, s.temperature, s.humidity>>
           c == CalcChecksum(body, 6)
           raw == Append(body, c)
<1>1. BuildSensorPacket(s) = raw
  BY DEF BuildSensorPacket, SENSOR_PACKET_LEN
<1>2. /\ raw[1] = PACKET_START_BYTE /\ raw[2] = PACKET_TYPE_SENSOR
      /\ raw[3] = s.distance \div 256 /\ raw[4] = s.distance % 256
      /\ raw[5] = s.temperature /\ raw[6] = s.humidity
      /\ raw[7] = c
  <2> HIDE DEF c
  <2> QED
    OBVIOUS
<1>3. \A i \in 2 .. 6 : body[i] = raw[i]
  <2> HIDE DEF c
  <2>1. \A i \in 2 .. 6 : i \in 1 .. 6
    OBVIOUS
  <2>2. \A i \in 1 .. 6 : body[i] = raw[i]
    OBVIOUS
  <2> QED
    BY <2>1, <2>2
<1>4. ChecksumXor(raw, 1, 6) = c
  <2> HIDE DEF body, raw
  <2>0. 2 \in Nat /\ 6 \in Nat
    OBVIOUS
  <2>1. XorOver(body, 2, 6) = XorOver(raw, 2, 6)
    BY <1>3, <2>0, XorDependsOnRange, Zenon
  <2> QED
    BY <2>1 DEF ChecksumXor, CalcChecksum
<1>5. 256 * (s.distance \div 256) + (s.distance % 256) = s.distance
  <2>1. s.distance \in Nat
    BY DEF Sample, Word
  <2> QED
    BY <2>1, HighAndLow
<1>6. s = [distance |-> s.distance, temperature |-> s.temperature,
           humidity |-> s.humidity]
  BY DEF Sample
<1> HIDE DEF raw, c
<1>7. ParseSensorPacket(raw).ok = TRUE
  BY <1>2, <1>4 DEF ParseSensorPacket
<1>8. ParseSensorPacket(raw).sample = s
  BY <1>2, <1>5, <1>6 DEF ParseSensorPacket
<1>9. ParseSensorPacket(raw) = [ok |-> ParseSensorPacket(raw).ok,
                                sample |-> ParseSensorPacket(raw).sample]
  BY DEF ParseSensorPacket
<1> QED
  BY <1>1, <1>7, <1>8, <1>9

\* A result packet is a sequence of bytes.
LEMMA ResultPacketType ==
  ASSUME NEW r \in Result
  PROVE  BuildResultPacket(r) \in Seq(Byte)
<1> DEFINE body == <<PACKET_START_BYTE, PACKET_TYPE_RESULT, r.minute, r.second,
                     r.code>>
<1>1. r.minute \in Byte /\ r.second \in Byte /\ r.code \in ResultCode
  BY DEF Result
<1>2. /\ PACKET_START_BYTE \in Byte /\ PACKET_TYPE_RESULT \in Byte
      /\ ResultCode \subseteq Byte
  BY DEF Byte, PACKET_START_BYTE, PACKET_TYPE_RESULT, ResultCode
<1>3. body \in Seq(Byte)
  BY <1>1, <1>2
<1>4. ChecksumXor(body, 1, 5) \in Byte
  BY XorIsByte DEF ChecksumXor
<1>5. BuildResultPacket(r) = Append(body, ChecksumXor(body, 1, 5))
  BY DEF BuildResultPacket
<1> HIDE DEF body
<1> QED
  BY <1>3, <1>4, <1>5, AppendProperties

\* The master reads every result packet of the slave as the result it was
\* built from: Slave0_BuildResultPacket and Protocol_ParseResultPacket agree.
THEOREM ResultPacketRoundTrip ==
  \A r \in Result :
    ParseResultPacket(BuildResultPacket(r)) = [ok |-> TRUE, result |-> r]
<1> SUFFICES ASSUME NEW r \in Result
             PROVE  ParseResultPacket(BuildResultPacket(r))
                      = [ok |-> TRUE, result |-> r]
  OBVIOUS
<1> DEFINE body == <<PACKET_START_BYTE, PACKET_TYPE_RESULT, r.minute, r.second,
                     r.code>>
           c == ChecksumXor(body, 1, 5)
           raw == Append(body, c)
<1>1. BuildResultPacket(r) = raw
  BY DEF BuildResultPacket
<1>2. /\ Len(raw) = 6
      /\ raw[1] = PACKET_START_BYTE /\ raw[2] = PACKET_TYPE_RESULT
      /\ raw[3] = r.minute /\ raw[4] = r.second /\ raw[5] = r.code
      /\ raw[6] = c
  <2> HIDE DEF c
  <2> QED
    OBVIOUS
<1>3. \A i \in 2 .. 5 : body[i] = raw[i]
  <2> HIDE DEF c
  <2>1. \A i \in 2 .. 5 : i \in 1 .. 5
    OBVIOUS
  <2>2. \A i \in 1 .. 5 : body[i] = raw[i]
    OBVIOUS
  <2> QED
    BY <2>1, <2>2
<1>4. CalcChecksum(raw, 5) = c
  <2> HIDE DEF body, raw
  <2>1. 2 \in Nat /\ 5 \in Nat
    OBVIOUS
  <2>2. XorOver(body, 2, 5) = XorOver(raw, 2, 5)
    BY <1>3, <2>1, XorDependsOnRange, Zenon
  <2> QED
    BY <2>2 DEF ChecksumXor, CalcChecksum
<1>5. /\ r.code \in ResultCode
      /\ r = [minute |-> r.minute, second |-> r.second, code |-> r.code]
  BY DEF Result
<1> HIDE DEF raw, c
<1>6. ParseResultPacket(raw).ok = TRUE
  BY <1>2, <1>4, <1>5
     DEF ParseResultPacket, VerifyChecksum, RESULT_PACKET_LEN
<1>7. ParseResultPacket(raw).result = r
  BY <1>2, <1>5 DEF ParseResultPacket
<1>8. ParseResultPacket(raw) = [ok |-> ParseResultPacket(raw).ok,
                                result |-> ParseResultPacket(raw).result]
  BY DEF ParseResultPacket
<1> QED
  BY <1>1, <1>6, <1>7, <1>8

-----------------------------------------------------------------------------
(* The parser.                                                             *)

\* The part of the invariant that is about the parser, the line and the
\* answer; WarningInv is the part about the decision.
ParserInv == SlaveTypeOK /\ BufferHoldsPrefix /\ AnswerParses

\* What is parsed from seven bytes is a sample.
LEMMA ParsedIsSample ==
  ASSUME NEW raw \in Seq(Byte), Len(raw) = 7
  PROVE  /\ ParseSensorPacket(raw).sample \in Sample
         /\ ParseSensorPacket(raw).ok \in BOOLEAN
<1>1. \A i \in 1 .. 7 : raw[i] \in Byte
  BY ElementOfSeq
<1>2. /\ raw[3] \in Byte /\ raw[4] \in Byte /\ raw[5] \in Byte /\ raw[6] \in Byte
  BY <1>1
<1>3. 256 * raw[3] + raw[4] \in Word
  <2> SUFFICES ASSUME NEW h \in Byte, NEW l \in Byte PROVE 256 * h + l \in Word
    BY <1>2
  <2>1. 256 * h + l \in Nat
    BY DEF Byte
  <2>2. (256 * h + l) \div 256 = h
    BY Z3 DEF Byte
  <2> QED
    BY <2>1, <2>2 DEF Word
<1> QED
  BY <1>2, <1>3 DEF ParseSensorPacket, Sample

\* The status after an answer is a status, and shows the answer.
LEMMA AfterAnswerType ==
  ASSUME NEW st \in Status, NEW code \in ResultCode,
         NEW t \in [minute : Byte, second : Byte], NEW sent \in BOOLEAN
  PROVE  /\ AfterAnswer(st, code, t, sent) \in Status
         /\ AfterAnswer(st, code, t, sent).last_minute = t.minute
         /\ AfterAnswer(st, code, t, sent).last_second = t.second
         /\ AfterAnswer(st, code, t, sent).last_result_code = code
<1>1. t.minute \in Byte /\ t.second \in Byte
  OBVIOUS
<1> DEFINE result_sent   == IF sent THEN st.result_sent_count + 1
                            ELSE st.result_sent_count
           packet_error  == IF sent THEN st.packet_error_count
                            ELSE st.packet_error_count + 1
           warning_count == IF IsWarningCode(code) THEN st.warning_count + 1
                            ELSE st.warning_count
<1>2. result_sent \in Nat /\ packet_error \in Nat /\ warning_count \in Nat
  BY DEF Status
<1>3. AfterAnswer(st, code, t, sent) =
        [st EXCEPT !.last_minute = t.minute, !.last_second = t.second,
                   !.last_result_code = code, !.result_sent_count = result_sent,
                   !.packet_error_count = packet_error,
                   !.warning_count = warning_count]
  BY DEF AfterAnswer
<1> HIDE DEF result_sent, packet_error, warning_count
<1> QED
  BY <1>1, <1>2, <1>3 DEF Status

\* A completed packet's answer is one that the master can read.
LEMMA AnswerIsReadable ==
  ASSUME NEW st \in Status, NEW code \in ResultCode, answers \in Nat,
         SendResultPacket(st, code)
  PROVE  /\ status' \in Status
         /\ answer' \in Seq(Byte) /\ AnswerParses'
         /\ answers' \in Nat /\ busy' \in BOOLEAN
<1>1. PICK t \in Clock, sent \in SendOutcomes :
        /\ status' = AfterAnswer(st, code, t, sent)
        /\ answer' = IF sent
                     THEN BuildResultPacket([minute |-> t.minute,
                                             second |-> t.second, code |-> code])
                     ELSE <<>>
        /\ answers' = answers + 1
        /\ busy' = TRUE
  BY DEF SendResultPacket
<1>2. /\ t \in [minute : Byte, second : Byte]
      /\ sent \in BOOLEAN
  BY LineAssumption
<1> DEFINE r == [minute |-> t.minute, second |-> t.second, code |-> code]
<1>3. r \in Result
  BY <1>2 DEF Result
<1>4. /\ status' \in Status
      /\ status'.last_minute = t.minute
      /\ status'.last_second = t.second
      /\ status'.last_result_code = code
  BY <1>1, <1>2, AfterAnswerType
<1>5. answer' # <<>> => answer' = BuildResultPacket(r)
  BY <1>1
<1>6. /\ ParseResultPacket(BuildResultPacket(r)).ok
      /\ ParseResultPacket(BuildResultPacket(r)).result = r
  BY <1>3, ResultPacketRoundTrip
<1>7. AnswerParses'
  BY <1>4, <1>5, <1>6 DEF AnswerParses
<1>8. answer' \in Seq(Byte)
  BY <1>1, <1>3, ResultPacketType
<1> QED
  BY <1>1, <1>4, <1>7, <1>8

\* Seven bytes: the packet is answered, and evaluated if it parses.
LEMMA CompletedPreserves ==
  ASSUME WarningInv, NEW raw \in Seq(Byte), Len(raw) = 7,
         status \in Status, answers \in Nat, accepted \in Nat,
         ProcessCompletedPacket(raw)
  PROVE  /\ WarningInv'
         /\ status' \in Status /\ answer' \in Seq(Byte) /\ AnswerParses'
         /\ answers' \in Nat /\ accepted' \in Nat /\ busy' \in BOOLEAN
<1> DEFINE parsed == ParseSensorPacket(raw)
<1>1. parsed.sample \in Sample
  BY ParsedIsSample
<1> HIDE DEF parsed
<1>2. CASE /\ ~parsed.ok
           /\ SendResultPacket(CountError(status), SENSOR_ERROR)
           /\ UNCHANGED <<accepted, warning_vars>>
  <2>1. CountError(status) \in Status
    BY SMTT(40) DEF CountError, Status
  <2>2. SENSOR_ERROR \in ResultCode
    BY DEF SENSOR_ERROR, ResultCode
  <2>3. WarningInv'
    BY <1>2 DEF WarningInv, WarningTypeOK, CountIsRunLength, VerdictOf,
                warning_vars
  <2> QED
    BY <1>2, <2>1, <2>2, <2>3, AnswerIsReadable
<1>3. CASE /\ parsed.ok
           /\ Evaluate(parsed.sample)
           /\ accepted' = accepted + 1
           /\ SendResultPacket([status EXCEPT !.packet_ok_count = @ + 1,
                                              !.last_sensor = parsed.sample],
                               verdict')
  <2>1. [status EXCEPT !.packet_ok_count = @ + 1,
                       !.last_sensor = parsed.sample] \in Status
    <3>1. status.packet_ok_count + 1 \in Nat
      BY DEF Status
    <3> QED
      BY <1>1, <3>1 DEF Status
  <2>2. WarningInv'
    BY <1>3, ConditionIsCode, EvaluatePreserves DEF Evaluate
  <2>3. verdict' \in ResultCode
    BY <2>2 DEF WarningInv, WarningTypeOK, Code, NORMAL, SENSOR_ERROR, ResultCode
  <2> QED
    BY <1>3, <2>1, <2>2, <2>3, AnswerIsReadable
<1> QED
  BY <1>2, <1>3 DEF ProcessCompletedPacket, parsed

\* One received byte.
LEMMA ReceivedPreserves ==
  ASSUME ParserInv, WarningInv, NEW b \in Byte, ProcessReceivedByte(b)
  PROVE  /\ WarningInv'
         /\ g_rx_buffer' \in Seq(Byte) /\ Len(g_rx_buffer') < SENSOR_PACKET_LEN
         /\ BufferHoldsPrefix'
         /\ status' \in Status /\ answer' \in Seq(Byte) /\ AnswerParses'
         /\ answers' \in Nat /\ accepted' \in Nat /\ busy' \in BOOLEAN
<1> DEFINE n == Len(g_rx_buffer)
           quiet == UNCHANGED <<busy, answer, answers, accepted, warning_vars>>
<1>1. /\ g_rx_buffer \in Seq(Byte) /\ n \in 0 .. 6
      /\ status \in Status /\ answers \in Nat /\ accepted \in Nat
      /\ busy \in BOOLEAN /\ answer \in Seq(Byte)
      /\ BufferHoldsPrefix /\ AnswerParses
  <2>1. /\ g_rx_buffer \in Seq(Byte) /\ n < 7
        /\ status \in Status /\ answers \in Nat /\ accepted \in Nat
        /\ busy \in BOOLEAN /\ answer \in Seq(Byte)
    BY DEF ParserInv, SlaveTypeOK, SENSOR_PACKET_LEN
  <2>2. n \in 0 .. 6
    <3>1. n \in Nat
      BY <2>1, LenProperties
    <3> HIDE DEF n
    <3> QED
      BY <2>1, <3>1
  <2>3. BufferHoldsPrefix /\ AnswerParses
    BY DEF ParserInv
  <2> QED
    BY <2>1, <2>2, <2>3
<1>2. PACKET_START_BYTE \in Byte
  BY DEF PACKET_START_BYTE, Byte
<1>3. quiet /\ (status' = status \/ status' = CountError(status)) =>
        /\ WarningInv'
        /\ status' \in Status /\ answer' \in Seq(Byte) /\ AnswerParses'
        /\ answers' \in Nat /\ accepted' \in Nat /\ busy' \in BOOLEAN
  <2> SUFFICES ASSUME quiet, status' = status \/ status' = CountError(status)
               PROVE  /\ WarningInv'
                      /\ status' \in Status /\ answer' \in Seq(Byte) /\ AnswerParses'
                      /\ answers' \in Nat /\ accepted' \in Nat
                      /\ busy' \in BOOLEAN
    OBVIOUS
  <2>1. WarningInv'
    BY DEF WarningInv, WarningTypeOK, CountIsRunLength, VerdictOf, warning_vars
  <2>2. /\ status' \in Status
        /\ status'.last_minute = status.last_minute
        /\ status'.last_second = status.last_second
        /\ status'.last_result_code = status.last_result_code
    BY <1>1 DEF CountError, Status
  <2>3. AnswerParses'
    BY <1>1, <2>2 DEF AnswerParses
  <2> QED
    BY <1>1, <2>1, <2>2, <2>3
<1>4. \A c \in Byte : /\ Append(g_rx_buffer, c) \in Seq(Byte)
                     /\ Len(Append(g_rx_buffer, c)) = n + 1
                     /\ Append(g_rx_buffer, c)[n + 1] = c
                     /\ \A i \in 1 .. n : Append(g_rx_buffer, c)[i] = g_rx_buffer[i]
  <2> SUFFICES ASSUME NEW c \in Byte
               PROVE  /\ Append(g_rx_buffer, c) \in Seq(Byte)
                      /\ Len(Append(g_rx_buffer, c)) = n + 1
                      /\ Append(g_rx_buffer, c)[n + 1] = c
                      /\ \A i \in 1 .. n :
                           Append(g_rx_buffer, c)[i] = g_rx_buffer[i]
    OBVIOUS
  <2> QED
    BY <1>1, AppendProperties
<1>5. ASSUME g_rx_buffer' = <<>>
      PROVE  /\ g_rx_buffer' \in Seq(Byte) /\ Len(g_rx_buffer') < SENSOR_PACKET_LEN
             /\ BufferHoldsPrefix'
  BY <1>5 DEF BufferHoldsPrefix, SENSOR_PACKET_LEN
<1>6. ASSUME g_rx_buffer' = <<b>>, b = PACKET_START_BYTE
      PROVE  /\ g_rx_buffer' \in Seq(Byte) /\ Len(g_rx_buffer') < SENSOR_PACKET_LEN
             /\ BufferHoldsPrefix'
  BY <1>6 DEF BufferHoldsPrefix, SENSOR_PACKET_LEN
<1> HIDE DEF quiet
<1>7. CASE /\ n = 0
           /\ g_rx_buffer' = IF b = PACKET_START_BYTE THEN <<b>> ELSE <<>>
           /\ UNCHANGED status /\ quiet
  BY <1>3, <1>5, <1>6, <1>7
<1>8. CASE /\ n = 1 /\ b # PACKET_TYPE_SENSOR
           /\ g_rx_buffer' = WrongType(b)
           /\ status' = CountError(status) /\ quiet
  BY <1>3, <1>5, <1>6, <1>8 DEF WrongType
<1>9. CASE /\ n >= 1 /\ ~(n = 1 /\ b # PACKET_TYPE_SENSOR)
           /\ ~Completes(n)
           /\ g_rx_buffer' = Append(g_rx_buffer, b)
           /\ UNCHANGED status /\ quiet
  <2>1. /\ g_rx_buffer' \in Seq(Byte) /\ Len(g_rx_buffer') = n + 1
        /\ g_rx_buffer'[n + 1] = b
        /\ \A i \in 1 .. n : g_rx_buffer'[i] = g_rx_buffer[i]
    BY <1>4, <1>9
  <2>2. g_rx_buffer'[1] = PACKET_START_BYTE
    <3>1. 1 \in 1 .. n /\ g_rx_buffer # <<>>
      BY <1>1, <1>9
    <3> QED
      BY <1>1, <2>1, <3>1 DEF BufferHoldsPrefix
  <2>3. g_rx_buffer'[2] = PACKET_TYPE_SENSOR
    <3>1. CASE n = 1
      BY <1>9, <2>1, <3>1
    <3>2. CASE n # 1
      <4>1. 2 \in 1 .. n /\ Len(g_rx_buffer) >= 2
        BY <1>1, <1>9, <3>2
      <4> QED
        BY <1>1, <2>1, <4>1 DEF BufferHoldsPrefix
    <3> QED
      BY <3>1, <3>2
  <2>4. BufferHoldsPrefix'
    BY <2>2, <2>3 DEF BufferHoldsPrefix
  <2>5. n + 1 < SENSOR_PACKET_LEN
    <3>1. n \in 0 .. 6 /\ ~(n + 1 >= SENSOR_PACKET_LEN)
      BY <1>1, <1>9 DEF Completes
    <3> HIDE DEF n
    <3> QED
      BY <3>1 DEF SENSOR_PACKET_LEN
  <2> QED
    BY <1>3, <1>9, <2>1, <2>4, <2>5
<1>10. CASE /\ Completes(n)
            /\ ProcessCompletedPacket(Append(g_rx_buffer, b))
            /\ g_rx_buffer' = <<>>
  <2>1. Append(g_rx_buffer, b) \in Seq(Byte) /\ Len(Append(g_rx_buffer, b)) = 7
    <3>1. n + 1 = 7
      <4>1. n \in 0 .. 6 /\ n + 1 >= 7
        BY <1>1, <1>10 DEF Completes, SENSOR_PACKET_LEN
      <4> HIDE DEF n
      <4> QED
        BY <4>1
    <3> QED
      BY <1>4, <3>1
  <2> QED
    BY <1>1, <1>5, <1>10, <2>1, CompletedPreserves
<1> QED
  BY <1>7, <1>8, <1>9, <1>10
  DEF ProcessReceivedByte, ParserAfterPacket, FirstByte, quiet

-----------------------------------------------------------------------------
(* The invariant of the slave.                                             *)

SlaveInv == ParserInv /\ WarningInv

\* What leaves the decision's variables alone preserves its invariant.
LEMMA WarningUnchanged ==
  ASSUME WarningInv, UNCHANGED warning_vars
  PROVE  WarningInv'
BY DEF WarningInv, WarningTypeOK, CountIsRunLength, VerdictOf, warning_vars

\* What leaves the slave's program state alone preserves the parser's part,
\* as far as it is about that state.
LEMMA SlaveUnchanged ==
  ASSUME ParserInv, UNCHANGED slave_vars
  PROVE  /\ g_rx_buffer' \in Seq(Byte) /\ Len(g_rx_buffer') < SENSOR_PACKET_LEN
         /\ busy' \in BOOLEAN /\ status' \in Status /\ answer' \in Seq(Byte)
         /\ BufferHoldsPrefix' /\ AnswerParses'
BY DEF ParserInv, SlaveTypeOK, slave_vars, BufferHoldsPrefix, AnswerParses

\* The slave starts with an empty buffer and no answer.
LEMMA SlaveInit == Init => SlaveInv
<1> SUFFICES ASSUME Init PROVE SlaveInv
  OBVIOUS
<1>1. WarningInv
  BY InitInvariant DEF Init
<1>2. InitialStatus \in Status /\ NoSample \in Sample
  <2>1. 0 \in Byte /\ 0 \in Word /\ NORMAL \in ResultCode
    BY DEF Byte, Word, NORMAL, ResultCode
  <2>2. NoSample \in Sample
    BY <2>1 DEF NoSample, Sample
  <2> QED
    BY <2>1, <2>2 DEF InitialStatus, Status
<1>3. SlaveTypeOK
  <2>1. line = <<>> /\ g_rx_buffer = <<>> /\ answer = <<>>
    BY DEF Init
  <2>2. 0 \in Byte /\ 0 \in 0 .. MAX_FRAMES /\ FAULT_GAP \in 0 .. FAULT_GAP
    BY LineAssumption DEF Byte
  <2>3. /\ line \in Seq(Byte) /\ g_rx_buffer \in Seq(Byte) /\ answer \in Seq(Byte)
        /\ Len(line) = 0 /\ Len(g_rx_buffer) = 0
    BY <2>1, EmptySeq
  <2>4. Len(line) <= SENSOR_PACKET_LEN /\ Len(g_rx_buffer) < SENSOR_PACKET_LEN
    BY <2>3 DEF SENSOR_PACKET_LEN
  <2>5. /\ rdr \in Byte /\ rx_flag \in BOOLEAN /\ busy \in BOOLEAN
        /\ answers \in Nat /\ accepted \in Nat
        /\ frames \in 0 .. MAX_FRAMES /\ clean \in 0 .. FAULT_GAP
    BY <2>2 DEF Init
  <2>6. status \in Status /\ frame \in Sample
    BY <1>2 DEF Init
  <2> QED
    BY <2>3, <2>4, <2>5, <2>6 DEF SlaveTypeOK
<1>4. BufferHoldsPrefix /\ AnswerParses
  BY DEF Init, BufferHoldsPrefix, AnswerParses
<1> QED
  BY <1>1, <1>3, <1>4 DEF SlaveInv, ParserInv

\* A byte leaves the line and stands in the receiver.
LEMMA ReceivePreserves ==
  ASSUME SlaveInv, NEW b \in Byte, Receive(b), clean' \in 0 .. FAULT_GAP
  PROVE  SlaveInv'
<1>1. ParserInv /\ WarningInv /\ SlaveTypeOK
  BY DEF SlaveInv, ParserInv
<1>2. WarningInv'
  BY <1>1, WarningUnchanged DEF Receive
<1>3. line' \in Seq(Byte) /\ Len(line') <= SENSOR_PACKET_LEN
  <2>1. /\ line \in Seq(Byte) /\ line # <<>> /\ line' = Tail(line)
        /\ Len(line) <= SENSOR_PACKET_LEN
    BY <1>1 DEF Receive, SlaveTypeOK
  <2>2. Tail(line) \in Seq(Byte) /\ Len(Tail(line)) = Len(line) - 1
    BY <2>1, HeadTailProperties
  <2>3. Len(line) \in Nat
    BY <2>1, LenProperties
  <2> QED
    BY <2>1, <2>2, <2>3 DEF SENSOR_PACKET_LEN
<1>4. SlaveTypeOK'
  BY <1>1, <1>3, SlaveUnchanged DEF Receive, SlaveTypeOK
<1> QED
  BY <1>1, <1>2, <1>4, SlaveUnchanged DEF Receive, SlaveInv, ParserInv

\* Every step of the line, of the slave and of its environment.
LEMMA SlaveNext == SlaveInv /\ [Next]_vars => SlaveInv'
<1> SUFFICES ASSUME SlaveInv, [Next]_vars PROVE SlaveInv'
  OBVIOUS
<1>1. ParserInv /\ WarningInv /\ SlaveTypeOK
  BY DEF SlaveInv, ParserInv
<1>2. ASSUME NEW s \in SentSamples, SendFrame(s) PROVE SlaveInv'
  <2>1. s \in Sample
    BY LineAssumption
  <2>2. /\ line' \in Seq(Byte) /\ Len(line') <= SENSOR_PACKET_LEN
        /\ frame' \in Sample
    <3>1. line' = BuildSensorPacket(s) /\ frame' = s
      BY <1>2 DEF SendFrame
    <3>2. /\ BuildSensorPacket(s) \in Seq(Byte)
          /\ Len(BuildSensorPacket(s)) = SENSOR_PACKET_LEN
      BY <2>1, SensorPacketType
    <3> QED
      BY <2>1, <3>1, <3>2 DEF SENSOR_PACKET_LEN
  <2>3. frames' \in 0 .. MAX_FRAMES
    <3>1. frames \in 0 .. MAX_FRAMES /\ frames < MAX_FRAMES /\ frames' = frames + 1
      BY <1>1, <1>2 DEF SlaveTypeOK, SendFrame
    <3> QED
      BY <3>1, LineAssumption
  <2>4. clean' \in 0 .. FAULT_GAP
    <3>1. /\ clean \in 0 .. FAULT_GAP
          /\ clean' = IF clean < FAULT_GAP THEN clean + 1 ELSE clean
      BY <1>1, <1>2 DEF SlaveTypeOK, SendFrame
    <3> QED
      BY <3>1, LineAssumption
  <2>5. WarningInv' /\ UNCHANGED slave_vars /\ UNCHANGED <<rdr, rx_flag>>
    BY <1>1, <1>2, WarningUnchanged DEF SendFrame
  <2>6. answers' \in Nat /\ accepted' \in Nat
    BY <1>2 DEF SendFrame
  <2>7. SlaveTypeOK'
    BY <1>1, <2>2, <2>3, <2>4, <2>5, <2>6, SlaveUnchanged DEF SlaveTypeOK
  <2> QED
    BY <1>1, <2>5, <2>7, SlaveUnchanged DEF SlaveInv, ParserInv
<1>3. CASE Arrive
  <2>1. line # <<>> /\ line \in Seq(Byte) /\ clean \in 0 .. FAULT_GAP
    BY <1>1, <1>3 DEF Arrive, Receive, SlaveTypeOK
  <2>2. Head(line) \in Byte
    BY <2>1, HeadTailProperties
  <2> QED
    BY <1>3, <2>1, <2>2, ReceivePreserves DEF Arrive
<1>4. CASE Damage
  <2>1. PICK b \in Damaged \ {Head(line)} : Receive(b)
    BY <1>4 DEF Damage
  <2>2. b \in Byte
    BY LineAssumption
  <2>3. clean' \in 0 .. FAULT_GAP
    BY <1>4, LineAssumption DEF Damage
  <2> QED
    BY <2>1, <2>2, <2>3, ReceivePreserves
<1>5. CASE Lose
  <2>1. line' \in Seq(Byte) /\ Len(line') <= SENSOR_PACKET_LEN
    <3>1. /\ line \in Seq(Byte) /\ line # <<>> /\ line' = Tail(line)
          /\ Len(line) <= SENSOR_PACKET_LEN
      BY <1>1, <1>5 DEF Lose, SlaveTypeOK
    <3>2. Tail(line) \in Seq(Byte) /\ Len(Tail(line)) = Len(line) - 1
      BY <3>1, HeadTailProperties
    <3>3. Len(line) \in Nat
      BY <3>1, LenProperties
    <3> QED
      BY <3>1, <3>2, <3>3 DEF SENSOR_PACKET_LEN
  <2>2. clean' \in 0 .. FAULT_GAP
    BY <1>5, LineAssumption DEF Lose
  <2>3. /\ WarningInv' /\ UNCHANGED slave_vars
        /\ UNCHANGED <<rdr, rx_flag, frame, frames, answers, accepted>>
    BY <1>1, <1>5, WarningUnchanged DEF Lose
  <2>4. SlaveTypeOK'
    BY <1>1, <2>1, <2>2, <2>3, SlaveUnchanged DEF SlaveTypeOK
  <2> QED
    BY <1>1, <2>3, <2>4, SlaveUnchanged DEF SlaveInv, ParserInv
<1>6. CASE Execute
  <2>1. rdr \in Byte
    BY <1>1 DEF SlaveTypeOK
  <2>2. ProcessReceivedByte(rdr)
    BY <1>6 DEF Execute, TakeByte
  <2>3. /\ WarningInv'
        /\ g_rx_buffer' \in Seq(Byte) /\ Len(g_rx_buffer') < SENSOR_PACKET_LEN
        /\ BufferHoldsPrefix'
        /\ status' \in Status /\ answer' \in Seq(Byte) /\ AnswerParses'
        /\ answers' \in Nat /\ accepted' \in Nat /\ busy' \in BOOLEAN
    BY <1>1, <2>1, <2>2, ReceivedPreserves
  <2>4. SlaveTypeOK'
    BY <1>1, <1>6, <2>3 DEF SlaveTypeOK, Execute, TakeByte
  <2> QED
    BY <2>3, <2>4 DEF SlaveInv, ParserInv
<1>7. CASE Finish
  <2>1. WarningInv'
    BY <1>1, <1>7, WarningUnchanged DEF Finish
  <2>2. SlaveTypeOK'
    BY <1>1, <1>7 DEF Finish, SlaveTypeOK
  <2>3. BufferHoldsPrefix' /\ AnswerParses'
    BY <1>1, <1>7 DEF Finish, ParserInv, BufferHoldsPrefix, AnswerParses
  <2> QED
    BY <2>1, <2>2, <2>3 DEF SlaveInv, ParserInv
<1>8. CASE Restart
  <2>1. PICK n \in 0 .. Len(line) : line' = SubSeq(line, n + 1, Len(line))
    BY <1>8 DEF Restart, EmptyReceiver
  <2>2. line \in Seq(Byte) /\ Len(line) <= 7 /\ Len(line) \in Nat
    BY <1>1, LenProperties DEF SlaveTypeOK, SENSOR_PACKET_LEN
  <2>3. line' \in Seq(Byte) /\ Len(line') <= SENSOR_PACKET_LEN
    <3>1. \A i \in n + 1 .. Len(line) : line[i] \in Byte
      BY <2>2, ElementOfSeq
    <3>2. /\ SubSeq(line, n + 1, Len(line)) \in Seq(Byte)
          /\ Len(SubSeq(line, n + 1, Len(line))) =
               IF n + 1 <= Len(line) THEN Len(line) - (n + 1) + 1 ELSE 0
      BY <2>2, <3>1, SubSeqProperties
    <3> QED
      BY <2>1, <2>2, <3>2 DEF SENSOR_PACKET_LEN
  <2>4. WarningInv'
    BY <1>8, ResetRestores DEF Restart, EmptyReceiver
  <2>5. /\ g_rx_buffer' = <<>> /\ answer' = <<>> /\ busy' = FALSE
        /\ status' = InitialStatus /\ rx_flag' = FALSE
        /\ clean' = 0
        /\ UNCHANGED <<rdr, frame, frames, answers, accepted>>
    BY <1>8 DEF Restart, EmptyReceiver
  <2>6. InitialStatus \in Status
    <3>1. 0 \in Byte /\ 0 \in Word /\ NORMAL \in ResultCode
      BY DEF Byte, Word, NORMAL, ResultCode
    <3>2. NoSample \in Sample
      BY <3>1 DEF NoSample, Sample
    <3> QED
      BY <3>1, <3>2 DEF InitialStatus, Status
  <2>7. /\ g_rx_buffer' \in Seq(Byte) /\ answer' \in Seq(Byte)
        /\ Len(g_rx_buffer') < SENSOR_PACKET_LEN
    BY <2>5, EmptySeq DEF SENSOR_PACKET_LEN
  <2>8. SlaveTypeOK'
    <3>1. clean' \in 0 .. FAULT_GAP
      BY <2>5, LineAssumption
    <3>2. busy' \in BOOLEAN /\ rx_flag' \in BOOLEAN /\ status' \in Status
      BY <2>5, <2>6
    <3> QED
      BY <1>1, <2>3, <2>5, <2>7, <3>1, <3>2 DEF SlaveTypeOK
  <2>9. BufferHoldsPrefix' /\ AnswerParses'
    BY <2>5 DEF BufferHoldsPrefix, AnswerParses
  <2> QED
    BY <2>4, <2>8, <2>9 DEF SlaveInv, ParserInv
<1>9. CASE UNCHANGED vars
  <2>1. WarningInv'
    BY <1>1, <1>9, WarningUnchanged DEF vars
  <2>2. SlaveTypeOK'
    BY <1>1, <1>9 DEF vars, SlaveTypeOK
  <2>3. BufferHoldsPrefix' /\ AnswerParses'
    BY <1>1, <1>9 DEF vars, ParserInv, BufferHoldsPrefix, AnswerParses
  <2> QED
    BY <2>1, <2>2, <2>3 DEF SlaveInv, ParserInv
<1>10. CASE ReadCollides
  <2>1. line' \in Seq(Byte) /\ Len(line') <= SENSOR_PACKET_LEN
    <3>1. /\ line \in Seq(Byte) /\ line # <<>> /\ line' = Tail(line)
          /\ Len(line) <= SENSOR_PACKET_LEN
      BY <1>1, <1>10 DEF ReadCollides, TakeByte, SlaveTypeOK
    <3>2. Tail(line) \in Seq(Byte) /\ Len(Tail(line)) = Len(line) - 1
      BY <3>1, HeadTailProperties
    <3>3. Len(line) \in Nat
      BY <3>1, LenProperties
    <3> QED
      BY <3>1, <3>2, <3>3 DEF SENSOR_PACKET_LEN
  <2>2. rdr' \in Byte
    <3>1. line \in Seq(Byte) /\ line # <<>> /\ rdr' = Head(line)
      BY <1>1, <1>10 DEF ReadCollides, TakeByte, SlaveTypeOK
    <3> QED
      BY <3>1, HeadTailProperties
  <2>3. /\ g_rx_buffer' \in Seq(Byte) /\ Len(g_rx_buffer') < SENSOR_PACKET_LEN
        /\ BufferHoldsPrefix'
    <3>1. CASE g_rx_buffer' = <<>>
      BY <3>1, EmptySeq DEF SENSOR_PACKET_LEN, BufferHoldsPrefix
    <3>2. CASE g_rx_buffer' = <<PACKET_START_BYTE>>
      <4>1. PACKET_START_BYTE \in Byte
        BY DEF PACKET_START_BYTE, Byte
      <4> QED
        BY <3>2, <4>1 DEF SENSOR_PACKET_LEN, BufferHoldsPrefix
    <3> QED
      BY <1>10, <3>1, <3>2 DEF ReadCollides, TakeByte, FirstByte
  <2>4. /\ WarningInv' /\ AnswerParses'
        /\ busy' \in BOOLEAN /\ rx_flag' \in BOOLEAN
        /\ UNCHANGED <<status, answer, frame, frames, clean, answers, accepted>>
    BY <1>1, <1>10, WarningUnchanged DEF ReadCollides, TakeByte, ParserInv, AnswerParses
  <2>5. SlaveTypeOK'
    BY <1>1, <2>1, <2>2, <2>3, <2>4 DEF SlaveTypeOK
  <2> QED
    BY <2>3, <2>4, <2>5 DEF SlaveInv, ParserInv
<1> QED
  BY <1>2, <1>3, <1>4, <1>5, <1>6, <1>7, <1>8, <1>9, <1>10 DEF Next, Stop

\* The slave's type invariant, whatever arrives on the line.
THEOREM SlaveTypeCorrect == Spec => []SlaveTypeOK
<1>1. SlaveInv => SlaveTypeOK
  BY DEF SlaveInv, ParserInv
<1> QED
  BY <1>1, SlaveInit, SlaveNext, PTL DEF Spec

\* The parser never holds anything but the beginning of a sensor packet, for
\* every stream of bytes.
THEOREM ParserHoldsPrefix == Spec => []BufferHoldsPrefix
<1>1. SlaveInv => BufferHoldsPrefix
  BY DEF SlaveInv, ParserInv
<1> QED
  BY <1>1, SlaveInit, SlaveNext, PTL DEF Spec

\* Every answer that leaves the slave is one that the master's parser reads
\* as the time and the code the slave recorded.
THEOREM AnswersAreReadable == Spec => []AnswerParses
<1>1. SlaveInv => AnswerParses
  BY DEF SlaveInv, ParserInv
<1> QED
  BY <1>1, SlaveInit, SlaveNext, PTL DEF Spec

\* The slave answers a warning exactly when the last WARN_LIMIT samples it
\* accepted met that condition, whatever else was on the line.
THEOREM SlaveConfirmsWarnings == Spec => []ConfirmedIffRepeated
<1>1. SlaveInv => ConfirmedIffRepeated
  BY InvariantDecides DEF SlaveInv
<1> QED
  BY <1>1, SlaveInit, SlaveNext, PTL DEF Spec

-----------------------------------------------------------------------------
(* The stream of packets.  With clean >= 1 no fault has come since the     *)
(* packet on the line began; with frames > 0 there is one.                 *)

Arrived == SENSOR_PACKET_LEN - Len(line)
Taken   == IF rx_flag THEN Arrived - 1 ELSE Arrived
OnLine  == BuildSensorPacket(frame)

\* The line and the receiver hold bytes of this packet, each in its place.
LineHolds ==
  /\ frame \in SentSamples
  /\ \A i \in 1 .. Len(line) : line[i] = OnLine[Arrived + i]
  /\ rx_flag => Arrived >= 1 /\ rdr = OnLine[Arrived]

\* The parser is at the start of this packet, or it still takes bytes of this
\* packet for the rest of an earlier one, or it has seen the end of one since
\* the packet began and nothing after it that could be a start.
Aligned == ~busy /\ Len(g_rx_buffer) = Taken
Completing ==
  /\ ~busy /\ Len(g_rx_buffer) > Taken
  /\ Len(g_rx_buffer) = Taken + 1 => Taken = 0
Drained == g_rx_buffer = <<>> /\ Taken >= 1

Unsent == line = <<>> /\ ~rx_flag /\ ~busy /\ g_rx_buffer = <<>>

StreamInv ==
  /\ busy => g_rx_buffer = <<>>
  /\ frames = 0 => Unsent
  /\ clean >= 1 /\ frames > 0 => LineHolds /\ (Aligned \/ Completing \/ Drained)

\* The first two bytes of every packet.
LEMMA PacketBegins ==
  ASSUME NEW s \in Sample
  PROVE  /\ BuildSensorPacket(s) \in Seq(Byte) /\ Len(BuildSensorPacket(s)) = 7
         /\ BuildSensorPacket(s)[1] = PACKET_START_BYTE
         /\ BuildSensorPacket(s)[2] = PACKET_TYPE_SENSOR
<1> DEFINE body == <<PACKET_START_BYTE, PACKET_TYPE_SENSOR, s.distance \div 256,
                     s.distance % 256, s.temperature, s.humidity>>
           c == CalcChecksum(body, 6)
<1>1. BuildSensorPacket(s) = Append(body, c)
  BY DEF BuildSensorPacket, SENSOR_PACKET_LEN
<1>2. /\ Append(body, c)[1] = PACKET_START_BYTE
      /\ Append(body, c)[2] = PACKET_TYPE_SENSOR
  <2> HIDE DEF c
  <2> QED
    OBVIOUS
<1> QED
  BY <1>1, <1>2, SensorPacketType, ZenonT(40) DEF SENSOR_PACKET_LEN

\* A fault or a restart only has to leave a busy slave with an empty buffer.
LEMMA FaultStream ==
  ASSUME SlaveInv, StreamInv, clean' = 0, busy' => g_rx_buffer' = <<>>,
         frames' = frames, frames = 0 => Unsent'
  PROVE  StreamInv'
BY DEF StreamInv

\* A step that changes nothing that the stream depends on.
LEMMA QuietStream ==
  ASSUME StreamInv, UNCHANGED <<line, rdr, rx_flag, g_rx_buffer, busy, frame, frames, clean>>
  PROVE  StreamInv'
BY DEF StreamInv, LineHolds, Aligned, Completing, Drained, Arrived, Taken, OnLine, Unsent

\* A packet that begins: what is left of the one before it is shorter than a
\* packet.
LEMMA SendStream ==
  ASSUME SlaveInv, StreamInv, NEW s \in SentSamples, SendFrame(s)
  PROVE  StreamInv'
<1>1. /\ g_rx_buffer \in Seq(Byte) /\ frames \in Nat
  BY DEF SlaveInv, ParserInv, SlaveTypeOK
<1>2. /\ ~busy /\ ~rx_flag /\ ~busy' /\ ~rx_flag' /\ g_rx_buffer' = g_rx_buffer
      /\ line' = BuildSensorPacket(s) /\ frame' = s /\ frames' = frames + 1
  BY <1>1 DEF SendFrame, Quiet, slave_vars
<1>3. Len(line') = 7
  BY <1>2, PacketBegins, LineAssumption
<1>4. Arrived' = 0 /\ Taken' = 0
  BY <1>2, <1>3 DEF Arrived, Taken, SENSOR_PACKET_LEN
<1>5. OnLine' = line'
  BY <1>2 DEF OnLine
<1>6. LineHolds'
  BY <1>2, <1>3, <1>4, <1>5 DEF LineHolds
<1>7. Len(g_rx_buffer') \in Nat
  BY <1>1, <1>2, LenProperties
<1>8. Aligned' \/ Completing'
  BY <1>2, <1>4, <1>7 DEF Aligned, Completing
<1> QED
  BY <1>1, <1>2, <1>6, <1>8 DEF StreamInv

\* What the packet on the line looks like.
LEMMA OnLineIs ==
  ASSUME LineHolds, OneStartByte
  PROVE  /\ OnLine \in Seq(Byte) /\ Len(OnLine) = 7
         /\ OnLine[1] = PACKET_START_BYTE /\ OnLine[2] = PACKET_TYPE_SENSOR
         /\ \A i \in 2 .. 7 : OnLine[i] # PACKET_START_BYTE
BY PacketBegins, LineAssumption DEF LineHolds, OneStartByte, OnLine, SENSOR_PACKET_LEN

\* How many bytes are on the line, have arrived and are in the buffer.
LEMMA LineLength ==
  ASSUME SlaveInv
  PROVE  /\ line \in Seq(Byte) /\ Len(line) \in 0 .. 7 /\ Arrived \in 0 .. 7
         /\ Arrived = 7 - Len(line)
         /\ g_rx_buffer \in Seq(Byte) /\ Len(g_rx_buffer) \in 0 .. 6
         /\ line # <<>> => /\ Tail(line) \in Seq(Byte) /\ Len(Tail(line)) = Len(line) - 1
                           /\ Len(line) >= 1 /\ Head(line) = line[1]
                           /\ \A i \in 1 .. Len(line) - 1 : Tail(line)[i] = line[i + 1]
<1>1. /\ line \in Seq(Byte) /\ Len(line) <= 7 /\ g_rx_buffer \in Seq(Byte)
      /\ Len(g_rx_buffer) < 7
  BY DEF SlaveInv, ParserInv, SlaveTypeOK, SENSOR_PACKET_LEN
<1>2. Len(line) \in Nat /\ Len(g_rx_buffer) \in Nat
  BY <1>1, LenProperties
<1>3. Arrived = 7 - Len(line)
  BY DEF Arrived, SENSOR_PACKET_LEN
<1>4. ASSUME line # <<>>
      PROVE  /\ Tail(line) \in Seq(Byte) /\ Len(Tail(line)) = Len(line) - 1
             /\ Len(line) >= 1 /\ Head(line) = line[1]
             /\ \A i \in 1 .. Len(line) - 1 : Tail(line)[i] = line[i + 1]
  BY <1>1, <1>2, <1>4
<1>5. Len(line) \in 0 .. 7 /\ Len(g_rx_buffer) \in 0 .. 6 /\ Arrived \in 0 .. 7
  <2> DEFINE k == Len(line)
             n == Len(g_rx_buffer)
  <2>1. k \in Nat /\ k <= 7 /\ n \in Nat /\ n < 7 /\ Arrived = 7 - k
    BY <1>1, <1>2, <1>3
  <2> HIDE DEF k, n, Arrived
  <2>2. k \in 0 .. 7 /\ n \in 0 .. 6 /\ Arrived \in 0 .. 7
    BY <2>1
  <2> QED
    BY <2>2 DEF k, n
<1> QED
  BY <1>1, <1>3, <1>4, <1>5

\* The next byte of the packet reaches the receiver.
LEMMA ArriveStream ==
  ASSUME SlaveInv, StreamInv, Arrive
  PROVE  StreamInv'
<1>1. /\ line # <<>> /\ (rx_flag => busy) /\ line' = Tail(line) /\ rdr' = Head(line)
      /\ rx_flag' /\ g_rx_buffer' = g_rx_buffer /\ busy' = busy /\ frame' = frame
      /\ frames' = frames /\ clean' = clean
  BY DEF Arrive, Receive, slave_vars
<1>2. frames # 0
  BY <1>1 DEF StreamInv, Unsent
<1>3. ASSUME clean >= 1, frames > 0
      PROVE  LineHolds' /\ (Aligned' \/ Completing' \/ Drained')
  <2>1. LineHolds /\ (Aligned \/ Completing \/ Drained)
    BY <1>3 DEF StreamInv
  <2>2. /\ Len(line') = Len(line) - 1 /\ Len(line) >= 1 /\ Len(line) \in 0 .. 7
        /\ \A i \in 1 .. Len(line) - 1 : line'[i] = line[i + 1]
        /\ rdr' = line[1] /\ Arrived = 7 - Len(line)
    BY <1>1, LineLength
  <2>3. Arrived' = Arrived + 1 /\ Arrived \in 0 .. 6 /\ OnLine' = OnLine /\ Taken' = Arrived
    <3>1. Arrived' = 7 - Len(line')
      BY DEF Arrived, SENSOR_PACKET_LEN
    <3>2. Arrived' = Arrived + 1 /\ Arrived \in 0 .. 6
      BY <2>2, <3>1, SMTT(40)
    <3>3. Taken' = Arrived' - 1
      BY <1>1 DEF Taken
    <3> QED
      BY <1>1, <3>2, <3>3 DEF OnLine
  <2>4. LineHolds'
    <3>1. \A i \in 1 .. Len(line) : line[i] = OnLine[Arrived + i]
      BY <2>1 DEF LineHolds
    <3>2. rdr' = OnLine[Arrived + 1]
      BY <2>2, <3>1
    <3>3. ASSUME NEW i \in 1 .. Len(line) - 1 PROVE line'[i] = OnLine[(Arrived + 1) + i]
      <4>1. i + 1 \in 1 .. Len(line) /\ Arrived + (i + 1) = (Arrived + 1) + i
        BY <2>2, <2>3
      <4> QED
        BY <2>2, <3>1, <4>1
    <3>4. frame' \in SentSamples
      BY <1>1, <2>1 DEF LineHolds
    <3>5. Arrived + 1 >= 1
      BY <2>3
    <3> HIDE DEF Arrived, OnLine
    <3> QED
      BY <2>2, <2>3, <3>2, <3>3, <3>4, <3>5 DEF LineHolds
  <2>5. CASE ~rx_flag
    <3>1. Taken' = Taken
      BY <2>3, <2>5 DEF Taken
    <3> QED
      BY <1>1, <2>1, <2>4, <3>1 DEF Aligned, Completing, Drained
  <2>6. CASE rx_flag
    <3>1. Drained /\ Taken = Arrived - 1
      BY <1>1, <2>1, <2>6 DEF Aligned, Completing, Taken
    <3>2. Taken' >= 1
      BY <2>3, <3>1 DEF Drained
    <3> QED
      BY <1>1, <2>4, <3>1, <3>2 DEF Drained
  <2> QED
    BY <2>5, <2>6
<1> QED
  BY <1>1, <1>2, <1>3 DEF StreamInv

\* The slave reads late: what it reads is not the start of this packet.
LEMMA CollideStream ==
  ASSUME SlaveInv, StreamInv, OneStartByte, ReadCollides
  PROVE  StreamInv'
<1>1. /\ busy /\ ~busy' /\ rx_flag /\ ~rx_flag' /\ line # <<>> /\ line' = Tail(line)
      /\ rdr' = Head(line) /\ g_rx_buffer' = FirstByte(rdr)
      /\ frame' = frame /\ frames' = frames /\ clean' = clean
  BY DEF ReadCollides, TakeByte
<1>2. frames # 0
  BY <1>1 DEF StreamInv, Unsent
<1>3. ASSUME clean >= 1, frames > 0 PROVE LineHolds' /\ Drained'
  <2>1. LineHolds /\ Drained
    BY <1>1, <1>3 DEF StreamInv, Aligned, Completing
  <2>2. /\ Len(line') = Len(line) - 1 /\ Len(line) >= 1 /\ Len(line) \in 0 .. 7
        /\ \A i \in 1 .. Len(line) - 1 : line'[i] = line[i + 1]
        /\ Arrived = 7 - Len(line)
    BY <1>1, LineLength
  <2>3. Arrived' = Arrived + 1 /\ Arrived \in 0 .. 6 /\ OnLine' = OnLine
        /\ Taken' = Arrived + 1 /\ Arrived >= 2
    <3>1. Arrived' = 7 - Len(line')
      BY DEF Arrived, SENSOR_PACKET_LEN
    <3>2. Arrived' = Arrived + 1 /\ Arrived \in 0 .. 6
      BY <2>2, <3>1
    <3>3. Taken' = Arrived'
      BY <1>1 DEF Taken
    <3>4. Arrived - 1 >= 1
      BY <1>1, <2>1 DEF Drained, Taken
    <3>5. Arrived >= 2
      BY <3>2, <3>4
    <3> QED
      BY <1>1, <3>2, <3>3, <3>5 DEF OnLine
  <2>4. LineHolds'
    <3>1. \A i \in 1 .. Len(line) : line[i] = OnLine[Arrived + i]
      BY <2>1 DEF LineHolds
    <3>3. ASSUME NEW i \in 1 .. Len(line) - 1 PROVE line'[i] = OnLine[(Arrived + 1) + i]
      <4>1. i + 1 \in 1 .. Len(line) /\ Arrived + (i + 1) = (Arrived + 1) + i
        BY <2>2, <2>3
      <4> QED
        BY <2>2, <3>1, <4>1
    <3>4. frame' \in SentSamples
      BY <1>1, <2>1 DEF LineHolds
    <3> HIDE DEF Arrived, OnLine
    <3> QED
      BY <1>1, <2>2, <2>3, <3>3, <3>4 DEF LineHolds
  <2>5. rdr # PACKET_START_BYTE
    <3>1. rdr = OnLine[Arrived] /\ Arrived \in 2 .. 7
      BY <1>1, <2>1, <2>3 DEF LineHolds
    <3> QED
      BY <2>1, <3>1, OnLineIs
  <2>6. g_rx_buffer' = <<>>
    BY <1>1, <2>5 DEF FirstByte
  <2>7. Taken' >= 1
    BY <2>3
  <2> QED
    BY <2>4, <2>6, <2>7 DEF Drained
<1> QED
  BY <1>1, <1>2, <1>3 DEF StreamInv

\* What becomes of the buffer when the byte b is read.
LEMMA BufferAfter ==
  ASSUME SlaveInv, NEW b, ProcessReceivedByte(b)
  PROVE  LET n == Len(g_rx_buffer)
         IN  \/ /\ n = 0 /\ busy' = busy
                /\ b = PACKET_START_BYTE /\ g_rx_buffer' = <<b>>
             \/ /\ n = 0 /\ busy' = busy
                /\ b # PACKET_START_BYTE /\ g_rx_buffer' = <<>>
             \/ /\ n = 1 /\ b # PACKET_TYPE_SENSOR /\ busy' = busy
                /\ b = PACKET_START_BYTE /\ g_rx_buffer' = <<b>>
             \/ /\ n = 1 /\ b # PACKET_TYPE_SENSOR /\ busy' = busy
                /\ b # PACKET_START_BYTE /\ g_rx_buffer' = <<>>
             \/ /\ n \in 1 .. 5 /\ ~(n = 1 /\ b # PACKET_TYPE_SENSOR) /\ busy' = busy
                /\ g_rx_buffer' = Append(g_rx_buffer, b)
             \/ n = 6 /\ g_rx_buffer' = <<>>
<1> DEFINE n == Len(g_rx_buffer)
<1>1. n \in 0 .. 6
  BY LineLength
<1>2. Completes(n) <=> n = 6
  <2>1. Completes(n) <=> n + 1 >= 7
    BY DEF Completes, SENSOR_PACKET_LEN
  <2> HIDE DEF n
  <2> QED
    BY <1>1, <2>1
<1>3. \/ n = 0 /\ g_rx_buffer' = FirstByte(b) /\ busy' = busy
      \/ n = 1 /\ b # PACKET_TYPE_SENSOR /\ g_rx_buffer' = WrongType(b) /\ busy' = busy
      \/ /\ n >= 1 /\ ~(n = 1 /\ b # PACKET_TYPE_SENSOR) /\ ~Completes(n)
         /\ g_rx_buffer' = Append(g_rx_buffer, b) /\ busy' = busy
      \/ Completes(n) /\ g_rx_buffer' = <<>>
  BY Zenon DEF ProcessReceivedByte, ParserAfterPacket
<1>4. /\ FirstByte(b) = IF b = PACKET_START_BYTE THEN <<b>> ELSE <<>>
      /\ WrongType(b) = IF b = PACKET_START_BYTE THEN <<b>> ELSE <<>>
  BY DEF FirstByte, WrongType
<1> HIDE DEF n
<1>5. n >= 1 /\ n # 6 => n \in 1 .. 5
  BY <1>1
<1>6. \/ /\ n = 0 /\ busy' = busy
         /\ b = PACKET_START_BYTE /\ g_rx_buffer' = <<b>>
      \/ /\ n = 0 /\ busy' = busy
         /\ b # PACKET_START_BYTE /\ g_rx_buffer' = <<>>
      \/ /\ n = 1 /\ b # PACKET_TYPE_SENSOR /\ busy' = busy
         /\ b = PACKET_START_BYTE /\ g_rx_buffer' = <<b>>
      \/ /\ n = 1 /\ b # PACKET_TYPE_SENSOR /\ busy' = busy
         /\ b # PACKET_START_BYTE /\ g_rx_buffer' = <<>>
      \/ /\ n \in 1 .. 5 /\ ~(n = 1 /\ b # PACKET_TYPE_SENSOR) /\ busy' = busy
         /\ g_rx_buffer' = Append(g_rx_buffer, b)
      \/ n = 6 /\ g_rx_buffer' = <<>>
  BY <1>2, <1>3, <1>4, <1>5
<1> QED
  BY <1>6 DEF n

\* A byte is read.
LEMMA ExecuteStream ==
  ASSUME SlaveInv, StreamInv, OneStartByte, Execute
  PROVE  StreamInv'
<1> DEFINE n == Len(g_rx_buffer)
<1>1. /\ ~busy /\ rx_flag /\ ~rx_flag' /\ line' = line /\ rdr' = rdr /\ frame' = frame
      /\ frames' = frames /\ clean' = clean
      /\ ProcessReceivedByte(rdr)
  BY DEF Execute, TakeByte
<1>2. frames # 0
  BY <1>1 DEF StreamInv, Unsent
<1>3. /\ n \in 0 .. 6 /\ g_rx_buffer \in Seq(Byte) /\ rdr \in Byte /\ Arrived \in 0 .. 7
  BY LineLength DEF SlaveInv, ParserInv, SlaveTypeOK
<1>4. /\ Len(Append(g_rx_buffer, rdr)) = n + 1 /\ Len(<<rdr>>) = 1
      /\ Len(<<>>) = 0
  BY <1>3, AppendProperties
<1>5. \/ /\ n = 0 /\ ~busy' /\ rdr = PACKET_START_BYTE /\ Len(g_rx_buffer') = 1
      \/ /\ n = 0 /\ ~busy' /\ rdr # PACKET_START_BYTE /\ g_rx_buffer' = <<>>
      \/ /\ n = 1 /\ rdr # PACKET_TYPE_SENSOR /\ ~busy'
         /\ rdr = PACKET_START_BYTE /\ Len(g_rx_buffer') = 1
      \/ /\ n = 1 /\ rdr # PACKET_TYPE_SENSOR /\ ~busy'
         /\ rdr # PACKET_START_BYTE /\ g_rx_buffer' = <<>>
      \/ /\ n \in 1 .. 5 /\ ~(n = 1 /\ rdr # PACKET_TYPE_SENSOR) /\ ~busy'
         /\ Len(g_rx_buffer') = n + 1
      \/ n = 6 /\ g_rx_buffer' = <<>>
  <2> DEFINE b == rdr
  <2>1. \/ /\ n = 0 /\ busy' = busy
           /\ b = PACKET_START_BYTE /\ g_rx_buffer' = <<b>>
        \/ /\ n = 0 /\ busy' = busy
           /\ b # PACKET_START_BYTE /\ g_rx_buffer' = <<>>
        \/ /\ n = 1 /\ b # PACKET_TYPE_SENSOR /\ busy' = busy
           /\ b = PACKET_START_BYTE /\ g_rx_buffer' = <<b>>
        \/ /\ n = 1 /\ b # PACKET_TYPE_SENSOR /\ busy' = busy
           /\ b # PACKET_START_BYTE /\ g_rx_buffer' = <<>>
        \/ /\ n \in 1 .. 5 /\ ~(n = 1 /\ b # PACKET_TYPE_SENSOR) /\ busy' = busy
           /\ g_rx_buffer' = Append(g_rx_buffer, b)
        \/ n = 6 /\ g_rx_buffer' = <<>>
    BY <1>1, BufferAfter
  <2> HIDE DEF n
  <2> QED
    BY <1>1, <1>4, <2>1
<1> HIDE DEF n
<1>6. ASSUME clean >= 1, frames > 0
      PROVE  LineHolds' /\ (Aligned' \/ Completing' \/ Drained')
  <2>1. LineHolds /\ (Aligned \/ Completing \/ Drained)
    BY <1>6 DEF StreamInv
  <2>2. /\ Arrived' = Arrived /\ OnLine' = OnLine /\ Taken = Arrived - 1
        /\ Taken' = Arrived /\ rdr = OnLine[Arrived] /\ Arrived \in 1 .. 7
    <3>1. Arrived' = Arrived /\ OnLine' = OnLine
      BY <1>1 DEF Arrived, OnLine
    <3>2. Taken = Arrived - 1 /\ Taken' = Arrived'
      BY <1>1 DEF Taken
    <3>3. rdr = OnLine[Arrived] /\ Arrived >= 1
      BY <1>1, <2>1 DEF LineHolds
    <3> QED
      BY <1>3, <3>1, <3>2, <3>3
  <2>3. LineHolds'
    BY <1>1, <2>1, <2>2 DEF LineHolds
  <2>4. /\ OnLine[1] = PACKET_START_BYTE /\ OnLine[2] = PACKET_TYPE_SENSOR
        /\ \A i \in 2 .. 7 : OnLine[i] # PACKET_START_BYTE
    BY <2>1, OnLineIs
  <2>5. PACKET_START_BYTE # PACKET_TYPE_SENSOR
    BY DEF PACKET_START_BYTE, PACKET_TYPE_SENSOR
  <2> HIDE DEF Arrived, OnLine, Taken
  <2>6. CASE Aligned
    <3>1. n = Arrived - 1
      BY <2>2, <2>6 DEF Aligned, n
    <3>2. CASE n = 0
      <4>1. rdr = PACKET_START_BYTE
        BY <2>2, <2>4, <3>1, <3>2
      <4>2. Len(g_rx_buffer') = 1 /\ ~busy' /\ Taken' = 1
        BY <1>5, <2>2, <3>1, <3>2, <4>1
      <4> QED
        BY <2>3, <4>2 DEF Aligned
    <3>3. CASE n \in 1 .. 5
      <4>1. ~(n = 1 /\ rdr # PACKET_TYPE_SENSOR)
        BY <2>2, <2>4, <3>1
      <4>2. Len(g_rx_buffer') = n + 1 /\ ~busy' /\ Taken' = n + 1
        BY <1>5, <2>2, <3>1, <3>3, <4>1
      <4> QED
        BY <2>3, <4>2 DEF Aligned
    <3>4. CASE n = 6
      <4>1. g_rx_buffer' = <<>> /\ Taken' >= 1
        BY <1>5, <2>2, <3>1, <3>4
      <4> QED
        BY <2>3, <4>1 DEF Drained
    <3> QED
      BY <1>3, <3>2, <3>3, <3>4
  <2>7. CASE Completing
    <3>1. n > Arrived - 1 /\ (n = Arrived => Arrived = 1)
      BY <2>2, <2>7 DEF Completing, n
    <3>2. CASE n = 1
      <4>1. Arrived = 1 /\ rdr = PACKET_START_BYTE
        BY <2>2, <2>4, <3>1, <3>2
      <4>2. Len(g_rx_buffer') = 1 /\ ~busy' /\ Taken' = 1
        BY <1>5, <2>2, <2>5, <3>2, <4>1
      <4> QED
        BY <2>3, <4>2 DEF Aligned
    <3>3. CASE n \in 2 .. 5
      <4>1. Len(g_rx_buffer') = n + 1 /\ ~busy' /\ Taken' = Arrived
        BY <1>5, <2>2, <3>3
      <4>2. n + 1 > Arrived /\ n + 1 # Arrived + 1
        BY <2>2, <3>1, <3>3
      <4> QED
        BY <2>3, <4>1, <4>2 DEF Completing
    <3>4. CASE n = 6
      <4>1. g_rx_buffer' = <<>> /\ Taken' >= 1
        BY <1>5, <2>2, <3>4
      <4> QED
        BY <2>3, <4>1 DEF Drained
    <3>5. n # 0
      BY <2>2, <3>1
    <3> QED
      BY <1>3, <3>2, <3>3, <3>4, <3>5
  <2>8. CASE Drained
    <3>1. n = 0 /\ Arrived \in 2 .. 7
      BY <1>4, <2>2, <2>8 DEF Drained, n
    <3>2. rdr # PACKET_START_BYTE
      BY <2>2, <2>4, <3>1
    <3>3. g_rx_buffer' = <<>> /\ Taken' >= 1
      BY <1>5, <2>2, <3>1, <3>2
    <3> QED
      BY <2>3, <3>3 DEF Drained
  <2> QED
    BY <2>1, <2>6, <2>7, <2>8
<1>7. busy' => g_rx_buffer' = <<>>
  BY <1>5
<1> QED
  BY <1>1, <1>2, <1>6, <1>7 DEF StreamInv

\* Every step keeps the stream's invariant, if no packet has a second start
\* byte.
LEMMA StreamNext ==
  ASSUME SlaveInv, StreamInv, OneStartByte, [Next]_vars
  PROVE  StreamInv'
<1>1. ASSUME NEW s \in SentSamples, SendFrame(s) PROVE StreamInv'
  BY <1>1, SendStream
<1>2. CASE Arrive
  BY <1>2, ArriveStream
<1>3. CASE ReadCollides
  BY <1>3, CollideStream
<1>4. CASE Execute
  BY <1>4, ExecuteStream
<1>5. CASE Finish
  <2>1. /\ UNCHANGED <<line, rdr, rx_flag, g_rx_buffer, frame, frames, clean>>
        /\ busy /\ ~busy'
    BY <1>5 DEF Finish
  <2>2. Arrived' = Arrived /\ Taken' = Taken /\ OnLine' = OnLine
    BY <2>1 DEF Arrived, Taken, OnLine
  <2>3. LineHolds => LineHolds'
    BY <2>1, <2>2 DEF LineHolds
  <2> QED
    BY <2>1, <2>2, <2>3 DEF StreamInv, Aligned, Completing, Drained, Unsent
<1>6. CASE Damage \/ Lose
  <2>1. /\ clean' = 0 /\ line # <<>> /\ busy' = busy /\ g_rx_buffer' = g_rx_buffer
        /\ frames' = frames
    BY <1>6 DEF Damage, Lose, Receive, slave_vars
  <2> QED
    BY <2>1, FaultStream DEF StreamInv, Unsent
<1>7. CASE Restart
  <2>1. /\ clean' = 0 /\ ~busy' /\ g_rx_buffer' = <<>> /\ frames' = frames /\ ~rx_flag'
    BY <1>7 DEF Restart, EmptyReceiver
  <2>2. frames = 0 => line' = <<>>
    <3> SUFFICES ASSUME frames = 0 PROVE line' = <<>>
      OBVIOUS
    <3>1. line = <<>>
      BY DEF StreamInv, Unsent
    <3>2. PICK k \in 0 .. Len(line) : line' = SubSeq(line, k + 1, Len(line))
      BY <1>7 DEF Restart, EmptyReceiver
    <3>3. Len(line) = 0 /\ k = 0
      BY <3>1, <3>2
    <3> QED
      BY <3>1, <3>2, <3>3
  <2> QED
    BY <2>1, <2>2, FaultStream DEF Unsent
<1>8. CASE Stop \/ UNCHANGED vars
  <2>1. UNCHANGED <<line, rdr, rx_flag, g_rx_buffer, busy, frame, frames, clean>>
    BY <1>8 DEF Stop, vars
  <2> QED
    BY <2>1, QuietStream
<1> QED
  BY <1>1, <1>2, <1>3, <1>4, <1>5, <1>6, <1>7, <1>8 DEF Next

\* Nothing has been sent at first.
LEMMA StreamInit == Init => StreamInv
BY DEF Init, StreamInv, Unsent

\* The invariant decides the property: a packet without a fault leaves an
\* empty buffer.
LEMMA StreamRecovers == ASSUME SlaveInv, StreamInv PROVE Resynchronises
<1> SUFFICES ASSUME OneStartByte, Quiet, clean >= 1, frames > 0
             PROVE  g_rx_buffer = <<>>
  BY DEF Resynchronises
<1>1. line = <<>> /\ ~rx_flag
  BY DEF Quiet
<1>2. Arrived = 7 /\ Taken = 7
  BY <1>1 DEF Arrived, Taken, SENSOR_PACKET_LEN
<1>3. Len(g_rx_buffer) \in 0 .. 6
  BY LineLength
<1>4. ~(Len(g_rx_buffer) = Taken) /\ ~(Len(g_rx_buffer) > Taken)
  <2> DEFINE n == Len(g_rx_buffer)
  <2> HIDE DEF n
  <2>1. n \in 0 .. 6
    BY <1>3 DEF n
  <2>2. ~(n = Taken) /\ ~(n > Taken)
    BY <1>2, <2>1
  <2> QED
    BY <2>2 DEF n
<1> QED
  BY <1>4 DEF StreamInv, Aligned, Completing, Drained

\* After one packet without a fault the parser stands at the start of a
\* packet, for every set of samples whose packets have one start byte.
THEOREM StreamResynchronises == Spec => []Resynchronises
<1>1. CASE OneStartByte
  <2>1. SlaveInv /\ SlaveInv' /\ StreamInv /\ [Next]_vars => StreamInv'
    BY <1>1, StreamNext
  <2>2. SlaveInv /\ StreamInv => Resynchronises
    BY StreamRecovers
  <2> QED
    BY <2>1, <2>2, StreamInit, SlaveInit, SlaveNext, PTL DEF Spec
<1>2. CASE ~OneStartByte
  <2>1. Resynchronises
    BY <1>2 DEF Resynchronises
  <2> QED
    BY <2>1, PTL
<1> QED
  BY <1>1, <1>2

-----------------------------------------------------------------------------
(* The bytes on the two lines.                                             *)

\* A byte of which only the k low bits went out is a byte.
LEMMA CutByteIsByte ==
  ASSUME NEW h \in Byte, NEW k \in 0 .. 7
  PROVE  (h % 2^k) + 256 - 2^k \in Byte
<1> DEFINE Ones(m) == (h % m) + 256 - m
           power == 2^k
<1>1. power \in {1, 2, 4, 8, 16, 32, 64, 128}
  <2>1. CASE k = 0
    <3>1. 2^0 = 1
      OBVIOUS
    <3> QED
      BY <2>1, <3>1, Zenon
  <2>2. CASE k = 1
    <3>1. 2^1 = 2
      OBVIOUS
    <3> QED
      BY <2>2, <3>1, Zenon
  <2>3. CASE k = 2
    <3>1. 2^2 = 4
      OBVIOUS
    <3> QED
      BY <2>3, <3>1, Zenon
  <2>4. CASE k = 3
    <3>1. 2^3 = 8
      OBVIOUS
    <3> QED
      BY <2>4, <3>1, Zenon
  <2>5. CASE k = 4
    <3>1. 2^4 = 16
      OBVIOUS
    <3> QED
      BY <2>5, <3>1, Zenon
  <2>6. CASE k = 5
    <3>1. 2^5 = 32
      OBVIOUS
    <3> QED
      BY <2>6, <3>1, Zenon
  <2>7. CASE k = 6
    <3>1. 2^6 = 64
      OBVIOUS
    <3> QED
      BY <2>7, <3>1, Zenon
  <2>8. CASE k = 7
    <3>1. 2^7 = 128
      OBVIOUS
    <3> QED
      BY <2>8, <3>1, Zenon
  <2> QED
    BY <2>1, <2>2, <2>3, <2>4, <2>5, <2>6, <2>7, <2>8
<1>2. \A m \in {1, 2, 4, 8, 16, 32, 64, 128} : Ones(m) \in Byte
  <2>1. /\ Ones(1) \in Byte /\ Ones(2) \in Byte /\ Ones(4) \in Byte
        /\ Ones(8) \in Byte /\ Ones(16) \in Byte /\ Ones(32) \in Byte
        /\ Ones(64) \in Byte /\ Ones(128) \in Byte
    BY DEF Byte
  <2> HIDE DEF Ones
  <2> QED
    BY <2>1, Zenon
<1> HIDE DEF Ones, power
<1>3. Ones(power) \in Byte
  BY <1>1, <1>2, Zenon
<1> QED
  BY <1>3 DEF Ones, power

\* What a reset leaves of the bytes on their way is one byte at the most.
LEMMA CutIsBytes ==
  ASSUME NEW bytes \in Seq(Byte), NEW rest \in Cut(bytes)
  PROVE  rest \in Seq(Byte) /\ Len(rest) <= 1
<1>1. CASE rest = <<>>
  BY <1>1, EmptySeq
<1>2. CASE rest # <<>>
  <2>1. bytes # <<>>
    BY <1>2 DEF Cut
  <2>2. PICK k \in 0 .. 7 : rest = <<(Head(bytes) % 2^k) + 256 - 2^k>>
    BY <1>2, <2>1 DEF Cut
  <2>3. Head(bytes) \in Byte
    BY <2>1, HeadTailProperties
  <2>4. (Head(bytes) % 2^k) + 256 - 2^k \in Byte
    BY <2>3, CutByteIsByte
  <2> QED
    BY <2>2, <2>4
<1> QED
  BY <1>1, <1>2

\* The line to the slave holds no more after a cut than before.
LEMMA CutIsShort ==
  ASSUME NEW bytes \in Seq(Byte), NEW rest \in Cut(bytes)
  PROVE  Len(rest) <= Len(bytes)
<1>1. CASE bytes = <<>>
  BY <1>1, EmptySeq DEF Cut
<1>2. CASE bytes # <<>>
  <2>1. Len(bytes) \in Nat /\ Len(bytes) # 0
    BY <1>2, LenProperties, EmptySeq
  <2>2. Len(rest) <= 1 /\ Len(rest) \in Nat
    BY CutIsBytes, LenProperties
  <2> QED
    BY <2>1, <2>2
<1> QED
  BY <1>1, <1>2

-----------------------------------------------------------------------------
(* The slave inside the exchange.                                          *)

\* What a fault on the way back to the master leaves of the slave's state.
BackFault ==
  /\ clean' = 0
  /\ UNCHANGED <<line, rdr, rx_flag, slave_vars, frame, frames, answers,
                 accepted, warning_vars>>

\* Every step of the exchange is a step of the slave and its line, or the
\* reset of the master, which cuts off what is on the line, or a fault on the
\* other line.
LEMMA ExchangeStepsSlave ==
  [NextExchange]_exchange_vars => [Next]_vars \/ MasterRestart \/ BackFault
<1> SUFFICES ASSUME [NextExchange]_exchange_vars
             PROVE  [Next]_vars \/ MasterRestart \/ BackFault
  OBVIOUS
<1>1. ASSUME NEW s \in SentSamples, BeginExchange(s) PROVE Next
  BY <1>1 DEF BeginExchange, Next
<1>2. CASE RecvByte \/ RecvTimeout
  BY <1>2 DEF RecvByte, RecvTimeout
<1>3. CASE SlaveExecute
  BY <1>3 DEF SlaveExecute, Next
<1>4. CASE SlaveFinish
  BY <1>4 DEF SlaveFinish, Next
<1>5. CASE SlaveRestart
  BY <1>5 DEF SlaveRestart, Next
<1>6. CASE (Arrive \/ Damage \/ Lose) /\ KeepsPace
  BY <1>6 DEF Next
<1>7. CASE BackArrive
  BY <1>7 DEF BackArrive, ReceiveBack, TakeBack, slave_vars, vars
<1>8. CASE BackDamage \/ BackLose
  <2>1. clean' = 0 /\ TakeBack
    BY <1>8 DEF BackDamage, BackLose, ReceiveBack
  <2> QED
    BY <2>1 DEF TakeBack, BackFault
<1>9. CASE StopExchange \/ UNCHANGED exchange_vars
  BY <1>9 DEF StopExchange, exchange_vars
<1>10. CASE SlaveReadCollides
  BY <1>10 DEF SlaveReadCollides, Next
<1> QED
  BY <1>1, <1>2, <1>3, <1>4, <1>5, <1>6, <1>7, <1>8, <1>9, <1>10 DEF NextExchange

\* The slave's invariant is kept by every step of the exchange.
LEMMA SlaveInExchange ==
  SlaveInv /\ [NextExchange]_exchange_vars => SlaveInv'
<1> SUFFICES ASSUME SlaveInv, [NextExchange]_exchange_vars PROVE SlaveInv'
  OBVIOUS
<1>1. ParserInv /\ WarningInv /\ SlaveTypeOK /\ BufferHoldsPrefix /\ AnswerParses
  BY DEF SlaveInv, ParserInv
<1>2. CASE [Next]_vars
  BY <1>2, SlaveNext
<1>3. CASE MasterRestart \/ BackFault
  <2>1. /\ UNCHANGED <<rdr, rx_flag, frame, frames, answers, accepted>>
        /\ UNCHANGED slave_vars /\ UNCHANGED warning_vars
    BY <1>3 DEF MasterRestart, BackFault
  <2>2. line' \in Seq(Byte) /\ Len(line') <= SENSOR_PACKET_LEN
    <3>1. line \in Seq(Byte) /\ Len(line) <= SENSOR_PACKET_LEN
      BY <1>1 DEF SlaveTypeOK
    <3>2. CASE BackFault
      BY <3>1, <3>2 DEF BackFault
    <3>3. CASE MasterRestart
      <4>1. line' \in Cut(line)
        BY <3>3 DEF MasterRestart
      <4>2. line' \in Seq(Byte) /\ Len(line') <= Len(line)
        BY <3>1, <4>1, CutIsBytes, CutIsShort
      <4>3. Len(line') \in Nat /\ Len(line) \in Nat
        BY <3>1, <4>2, LenProperties
      <4> QED
        BY <3>1, <4>2, <4>3 DEF SENSOR_PACKET_LEN
    <3> QED
      BY <1>3, <3>2, <3>3
  <2>3. clean' \in 0 .. FAULT_GAP
    <3>1. clean' = 0
      BY <1>3 DEF MasterRestart, BackFault
    <3> QED
      BY <3>1, LineAssumption
  <2>4. WarningInv'
    BY <1>1, <2>1, WarningUnchanged
  <2>5. SlaveTypeOK'
    BY <1>1, <2>1, <2>2, <2>3, SlaveUnchanged DEF SlaveTypeOK
  <2> QED
    BY <1>1, <2>1, <2>4, <2>5, SlaveUnchanged DEF SlaveInv, ParserInv
<1> QED
  BY <1>2, <1>3, ExchangeStepsSlave

\* Both boards start with nothing on the lines.
LEMMA ExchangeInit == InitExchange => SlaveInv
BY SlaveInit DEF InitExchange

-----------------------------------------------------------------------------
(* What the slave promises the master.                                     *)

\* The slave's invariant holds throughout.
LEMMA SlaveInvariance == SpecExchange => []SlaveInv
BY ExchangeInit, SlaveInExchange, PTL DEF SpecExchange

\* Whatever the master's resets and the line make of the bytes, the slave's
\* buffer holds the beginning of a sensor packet.
THEOREM BufferAlwaysPrefix == SpecExchange => []BufferHoldsPrefix
<1>1. SlaveInv => BufferHoldsPrefix
  BY DEF SlaveInv, ParserInv
<1> QED
  BY <1>1, SlaveInvariance, PTL

\* Every answer that the slave sends off whole is one that the master's
\* parser reads as what the slave recorded.
THEOREM AnswersAlwaysReadable == SpecExchange => []AnswerParses
<1>1. SlaveInv => AnswerParses
  BY DEF SlaveInv, ParserInv
<1> QED
  BY <1>1, SlaveInvariance, PTL

\* In the exchange with the master, too, the slave answers a warning exactly
\* when the last WARN_LIMIT samples that it accepted met that condition.
THEOREM ExchangeConfirmsWarnings == SpecExchange => []ConfirmedIffRepeated
<1>1. SlaveInv => ConfirmedIffRepeated
  BY InvariantDecides DEF SlaveInv
<1> QED
  BY <1>1, SlaveInvariance, PTL

\* The slave's warning counter moves only with a sample it accepts, whatever
\* the master and the lines do.
THEOREM OnlyAcceptedCount == SpecExchange => OnlyAcceptedSamplesCount
<1> DEFINE Counted ==
      UNCHANGED warning_vars \/ status'.packet_ok_count # status.packet_ok_count
        \/ status' = InitialStatus
<1>1. SlaveInv /\ [NextExchange]_exchange_vars => [Counted]_vars
  <2> SUFFICES ASSUME SlaveInv, [NextExchange]_exchange_vars PROVE Counted
    OBVIOUS
  <2>1. CASE Next
    <3>1. CASE Execute
      <4>1. ProcessReceivedByte(rdr) /\ status \in Status
        BY <3>1 DEF Execute, TakeByte, SlaveInv, ParserInv, SlaveTypeOK
      <4>2. CASE ProcessCompletedPacket(Append(g_rx_buffer, rdr))
        <5> DEFINE parsed == ParseSensorPacket(Append(g_rx_buffer, rdr))
                   counted == [status EXCEPT !.packet_ok_count = @ + 1,
                                             !.last_sensor = parsed.sample]
        <5>1. CASE parsed.ok
          <6>1. SendResultPacket(counted, verdict')
            BY <4>2, <5>1 DEF ProcessCompletedPacket
          <6>2. status'.packet_ok_count = status.packet_ok_count + 1
            BY <4>1, <6>1 DEF SendResultPacket, AfterAnswer, Status
          <6>3. status.packet_ok_count \in Nat
            BY <4>1 DEF Status
          <6> QED
            BY <6>2, <6>3
        <5>2. CASE ~parsed.ok
          BY <4>2, <5>2 DEF ProcessCompletedPacket
        <5> QED
          BY <5>1, <5>2
      <4>3. CASE UNCHANGED warning_vars
        BY <4>3
      <4> QED
        BY <4>1, <4>2, <4>3 DEF ProcessReceivedByte
    <3>2. CASE Restart
      BY <3>2 DEF Restart, EmptyReceiver
    <3>3. CASE ~Execute /\ ~Restart
      BY <2>1, <3>3 DEF Next, SendFrame, Arrive, ReadCollides, Damage, Lose,
                        Receive, Finish, Stop, vars
    <3> QED
      BY <3>1, <3>2, <3>3
  <2>2. CASE UNCHANGED vars
    BY <2>2 DEF vars
  <2>3. CASE MasterRestart \/ BackFault
    BY <2>3 DEF MasterRestart, BackFault
  <2> QED
    BY <2>1, <2>2, <2>3, ExchangeStepsSlave
<1> HIDE DEF Counted
<1>2. SpecExchange => [][Counted]_vars
  BY <1>1, SlaveInvariance, PTL DEF SpecExchange
<1>3. OnlyAcceptedSamplesCount <=> [][Counted]_vars
  BY DEF OnlyAcceptedSamplesCount, Counted
<1> QED
  BY <1>2, <1>3

-----------------------------------------------------------------------------
(* The master's types.                                                     *)

MasterTypeOK ==
  /\ back \in Seq(Byte) /\ Len(back) <= RESULT_PACKET_LEN
  /\ lead \in 0 .. 2
  /\ m_rdr \in Byte /\ m_rx_flag \in BOOLEAN
  /\ exchange \in {"idle", "running"} /\ outcome \in {"none", "ok", "failed"}
  /\ result_packet \in Seq(Byte)
  /\ exchange = "running" => Len(result_packet) < RESULT_PACKET_LEN
  /\ outcome = "ok" => Len(result_packet) = RESULT_PACKET_LEN
  /\ current_result \in Result
  /\ reply \in [result : Result, sample : Sample, accepted : BOOLEAN]

\* The exchange's type invariant is the slave's and the master's.
LEMMA TypeParts == ExchangeTypeOK <=> SlaveTypeOK /\ MasterTypeOK
BY Zenon DEF ExchangeTypeOK, MasterTypeOK

\* The values that stand for no sample and no result have their types.
LEMMA NothingTypes == NoResult \in Result /\ NoSample \in Sample /\ 0 \in Byte
<1>1. 0 \in Byte /\ 0 \in Word /\ NORMAL \in ResultCode
  BY DEF Byte, Word, NORMAL, ResultCode
<1> QED
  BY <1>1 DEF NoResult, NoSample, Result, Sample

\* An empty packet is a packet that has only just begun.
LEMMA NothingSent ==
  <<>> \in Seq(Byte) /\ Len(<<>>) < RESULT_PACKET_LEN /\ Len(<<>>) <= RESULT_PACKET_LEN
BY DEF RESULT_PACKET_LEN

\* The master's variables start with their types.
LEMMA MasterInit == InitExchange => MasterTypeOK
<1> SUFFICES ASSUME InitExchange PROVE MasterTypeOK
  OBVIOUS
<1>1. /\ back = <<>> /\ lead = 0 /\ m_rdr = 0 /\ m_rx_flag = FALSE
      /\ exchange = "idle" /\ outcome = "none" /\ result_packet = <<>>
      /\ current_result = NoResult /\ reply = NoReply
  BY DEF InitExchange
<1>2. NoReply \in [result : Result, sample : Sample, accepted : BOOLEAN]
  BY NothingTypes DEF NoReply
<1>3. lead \in 0 .. 2
  BY <1>1
<1> QED
  BY <1>1, <1>2, <1>3, NothingTypes, NothingSent, Zenon DEF MasterTypeOK

\* A result packet is six bytes.
LEMMA ResultPacketLength ==
  ASSUME NEW r \in Result
  PROVE  BuildResultPacket(r) \in Seq(Byte) /\ Len(BuildResultPacket(r)) = 6
<1>1. ParseResultPacket(BuildResultPacket(r)) = [ok |-> TRUE, result |-> r]
  BY ResultPacketRoundTrip
<1>2. ParseResultPacket(BuildResultPacket(r)).ok
  BY <1>1
<1>3. Len(BuildResultPacket(r)) = 6
  BY <1>2, Zenon DEF ParseResultPacket, RESULT_PACKET_LEN
<1> QED
  BY <1>3, ResultPacketType

\* What is taken out of an accepted answer is a result.
LEMMA ParsedIsResult ==
  ASSUME NEW raw \in Seq(Byte), ParseResultPacket(raw).ok
  PROVE  ParseResultPacket(raw).result \in Result
<1>1. Len(raw) = 6 /\ raw[5] \in ResultCode
  BY DEF ParseResultPacket, RESULT_PACKET_LEN
<1>2. raw[3] \in Byte /\ raw[4] \in Byte
  <2>1. \A i \in 1 .. 6 : raw[i] \in Byte
    BY <1>1, ElementOfSeq
  <2> QED
    BY <2>1
<1> QED
  BY <1>1, <1>2 DEF ParseResultPacket, Result

\* The length of a non-empty line and of what is left of it.
LEMMA BackLength ==
  ASSUME MasterTypeOK
  PROVE  /\ Len(back) \in 0 .. 6 /\ Len(result_packet) \in Nat
         /\ back # <<>> => /\ Tail(back) \in Seq(Byte) /\ Len(Tail(back)) = Len(back) - 1
                           /\ Len(back) >= 1 /\ Head(back) = back[1] /\ Head(back) \in Byte
                           /\ \A i \in 1 .. Len(back) - 1 : Tail(back)[i] = back[i + 1]
<1>1. back \in Seq(Byte) /\ Len(back) <= 6 /\ result_packet \in Seq(Byte)
  BY DEF MasterTypeOK, RESULT_PACKET_LEN
<1>2. Len(back) \in Nat /\ Len(result_packet) \in Nat
  BY <1>1, LenProperties
<1>3. ASSUME back # <<>>
      PROVE  /\ Tail(back) \in Seq(Byte) /\ Len(Tail(back)) = Len(back) - 1
             /\ Len(back) >= 1 /\ Head(back) = back[1]
             /\ \A i \in 1 .. Len(back) - 1 : Tail(back)[i] = back[i + 1]
  BY <1>1, <1>2, <1>3
<1>4. back # <<>> => Head(back) \in Byte
  BY <1>1, HeadTailProperties
<1>5. Len(back) \in 0 .. 6
  <2> DEFINE k == Len(back)
  <2>1. k \in Nat /\ k <= 6
    BY <1>1, <1>2
  <2> HIDE DEF k
  <2>2. k \in 0 .. 6
    BY <2>1
  <2> QED
    BY <2>2 DEF k
<1> QED
  BY <1>2, <1>3, <1>4, <1>5

\* A byte leaves the line to the master.
LEMMA TakeBackType ==
  ASSUME MasterTypeOK, TakeBack
  PROVE  /\ back' \in Seq(Byte) /\ Len(back') <= RESULT_PACKET_LEN /\ lead' \in 0 .. 2
<1>1. back' = Tail(back) /\ back # <<>> /\ lead \in 0 .. 2
      /\ \/ lead > 0 /\ lead' = lead - 1
         \/ lead' = lead
  BY DEF TakeBack, MasterTypeOK
<1>2. lead' \in 0 .. 2
  BY <1>1
<1>3. back' \in Seq(Byte) /\ Len(back') = Len(back) - 1 /\ Len(back) \in 0 .. 6
  BY <1>1, BackLength
<1>4. Len(back') <= RESULT_PACKET_LEN
  BY <1>3, SMTT(40) DEF RESULT_PACKET_LEN
<1> QED
  BY <1>2, <1>3, <1>4

\* The master stores a byte of the answer.
LEMMA RecvByteType ==
  ASSUME MasterTypeOK, RecvByte
  PROVE  MasterTypeOK'
<1> DEFINE raw == Append(result_packet, m_rdr)
<1>1. /\ exchange = "running" /\ m_rx_flag' = FALSE /\ m_rdr' = m_rdr /\ reply' = reply
      /\ back' = back /\ lead' = lead /\ result_packet' = raw
      /\ \/ IsWhole(raw) /\ Accept(raw)
         \/ ~IsWhole(raw) /\ UNCHANGED <<exchange, outcome, current_result>>
  BY DEF RecvByte, Receiving, answer_line
<1>2. /\ result_packet \in Seq(Byte) /\ m_rdr \in Byte /\ Len(result_packet) < 6
      /\ outcome # "ok" /\ current_result \in Result
      /\ outcome \in {"none", "ok", "failed"}
  <2>1. /\ result_packet \in Seq(Byte) /\ m_rdr \in Byte /\ Len(result_packet) < 6
        /\ outcome = "ok" => Len(result_packet) = 6
        /\ current_result \in Result /\ outcome \in {"none", "ok", "failed"}
    BY <1>1 DEF MasterTypeOK, RESULT_PACKET_LEN
  <2>2. Len(result_packet) \in Nat
    BY <2>1, LenProperties
  <2>3. ~(Len(result_packet) = 6)
    <3> DEFINE k == Len(result_packet)
    <3>1. k \in Nat /\ k < 6
      BY <2>1, <2>2
    <3> HIDE DEF k
    <3>2. ~(k = 6)
      BY <3>1
    <3> QED
      BY <3>2 DEF k
  <2> QED
    BY <2>1, <2>3
<1>3. raw \in Seq(Byte) /\ Len(raw) = Len(result_packet) + 1
  BY <1>2, AppendProperties
<1>4. Len(raw) \in 1 .. 6
  <2> DEFINE k == Len(result_packet)
  <2>1. k \in Nat /\ k < 6
    BY <1>2, LenProperties
  <2> HIDE DEF k
  <2>2. k + 1 \in 1 .. 6
    BY <2>1
  <2> QED
    BY <1>3, <2>2 DEF k
<1> HIDE DEF raw
<1>5. CASE IsWhole(raw) /\ Accept(raw)
  <2>1. Len(raw) = 6
    <3> DEFINE k == Len(raw)
    <3>1. k \in 1 .. 6 /\ k >= 6
      BY <1>4, <1>5 DEF IsWhole, RESULT_PACKET_LEN
    <3> HIDE DEF k
    <3>2. k = 6
      BY <3>1
    <3> QED
      BY <3>2 DEF k
  <2>2. /\ outcome' \in {"ok", "failed"} /\ exchange' = "idle" /\ current_result' \in Result
    BY <1>2, <1>3, <1>5, ParsedIsResult DEF Accept
  <2> QED
    BY <1>1, <1>3, <2>1, <2>2 DEF MasterTypeOK, RESULT_PACKET_LEN
<1>6. CASE ~IsWhole(raw) /\ UNCHANGED <<exchange, outcome, current_result>>
  <2>1. Len(raw) < 6
    <3> DEFINE k == Len(raw)
    <3>1. k \in 1 .. 6 /\ ~(k >= 6)
      BY <1>4, <1>6 DEF IsWhole, RESULT_PACKET_LEN
    <3> HIDE DEF k
    <3>2. k < 6
      BY <3>1
    <3> QED
      BY <3>2 DEF k
  <2>2. /\ exchange' = exchange /\ outcome' = outcome /\ current_result' = current_result
    BY <1>6
  <2> QED
    BY <1>1, <1>2, <1>3, <2>1, <2>2 DEF MasterTypeOK, RESULT_PACKET_LEN
<1> QED
  BY <1>1, <1>5, <1>6

\* The slave answers, whole or not.
LEMMA SlaveExecuteType ==
  ASSUME SlaveInv', MasterTypeOK, SlaveExecute
  PROVE  MasterTypeOK'
<1>1. UNCHANGED <<receiver, master_vars>>
  BY DEF SlaveExecute
<1>2. CASE UNCHANGED <<answer_line, reply>>
  BY <1>1, <1>2 DEF MasterTypeOK, receiver, master_vars, answer_line
<1>3. CASE ~UNCHANGED <<answer_line, reply>>
  <2>1. /\ reply' = [result |-> [minute |-> status'.last_minute,
                                second |-> status'.last_second,
                                code |-> status'.last_result_code],
                     sample |-> status'.last_sensor,
                     accepted |-> accepted' # accepted]
        /\ back' \in IF answer' # <<>> THEN {answer'}
                     ELSE CutOff(BuildResultPacket(reply'.result))
        /\ lead' = 0
    BY <1>3 DEF SlaveExecute
  <2>2. status' \in Status /\ answer' \in Seq(Byte) /\ AnswerParses'
    BY DEF SlaveInv, ParserInv, SlaveTypeOK
  <2>3. /\ reply' \in [result : Result, sample : Sample, accepted : BOOLEAN]
        /\ reply'.result \in Result
    BY <2>1, <2>2 DEF Status, Result
  <2>4. back' \in Seq(Byte) /\ Len(back') <= 6
    <3>1. CASE answer' # <<>>
      <4>1. ParseResultPacket(answer').ok
        BY <2>2, <3>1 DEF AnswerParses
      <4>2. Len(answer') = 6
        BY <4>1, Zenon DEF ParseResultPacket, RESULT_PACKET_LEN
      <4> QED
        BY <2>1, <2>2, <3>1, <4>2, SMTT(40)
    <3>2. CASE answer' = <<>>
      <4> DEFINE packet == BuildResultPacket(reply'.result)
      <4>1. packet \in Seq(Byte) /\ Len(packet) = 6
        BY <2>3, ResultPacketLength
      <4> HIDE DEF packet
      <4>2. PICK n \in 0 .. 5 : back' = SubSeq(packet, 1, n)
        <5>1. back' \in CutOff(packet)
          BY <2>1, <3>2 DEF packet
        <5> QED
          BY <4>1, <5>1 DEF CutOff
      <4>3. \A i \in 1 .. n : packet[i] \in Byte
        BY <4>1, ElementOfSeq
      <4>4. /\ SubSeq(packet, 1, n) \in Seq(Byte)
            /\ Len(SubSeq(packet, 1, n)) = IF 1 <= n THEN n - 1 + 1 ELSE 0
        BY <4>1, <4>3, SubSeqProperties
      <4> QED
        BY <4>2, <4>4
    <3> QED
      BY <3>1, <3>2
  <2>5. /\ m_rdr' = m_rdr /\ m_rx_flag' = m_rx_flag /\ exchange' = exchange
        /\ outcome' = outcome /\ result_packet' = result_packet
        /\ current_result' = current_result
    BY <1>1 DEF receiver, master_vars
  <2> QED
    BY <2>1, <2>3, <2>4, <2>5 DEF MasterTypeOK, RESULT_PACKET_LEN
<1> QED
  BY <1>2, <1>3

\* Every step of both boards keeps the master's types.
LEMMA MasterNext ==
  ASSUME SlaveInv, SlaveInv', MasterTypeOK, [NextExchange]_exchange_vars
  PROVE  MasterTypeOK'
<1>1. ASSUME NEW s \in SentSamples, BeginExchange(s) PROVE MasterTypeOK'
  <2>1. /\ back' = back /\ lead' = 0 /\ m_rdr' = m_rdr /\ reply' = reply
        /\ m_rx_flag' = FALSE /\ exchange' = "running" /\ outcome' = "none"
        /\ result_packet' = <<>> /\ current_result' = NoResult
    BY <1>1 DEF BeginExchange, FlushRx
  <2>2. lead' \in 0 .. 2
    BY <2>1
  <2> QED
    BY <2>1, <2>2, NothingTypes, NothingSent, Zenon DEF MasterTypeOK
<1>2. CASE RecvByte
  BY <1>2, RecvByteType
<1>3. CASE RecvTimeout
  <2>1. /\ back' = back /\ lead' = lead /\ m_rdr' = m_rdr /\ reply' = reply
        /\ m_rx_flag' = m_rx_flag /\ exchange' = "idle" /\ outcome' = "failed"
        /\ result_packet' = result_packet /\ current_result' = current_result
    BY <1>3 DEF RecvTimeout, answer_line, receiver
  <2> QED
    BY <2>1 DEF MasterTypeOK
<1>4. CASE MasterRestart
  <2>1. /\ back' = back /\ lead' = lead /\ m_rdr' = m_rdr /\ reply' = reply
        /\ m_rx_flag' = FALSE /\ exchange' = "idle" /\ outcome' = "none"
        /\ result_packet' = <<>> /\ current_result' = NoResult
    BY <1>4 DEF MasterRestart, answer_line
  <2> QED
    BY <2>1, NothingTypes, NothingSent DEF MasterTypeOK
<1>5. CASE SlaveExecute
  BY <1>5, SlaveExecuteType
<1>6. CASE SlaveFinish \/ StopExchange \/ UNCHANGED exchange_vars
  <2>1. UNCHANGED <<answer_line, receiver, master_vars, reply>>
    BY <1>6 DEF SlaveFinish, StopExchange, exchange_vars
  <2> QED
    BY <2>1 DEF MasterTypeOK, answer_line, receiver, master_vars
<1>7. CASE SlaveRestart
  <2>1. back' \in Cut(back) /\ UNCHANGED <<lead, receiver, master_vars, reply>>
    BY <1>7 DEF SlaveRestart
  <2>2. back' \in Seq(Byte) /\ Len(back') <= 1
    BY <2>1, CutIsBytes DEF MasterTypeOK
  <2>3. Len(back') <= RESULT_PACKET_LEN
    <3>1. Len(back') \in Nat
      BY <2>2, LenProperties
    <3> QED
      BY <2>2, <3>1 DEF RESULT_PACKET_LEN
  <2> QED
    BY <2>1, <2>2, <2>3 DEF MasterTypeOK, receiver, master_vars
<1>8. CASE KeepsPace
  <2>1. UNCHANGED <<back, receiver, master_vars, reply>>
    BY <1>8 DEF KeepsPace
  <2>2. lead' \in 0 .. 2
    <3>1. lead \in 0 .. 2 /\ (lead' = lead \/ (lead < 2 /\ lead' = lead + 1))
      BY <1>8 DEF KeepsPace, MasterTypeOK
    <3> QED
      BY <3>1
  <2> QED
    BY <2>1, <2>2 DEF MasterTypeOK, receiver, master_vars
<1>9. CASE BackArrive \/ BackDamage \/ BackLose
  <2>1. TakeBack /\ UNCHANGED master_vars /\ reply' = reply
    BY <1>9 DEF BackArrive, BackDamage, BackLose, ReceiveBack, TakeBack
  <2>2. m_rdr' \in Byte /\ m_rx_flag' \in BOOLEAN
    <3>1. CASE BackArrive
      <4>1. m_rdr' = Head(back) /\ m_rx_flag' = TRUE /\ back # <<>>
        BY <3>1 DEF BackArrive, ReceiveBack, TakeBack
      <4> QED
        BY <4>1, BackLength
    <3>2. CASE BackDamage
      BY <3>2, LineAssumption DEF BackDamage, ReceiveBack
    <3>3. CASE BackLose
      BY <3>3 DEF BackLose, receiver, MasterTypeOK
    <3> QED
      BY <1>9, <3>1, <3>2, <3>3
  <2>3. back' \in Seq(Byte) /\ Len(back') <= RESULT_PACKET_LEN /\ lead' \in 0 .. 2
    BY <2>1, TakeBackType
  <2> QED
    BY <2>1, <2>2, <2>3 DEF MasterTypeOK, master_vars
<1> QED
  BY <1>1, <1>2, <1>3, <1>4, <1>5, <1>6, <1>7, <1>8, <1>9
  DEF NextExchange, SlaveReadCollides

-----------------------------------------------------------------------------
(* The stream of packets inside the exchange.                              *)

\* The stream's invariant is kept in the exchange with the master as well,
\* restarts of either board and cut-off bytes included.
LEMMA StreamInExchange ==
  ASSUME SlaveInv, StreamInv, OneStartByte, [NextExchange]_exchange_vars
  PROVE  StreamInv'
<1>1. CASE [Next]_vars
  BY <1>1, StreamNext
<1>2. CASE MasterRestart
  <2>1. /\ clean' = 0 /\ busy' = busy /\ g_rx_buffer' = g_rx_buffer /\ rx_flag' = rx_flag
        /\ frames' = frames /\ line' \in Cut(line)
    BY <1>2 DEF MasterRestart, slave_vars
  <2>2. line = <<>> => line' = <<>>
    BY <2>1 DEF Cut
  <2> QED
    BY <2>1, <2>2, FaultStream DEF StreamInv, Unsent
<1>3. CASE BackFault
  <2>1. /\ clean' = 0 /\ busy' = busy /\ g_rx_buffer' = g_rx_buffer /\ rx_flag' = rx_flag
        /\ frames' = frames /\ line' = line
    BY <1>3 DEF BackFault, slave_vars
  <2> QED
    BY <2>1, FaultStream DEF StreamInv, Unsent
<1> QED
  BY <1>1, <1>2, <1>3, ExchangeStepsSlave

-----------------------------------------------------------------------------
(* The second exchange without a fault.                                    *)

\* The slave has read the first Taken bytes of the packet, and no answer is
\* on its way.
Waiting ==
  /\ exchange = "running" /\ accepted = 0
  /\ ~busy /\ Len(g_rx_buffer) = Taken
  /\ \A i \in 1 .. Len(g_rx_buffer) : g_rx_buffer[i] = OnLine[i]
  /\ back = <<>> /\ ~m_rx_flag /\ result_packet = <<>>

\* The answer is spread over what the master has stored, its receiver and
\* the line.
InReceiver == IF m_rx_flag THEN 1 ELSE 0
Arriving ==
  LET A == BuildResultPacket(reply.result)
      r == Len(result_packet)
  IN  /\ exchange = "running" /\ r + InReceiver + Len(back) = RESULT_PACKET_LEN
      /\ \A i \in 1 .. r : result_packet[i] = A[i]
      /\ m_rx_flag => m_rdr = A[r + 1]
      /\ \A i \in 1 .. Len(back) : back[i] = A[r + InReceiver + i]

Understood == exchange = "idle" /\ outcome = "ok" /\ current_result = reply.result

Answered ==
  /\ line = <<>> /\ ~rx_flag /\ accepted = 1 /\ status.last_sensor = frame
  /\ answer # <<>> => reply.result.code = verdict /\ (Arriving \/ Understood)

RoundInv == clean >= 2 /\ frames > 0 => Waiting \/ Answered

\* Nothing that is exchanged in a round changes.
LEMMA RoundUnchanged ==
  ASSUME Answered, line' = line, rx_flag' = rx_flag, accepted' = accepted, status' = status,
         frame' = frame, answer' = answer, reply' = reply, verdict' = verdict,
         Arriving => Arriving' \/ Understood', Understood => Understood'
  PROVE  Answered'
BY DEF Answered

\* What leaves the request's variables alone keeps its phase.
LEMMA WaitingUnchanged ==
  ASSUME Waiting, exchange' = exchange, accepted' = accepted, busy' = busy,
         g_rx_buffer' = g_rx_buffer, Taken' = Taken, frame' = frame,
         back' = back, m_rx_flag' = m_rx_flag, result_packet' = result_packet
  PROVE  Waiting'
BY DEF Waiting, OnLine

\* What leaves the answer's variables alone keeps its phases.
LEMMA ArrivingUnchanged ==
  ASSUME UNCHANGED <<exchange, result_packet, m_rx_flag, m_rdr, back, reply, outcome,
                     current_result>>
  PROVE  (Arriving => Arriving') /\ (Understood => Understood')
BY DEF Arriving, Understood, InReceiver

\* A round begins with both boards at the start of a packet.
LEMMA BeginRound ==
  ASSUME SlaveInv, StreamInv, OneStartByte, NEW s \in SentSamples, BeginExchange(s)
  PROVE  RoundInv'
<1>1. /\ Quiet /\ exchange' = "running" /\ accepted' = 0 /\ busy' = busy
      /\ g_rx_buffer' = g_rx_buffer /\ rx_flag' = rx_flag /\ line' = BuildSensorPacket(s)
      /\ back = <<>> /\ back' = back /\ m_rx_flag' = FALSE /\ result_packet' = <<>>
      /\ clean' = IF clean < FAULT_GAP THEN clean + 1 ELSE clean
  BY DEF BeginExchange, SendFrame, slave_vars, FlushRx
<1>2. clean \in Nat /\ frames \in Nat
  BY LineAssumption DEF SlaveInv, ParserInv, SlaveTypeOK
<1>3. ASSUME clean' >= 2 PROVE g_rx_buffer = <<>>
  <2>1. clean >= 1
    BY <1>1, <1>2, <1>3, LineAssumption
  <2>2. CASE frames = 0
    BY <2>2 DEF StreamInv, Unsent
  <2>3. CASE frames # 0
    <3>1. frames > 0
      BY <1>2, <2>3
    <3> QED
      BY <1>1, <2>1, <3>1, StreamRecovers DEF Resynchronises
  <2> QED
    BY <2>2, <2>3
<1>4. Taken' = 0
  <2>1. Len(line') = 7
    BY <1>1, PacketBegins, LineAssumption
  <2>2. ~rx_flag'
    BY <1>1 DEF Quiet
  <2> QED
    BY <2>1, <2>2 DEF Taken, Arrived, SENSOR_PACKET_LEN
<1>5. ~busy'
  BY <1>1 DEF Quiet
<1>6. ASSUME clean' >= 2 PROVE Waiting'
  <2>1. g_rx_buffer' = <<>>
    BY <1>1, <1>3, <1>6
  <2>2. Len(g_rx_buffer') = 0
    BY <2>1
  <2>3. \A i \in 1 .. Len(g_rx_buffer') : g_rx_buffer'[i] = OnLine'[i]
    BY <2>2
  <2> QED
    BY <1>1, <1>4, <1>5, <2>2, <2>3 DEF Waiting
<1> QED
  BY <1>6 DEF RoundInv

\* The master stores the next byte of the answer, or all of it.
LEMMA RecvByteRound ==
  ASSUME MasterTypeOK, RoundInv, RecvByte
  PROVE  RoundInv'
<1> DEFINE raw == Append(result_packet, m_rdr)
           A == BuildResultPacket(reply.result)
           r == Len(result_packet)
<1>1. /\ exchange = "running" /\ m_rx_flag /\ m_rx_flag' = FALSE /\ reply' = reply
      /\ back' = back /\ result_packet' = raw
      /\ \/ IsWhole(raw) /\ Accept(raw)
         \/ ~IsWhole(raw) /\ exchange' = exchange
      /\ UNCHANGED vars
  BY DEF RecvByte, Receiving, answer_line
<1>2. SUFFICES ASSUME clean >= 2, frames > 0 PROVE Answered'
  BY <1>1 DEF RoundInv, vars
<1>3. Answered
  BY <1>1, <1>2 DEF RoundInv, Waiting
<1>4. ASSUME Arriving PROVE Arriving' \/ Understood'
  <2>1. /\ r + 1 + Len(back) = 6
        /\ \A i \in 1 .. r : result_packet[i] = A[i]
        /\ m_rdr = A[r + 1]
        /\ \A i \in 1 .. Len(back) : back[i] = A[r + 1 + i]
    BY <1>1, <1>4 DEF Arriving, InReceiver, RESULT_PACKET_LEN
  <2>2. /\ result_packet \in Seq(Byte) /\ m_rdr \in Byte /\ r \in Nat
        /\ Len(back) \in 0 .. 6 /\ reply.result \in Result
    BY BackLength DEF MasterTypeOK
  <2>3. /\ raw \in Seq(Byte) /\ Len(raw) = r + 1 /\ raw[r + 1] = m_rdr
        /\ \A i \in 1 .. r : raw[i] = result_packet[i]
    BY <2>2, AppendProperties
  <2>4. /\ A \in Seq(Byte) /\ Len(A) = 6
        /\ ParseResultPacket(A) = [ok |-> TRUE, result |-> reply.result]
    BY <2>2, ResultPacketLength, ResultPacketRoundTrip
  <2> DEFINE nb == Len(back)
  <2> HIDE DEF raw, A, r, nb
  <2>5. \A i \in 1 .. r + 1 : raw[i] = A[i]
    <3> SUFFICES ASSUME NEW i \in 1 .. r + 1 PROVE raw[i] = A[i]
      OBVIOUS
    <3>1. i \in 1 .. r \/ i = r + 1
      BY <2>2
    <3> QED
      BY <2>1, <2>3, <3>1
  <2>6. IsWhole(raw) <=> r + 1 = 6
    <3>1. IsWhole(raw) <=> r + 1 >= 6
      BY <2>3 DEF IsWhole, RESULT_PACKET_LEN
    <3>2. r + 1 + nb = 6 /\ nb \in 0 .. 6 /\ r \in Nat
      BY <2>1, <2>2 DEF nb
    <3> QED
      BY <3>1, <3>2
  <2>7. CASE IsWhole(raw)
    <3>1. raw = A
      BY <2>3, <2>4, <2>5, <2>6, <2>7, SeqEqual
    <3>2. Accept(raw)
      BY <1>1, <2>7
    <3>3. /\ ParseResultPacket(raw).ok
          /\ ParseResultPacket(raw).result = reply.result
      BY <2>4, <3>1
    <3> QED
      BY <1>1, <3>2, <3>3 DEF Accept, Understood
  <2>8. CASE ~IsWhole(raw)
    <3>1. exchange' = "running" /\ InReceiver' = 0 /\ Len(result_packet') = r + 1
          /\ A' = A
      BY <1>1, <2>3, <2>8 DEF InReceiver, A
    <3>2. (r + 1) + 0 + nb = 6
      BY <2>1, <2>2 DEF nb
    <3>3. \A i \in 1 .. nb : back[i] = A[(r + 1) + 0 + i]
      <4>1. \A i \in 1 .. nb : (r + 1) + 0 + i = r + 1 + i
        BY <2>2
      <4> QED
        BY <2>1, <4>1 DEF nb
    <3>4. \A i \in 1 .. r + 1 : result_packet'[i] = A[i]
      BY <1>1, <2>5
    <3>5. Len(back') = nb /\ back' = back
      BY <1>1 DEF nb
    <3>6. BuildResultPacket(reply'.result) = A
      BY <1>1 DEF A
    <3> QED
      BY <1>1, <3>1, <3>2, <3>3, <3>4, <3>5, <3>6 DEF Arriving, RESULT_PACKET_LEN
  <2> QED
    BY <2>7, <2>8
<1>5. ~Understood
  BY <1>1 DEF Understood
<1>6. /\ line' = line /\ rx_flag' = rx_flag /\ accepted' = accepted /\ status' = status
      /\ frame' = frame /\ answer' = answer /\ verdict' = verdict
  BY <1>1 DEF vars, warning_vars
<1> QED
  BY <1>1, <1>3, <1>4, <1>5, <1>6, RoundUnchanged

\* The master does not give up an answer that is on its way.
LEMMA TimeoutRound ==
  ASSUME SlaveInv, MasterTypeOK, RoundInv, RecvTimeout
  PROVE  RoundInv'
<1>1. /\ exchange = "running" /\ ~m_rx_flag /\ Quiet /\ back = <<>> /\ UNCHANGED vars
      /\ reply' = reply
  BY DEF RecvTimeout, Receiving
<1>2. SUFFICES ASSUME clean >= 2, frames > 0 PROVE Answered'
  BY <1>1 DEF RoundInv, vars
<1>3. Answered
  <2>1. ~Waiting
    <3>1. Taken = 7
      BY <1>1 DEF Quiet, Taken, Arrived, SENSOR_PACKET_LEN
    <3>2. Len(g_rx_buffer) \in 0 .. 6
      BY LineLength
    <3> DEFINE n == Len(g_rx_buffer)
    <3> HIDE DEF n
    <3>3. ~(n = Taken)
      BY <3>1, <3>2 DEF n
    <3> QED
      BY <3>3 DEF Waiting, n
  <2> QED
    BY <1>2, <2>1 DEF RoundInv
<1>4. ~Arriving
  <2>1. Len(back) = 0 /\ InReceiver = 0
    BY <1>1 DEF InReceiver
  <2> DEFINE r == Len(result_packet)
  <2>2. r \in Nat /\ r < 6
    BY <1>1, BackLength DEF MasterTypeOK, RESULT_PACKET_LEN
  <2> HIDE DEF r
  <2>3. ~(r + InReceiver + Len(back) = 6)
    BY <2>1, <2>2
  <2> QED
    BY <2>3 DEF Arriving, r, RESULT_PACKET_LEN
<1>5. ~Understood
  BY <1>1 DEF Understood
<1>6. /\ line' = line /\ rx_flag' = rx_flag /\ accepted' = accepted /\ status' = status
      /\ frame' = frame /\ answer' = answer /\ verdict' = verdict
  BY <1>1 DEF vars, warning_vars
<1> QED
  BY <1>1, <1>3, <1>4, <1>5, <1>6, RoundUnchanged

\* A byte of the answer reaches the master, who has read the one before it.
LEMMA BackRound ==
  ASSUME MasterTypeOK, RoundInv, BackArrive
  PROVE  RoundInv'
<1> DEFINE A == BuildResultPacket(reply.result)
           r == Len(result_packet)
           nb == Len(back)
<1>1. /\ back # <<>> /\ back' = Tail(back) /\ m_rdr' = Head(back) /\ m_rx_flag' = TRUE
      /\ (m_rx_flag => ~Receiving) /\ reply' = reply
      /\ UNCHANGED <<line, rdr, rx_flag, slave_vars, frame, frames, answers, accepted,
                     warning_vars, master_vars, clean>>
  BY DEF BackArrive, ReceiveBack, TakeBack
<1>2. SUFFICES ASSUME clean >= 2, frames > 0 PROVE Answered'
  BY <1>1 DEF RoundInv
<1>3. Answered
  BY <1>1, <1>2 DEF RoundInv, Waiting
<1>4. ASSUME Arriving PROVE Arriving'
  <2>1. exchange = "running" /\ Len(line) = 0
    BY <1>3, <1>4 DEF Answered, Arriving
  <2>2. ~m_rx_flag
    BY <1>1, <2>1 DEF Receiving
  <2>3. /\ r + 0 + nb = 6
        /\ \A i \in 1 .. r : result_packet[i] = A[i]
        /\ \A i \in 1 .. nb : back[i] = A[r + 0 + i]
    BY <1>4, <2>2 DEF Arriving, InReceiver, RESULT_PACKET_LEN
  <2>4. /\ nb \in 0 .. 6 /\ r \in Nat
        /\ Len(Tail(back)) = nb - 1 /\ nb >= 1 /\ Head(back) = back[1]
        /\ \A i \in 1 .. nb - 1 : Tail(back)[i] = back[i + 1]
    BY <1>1, BackLength
  <2> HIDE DEF A, r, nb
  <2>5. m_rdr' = A[r + 1]
    <3>1. 1 \in 1 .. nb /\ r + 0 + 1 = r + 1
      BY <2>4
    <3> QED
      BY <1>1, <2>3, <2>4, <3>1
  <2>6. \A i \in 1 .. nb - 1 : back'[i] = A[r + 1 + i]
    <3> SUFFICES ASSUME NEW i \in 1 .. nb - 1 PROVE back'[i] = A[r + 1 + i]
      OBVIOUS
    <3>1. i + 1 \in 1 .. nb /\ r + 0 + (i + 1) = r + 1 + i
      BY <2>4
    <3> QED
      BY <1>1, <2>3, <2>4, <3>1
  <2>7. r + 1 + (nb - 1) = 6
    BY <2>3, <2>4
  <2>8. /\ exchange' = "running" /\ InReceiver' = 1 /\ Len(result_packet') = r
        /\ result_packet' = result_packet /\ BuildResultPacket(reply'.result) = A
        /\ Len(back') = nb - 1
    BY <1>1, <2>1, <2>4 DEF InReceiver, master_vars, A, r
  <2> QED
    BY <1>1, <2>3, <2>5, <2>6, <2>7, <2>8 DEF Arriving, RESULT_PACKET_LEN
<1>5. Understood => Understood'
  BY <1>1 DEF Understood, master_vars
<1>6. /\ line' = line /\ rx_flag' = rx_flag /\ accepted' = accepted /\ status' = status
      /\ frame' = frame /\ answer' = answer /\ verdict' = verdict
  BY <1>1 DEF slave_vars, warning_vars
<1> QED
  BY <1>1, <1>3, <1>4, <1>5, <1>6, RoundUnchanged

\* Only the seventh byte of a packet is answered.
LEMMA ReadEffect ==
  ASSUME SlaveInv, NEW b, ProcessReceivedByte(b)
  PROVE  /\ Len(g_rx_buffer) # 6 =>
              answers' = answers /\ accepted' = accepted /\ busy' = busy
         /\ Len(g_rx_buffer) = 6 =>
              /\ ProcessCompletedPacket(Append(g_rx_buffer, b))
              /\ g_rx_buffer' = <<>>
<1> DEFINE n == Len(g_rx_buffer)
<1>1. n \in 0 .. 6
  BY LineLength
<1>2. Completes(n) <=> n = 6
  <2>1. Completes(n) <=> n + 1 >= 7
    BY DEF Completes, SENSOR_PACKET_LEN
  <2> HIDE DEF n
  <2> QED
    BY <1>1, <2>1
<1>3. \/ n = 0 /\ answers' = answers /\ accepted' = accepted /\ busy' = busy
      \/ n = 1 /\ answers' = answers /\ accepted' = accepted /\ busy' = busy
      \/ ~Completes(n) /\ answers' = answers /\ accepted' = accepted /\ busy' = busy
      \/ /\ Completes(n) /\ ProcessCompletedPacket(Append(g_rx_buffer, b))
         /\ g_rx_buffer' = <<>>
  BY DEF ProcessReceivedByte, ParserAfterPacket
<1>4. n = 0 \/ n = 1 => n # 6
  OBVIOUS
<1> HIDE DEF n
<1>5. /\ n # 6 => answers' = answers /\ accepted' = accepted /\ busy' = busy
      /\ n = 6 => /\ ProcessCompletedPacket(Append(g_rx_buffer, b))
                  /\ g_rx_buffer' = <<>>
  BY <1>2, <1>3, <1>4
<1> QED
  BY <1>5 DEF n

\* The slave evaluates and answers the sample of the packet that it was sent.
LEMMA AnswerFrame ==
  ASSUME SlaveInv, frame \in Sample, ProcessCompletedPacket(OnLine), frame' = frame,
         accepted = 0
  PROVE  /\ accepted' = 1 /\ status'.last_sensor = frame
         /\ status'.last_result_code = verdict' /\ answers' # answers
         /\ answer' # <<>> =>
              answer' = BuildResultPacket([minute |-> status'.last_minute,
                                           second |-> status'.last_second,
                                           code |-> status'.last_result_code])
<1>1. ParseSensorPacket(OnLine) = [ok |-> TRUE, sample |-> frame]
  BY SensorPacketRoundTrip DEF OnLine
<1> DEFINE parsed == ParseSensorPacket(OnLine)
           counted == [status EXCEPT !.packet_ok_count = @ + 1,
                                     !.last_sensor = parsed.sample]
<1>2. parsed.ok /\ parsed.sample = frame
  BY <1>1
<1>3. accepted' = 1 /\ SendResultPacket(counted, verdict')
  BY <1>2 DEF ProcessCompletedPacket
<1>4. PICK t \in Clock, sent \in SendOutcomes :
        /\ status' = AfterAnswer(counted, verdict', t, sent)
        /\ answer' = IF sent
                     THEN BuildResultPacket([minute |-> t.minute, second |-> t.second,
                                             code |-> verdict'])
                     ELSE <<>>
        /\ answers' = answers + 1
  BY <1>3 DEF SendResultPacket
<1>5. status \in Status /\ answers \in Nat
  BY DEF SlaveInv, ParserInv, SlaveTypeOK
<1>6. counted.last_sensor = frame
  BY <1>2, <1>5 DEF Status
<1>7. /\ status'.last_sensor = frame /\ status'.last_result_code = verdict'
      /\ status'.last_minute = t.minute /\ status'.last_second = t.second
  <2>1. /\ counted.last_sensor = frame
        /\ counted \in Status
    <3>1. counted \in Status
      <4>1. parsed.sample \in Sample
        BY <1>2
      <4>2. status.packet_ok_count + 1 \in Nat
        BY <1>5 DEF Status
      <4> HIDE DEF parsed
      <4> QED
        BY <1>5, <4>1, <4>2 DEF Status
    <3> QED
      BY <1>6, <3>1
  <2> HIDE DEF counted
  <2> QED
    BY <1>4, <2>1 DEF AfterAnswer, Status
<1>8. answers' # answers
  BY <1>4, <1>5
<1>9. answer' # <<>> =>
        answer' = BuildResultPacket([minute |-> t.minute, second |-> t.second,
                                     code |-> verdict'])
  BY <1>4
<1> QED
  BY <1>3, <1>7, <1>8, <1>9

\* A byte that the slave takes: the last one makes it answer.
LEMMA ExecuteRound ==
  ASSUME SlaveInv, SlaveInv', StreamInv, OneStartByte, MasterTypeOK, RoundInv, SlaveExecute
  PROVE  RoundInv'
<1> DEFINE n == Len(g_rx_buffer)
<1>1. /\ ~busy /\ rx_flag /\ ~rx_flag' /\ line' = line /\ frame' = frame
      /\ frames' = frames /\ clean' = clean /\ ProcessReceivedByte(rdr)
      /\ UNCHANGED <<receiver, master_vars>>
  BY DEF SlaveExecute, Execute, TakeByte
<1>2. SUFFICES ASSUME clean >= 2, frames > 0 PROVE Waiting' \/ Answered'
  BY <1>1 DEF RoundInv
<1>3. Waiting /\ LineHolds
  <2>1. clean >= 1
    <3>1. clean \in 0 .. FAULT_GAP
      BY DEF SlaveInv, ParserInv, SlaveTypeOK
    <3> QED
      BY <1>2, <3>1, LineAssumption
  <2> QED
    BY <1>1, <1>2, <2>1 DEF RoundInv, Answered, StreamInv
<1>4. /\ n \in 0 .. 6 /\ g_rx_buffer \in Seq(Byte) /\ rdr \in Byte /\ Arrived \in 0 .. 7
      /\ Arrived = 7 - Len(line) /\ line \in Seq(Byte)
  BY LineLength DEF SlaveInv, ParserInv, SlaveTypeOK
<1>5. /\ Taken = Arrived - 1 /\ Taken = n /\ Taken' = Arrived /\ Arrived = n + 1
      /\ rdr = OnLine[n + 1] /\ OnLine' = OnLine
  <2>1. Taken = Arrived - 1 /\ Taken' = Arrived /\ OnLine' = OnLine
    BY <1>1 DEF Taken, Arrived, OnLine
  <2>2. Taken = n
    BY <1>3 DEF Waiting
  <2>3. Arrived = n + 1
    <3> HIDE DEF n, Arrived, Taken
    <3> QED
      BY <1>4, <2>1, <2>2
  <2>4. rdr = OnLine[Arrived]
    BY <1>1, <1>3 DEF LineHolds
  <2> QED
    BY <2>1, <2>2, <2>3, <2>4
<1>6. /\ Append(g_rx_buffer, rdr) \in Seq(Byte) /\ Len(Append(g_rx_buffer, rdr)) = n + 1
      /\ \A i \in 1 .. n + 1 : Append(g_rx_buffer, rdr)[i] = OnLine[i]
  <2> DEFINE raw == Append(g_rx_buffer, rdr)
  <2>1. /\ raw \in Seq(Byte) /\ Len(raw) = n + 1 /\ raw[n + 1] = rdr
        /\ \A i \in 1 .. n : raw[i] = g_rx_buffer[i]
    BY <1>4, AppendProperties
  <2>2. \A i \in 1 .. n : g_rx_buffer[i] = OnLine[i]
    BY <1>3 DEF Waiting
  <2> HIDE DEF raw, n
  <2>3. ASSUME NEW i \in 1 .. n + 1 PROVE raw[i] = OnLine[i]
    <3>1. i \in 1 .. n \/ i = n + 1
      BY <1>4
    <3> QED
      BY <1>5, <2>1, <2>2, <3>1
  <2> QED
    BY <2>1, <2>3 DEF raw
<1>7. OnLine \in Seq(Byte) /\ Len(OnLine) = 7 /\ OnLine[1] = PACKET_START_BYTE
      /\ OnLine[2] = PACKET_TYPE_SENSOR /\ frame \in Sample
  BY <1>3, OnLineIs, LineAssumption DEF LineHolds
<1>8. CASE n # 6
  <2>1. answers' = answers /\ accepted' = accepted /\ busy' = busy
    BY <1>1, <1>8, ReadEffect
  <2>2. UNCHANGED <<answer_line, reply>>
    BY <2>1 DEF SlaveExecute
  <2>3. /\ Len(g_rx_buffer') = n + 1
        /\ \A i \in 1 .. n + 1 : g_rx_buffer'[i] = OnLine[i]
    <3> DEFINE b == rdr
    <3>1. \/ n = 0 /\ b = PACKET_START_BYTE /\ g_rx_buffer' = <<b>>
          \/ n = 0 /\ b # PACKET_START_BYTE
          \/ n = 1 /\ b # PACKET_TYPE_SENSOR
          \/ n \in 1 .. 5 /\ g_rx_buffer' = Append(g_rx_buffer, b)
          \/ n = 6
      <4>1. LET k == Len(g_rx_buffer)
            IN  \/ /\ k = 0 /\ busy' = busy
                   /\ b = PACKET_START_BYTE /\ g_rx_buffer' = <<b>>
                \/ /\ k = 0 /\ busy' = busy
                   /\ b # PACKET_START_BYTE /\ g_rx_buffer' = <<>>
                \/ /\ k = 1 /\ b # PACKET_TYPE_SENSOR /\ busy' = busy
                   /\ b = PACKET_START_BYTE /\ g_rx_buffer' = <<b>>
                \/ /\ k = 1 /\ b # PACKET_TYPE_SENSOR /\ busy' = busy
                   /\ b # PACKET_START_BYTE /\ g_rx_buffer' = <<>>
                \/ /\ k \in 1 .. 5 /\ ~(k = 1 /\ b # PACKET_TYPE_SENSOR) /\ busy' = busy
                   /\ g_rx_buffer' = Append(g_rx_buffer, b)
                \/ k = 6 /\ g_rx_buffer' = <<>>
        BY <1>1, BufferAfter
      <4> QED
        BY <4>1, Zenon
    <3>2. CASE n = 0
      <4>1. b = PACKET_START_BYTE
        BY <1>5, <1>7, <3>2
      <4>2. g_rx_buffer' = <<b>>
        BY <3>1, <3>2, <4>1
      <4>3. Len(g_rx_buffer') = 1 /\ g_rx_buffer'[1] = OnLine[1]
        BY <1>7, <4>1, <4>2
      <4> QED
        BY <3>2, <4>3
    <3>3. CASE n # 0
      <4>1. n = 1 => b = PACKET_TYPE_SENSOR
        BY <1>5, <1>7
      <4>2. g_rx_buffer' = Append(g_rx_buffer, b)
        BY <1>8, <3>1, <3>3, <4>1
      <4> QED
        BY <1>6, <4>2
    <3> QED
      BY <3>2, <3>3
  <2>4. Waiting'
    <3>1. /\ exchange' = exchange /\ back' = back /\ m_rx_flag' = m_rx_flag
          /\ result_packet' = result_packet
      BY <1>1, <2>2 DEF receiver, master_vars, answer_line
    <3>2. Len(g_rx_buffer') = Taken'
      BY <1>5, <2>3
    <3>3. \A i \in 1 .. Len(g_rx_buffer') : g_rx_buffer'[i] = OnLine'[i]
      BY <1>5, <2>3
    <3> QED
      BY <1>1, <1>3, <2>1, <3>1, <3>2, <3>3 DEF Waiting
  <2> QED
    BY <2>4
<1>9. CASE n = 6
  <2>1. Append(g_rx_buffer, rdr) = OnLine
    BY <1>6, <1>7, <1>9, SeqEqual
  <2>2. ProcessCompletedPacket(OnLine)
    BY <1>1, <1>9, <2>1, ReadEffect
  <2>3. /\ accepted' = 1 /\ status'.last_sensor = frame
        /\ status'.last_result_code = verdict' /\ answers' # answers
        /\ answer' # <<>> =>
             answer' = BuildResultPacket([minute |-> status'.last_minute,
                                          second |-> status'.last_second,
                                          code |-> status'.last_result_code])
    BY <1>1, <1>3, <1>7, <2>2, AnswerFrame DEF Waiting
  <2>4. /\ reply' = [result |-> [minute |-> status'.last_minute,
                                second |-> status'.last_second,
                                code |-> status'.last_result_code],
                     sample |-> status'.last_sensor,
                     accepted |-> accepted' # accepted]
        /\ back' \in IF answer' # <<>> THEN {answer'}
                     ELSE CutOff(BuildResultPacket(reply'.result))
    BY <2>3 DEF SlaveExecute
  <2>5. line' = <<>> /\ ~rx_flag'
    <3>1. Len(line) = 0
      <4> DEFINE k == Len(line)
      <4>1. k \in Nat /\ Arrived = 7 - k /\ Arrived = 7
        BY <1>4, <1>5, <1>9, LenProperties
      <4> HIDE DEF k, Arrived
      <4>2. k = 0
        BY <4>1
      <4> QED
        BY <4>2 DEF k
    <3> QED
      BY <1>1, <1>4, <3>1, EmptySeq
  <2>6. ASSUME answer' # <<>> PROVE reply'.result.code = verdict' /\ Arriving'
    <3> DEFINE A == BuildResultPacket(reply'.result)
    <3>1. reply'.result.code = verdict' /\ back' = A
      BY <2>3, <2>4, <2>6
    <3>2. reply'.result \in Result
      <4>1. status' \in Status
        BY DEF SlaveInv, ParserInv, SlaveTypeOK
      <4> QED
        BY <2>4, <4>1 DEF Status, Result
    <3>3. A \in Seq(Byte) /\ Len(A) = 6
      BY <3>2, ResultPacketLength
    <3>4. /\ exchange' = "running" /\ result_packet' = <<>> /\ ~m_rx_flag'
      BY <1>1, <1>3 DEF Waiting, receiver, master_vars
    <3>5. Len(result_packet') = 0 /\ InReceiver' = 0
      BY <3>4 DEF InReceiver
    <3> HIDE DEF A
    <3>6. 0 + 0 + Len(back') = 6 /\ \A i \in 1 .. Len(back') : back'[i] = A[0 + 0 + i]
      BY <3>1, <3>3
    <3>7. \A i \in 1 .. 0 : result_packet'[i] = A[i]
      OBVIOUS
    <3> QED
      BY <3>1, <3>4, <3>5, <3>6, <3>7 DEF Arriving, RESULT_PACKET_LEN, A
  <2>7. Answered'
    BY <1>1, <2>3, <2>5, <2>6 DEF Answered
  <2> QED
    BY <2>7
<1> QED
  BY <1>8, <1>9

\* A step that leaves a fault behind ends the round.
LEMMA FaultRound == ASSUME clean' = 0 PROVE RoundInv'
BY DEF RoundInv

\* Every step of both boards keeps the round's invariant.
LEMMA RoundNext ==
  ASSUME SlaveInv, SlaveInv', StreamInv, OneStartByte, MasterTypeOK, RoundInv,
         [NextExchange]_exchange_vars
  PROVE  RoundInv'
<1>1. ASSUME NEW s \in SentSamples, BeginExchange(s) PROVE RoundInv'
  BY <1>1, BeginRound
<1>2. CASE RecvByte
  BY <1>2, RecvByteRound
<1>3. CASE RecvTimeout
  BY <1>3, TimeoutRound
<1>4. CASE SlaveExecute
  BY <1>4, ExecuteRound
<1>5. CASE BackArrive
  BY <1>5, BackRound
<1>6. CASE \/ MasterRestart \/ SlaveRestart \/ BackDamage \/ BackLose
           \/ (Damage \/ Lose) /\ KeepsPace
  <2>1. clean' = 0
    BY <1>6 DEF MasterRestart, SlaveRestart, Restart, EmptyReceiver, BackDamage, BackLose,
                Damage, Lose
  <2> QED
    BY <2>1, FaultRound
<1>7. CASE SlaveFinish
  <2>1. /\ busy /\ UNCHANGED <<line, rdr, rx_flag, g_rx_buffer, status, answer, frame,
                              frames, clean, answers, accepted, warning_vars>>
        /\ UNCHANGED <<answer_line, receiver, master_vars, reply>>
    BY <1>7 DEF SlaveFinish, Finish
  <2>2. (Arriving => Arriving') /\ (Understood => Understood')
    BY <2>1, ArrivingUnchanged DEF answer_line, receiver, master_vars
  <2>3. ASSUME Answered PROVE Answered'
    BY <2>1, <2>2, <2>3, RoundUnchanged DEF warning_vars
  <2> QED
    BY <2>1, <2>3 DEF RoundInv, Waiting
<1>8. CASE Arrive /\ KeepsPace
  <2>1. /\ line # <<>> /\ (rx_flag => busy) /\ rx_flag' /\ line' = Tail(line)
        /\ UNCHANGED <<slave_vars, frame, frames, answers, accepted, warning_vars, clean>>
        /\ UNCHANGED <<back, receiver, master_vars, reply>>
    BY <1>8 DEF Arrive, Receive, KeepsPace
  <2>2. ~Answered
    BY <2>1 DEF Answered
  <2>3. ASSUME Waiting PROVE Waiting'
    <3>1. ~rx_flag
      BY <2>1, <2>3 DEF Waiting
    <3>2. Len(line') = Len(line) - 1 /\ Len(line) \in 0 .. 7
      BY <2>1, LineLength
    <3>3. Taken' = Taken
      <4>1. Taken = 7 - Len(line) /\ Taken' = (7 - Len(line')) - 1
        BY <2>1, <3>1 DEF Taken, Arrived, SENSOR_PACKET_LEN
      <4> DEFINE k == Len(line)
      <4>2. k \in 0 .. 7 /\ Taken = 7 - k /\ Taken' = (7 - (k - 1)) - 1
        BY <3>2, <4>1
      <4> HIDE DEF k
      <4> QED
        BY <4>2
    <3> QED
      BY <2>1, <2>3, <3>3, WaitingUnchanged DEF slave_vars, receiver, master_vars
  <2> QED
    BY <2>1, <2>2, <2>3 DEF RoundInv
<1>9. CASE SlaveReadCollides
  <2>1. busy /\ line # <<>> /\ UNCHANGED <<frames, clean>>
    BY <1>9 DEF SlaveReadCollides, ReadCollides
  <2> QED
    BY <2>1 DEF RoundInv, Waiting, Answered
<1>10. CASE StopExchange \/ UNCHANGED exchange_vars
  <2>1. UNCHANGED exchange_vars
    BY <1>10 DEF StopExchange
  <2>2. /\ UNCHANGED <<line, rdr, rx_flag, g_rx_buffer, busy, status, answer, frame, frames,
                       clean, answers, accepted, warning_vars>>
        /\ UNCHANGED <<answer_line, receiver, master_vars, reply>>
    BY <2>1 DEF exchange_vars, vars
  <2>3. (Arriving => Arriving') /\ (Understood => Understood')
    BY <2>2, ArrivingUnchanged DEF answer_line, receiver, master_vars
  <2>4. Taken' = Taken
    BY <2>2 DEF Taken, Arrived
  <2>5. ASSUME Answered PROVE Answered'
    BY <2>2, <2>3, <2>5, RoundUnchanged DEF warning_vars
  <2>6. ASSUME Waiting PROVE Waiting'
    BY <2>2, <2>4, <2>6, WaitingUnchanged DEF answer_line, receiver, master_vars
  <2> QED
    BY <2>2, <2>5, <2>6 DEF RoundInv
<1> QED
  BY <1>1, <1>2, <1>3, <1>4, <1>5, <1>6, <1>7, <1>8, <1>9, <1>10 DEF NextExchange

\* The invariant decides the property.
LEMMA RoundRecovers ==
  ASSUME SlaveInv, MasterTypeOK, RoundInv
  PROVE  ExchangeRecovers
<1>1. ExchangeTypeOK
  BY TypeParts DEF SlaveInv, ParserInv
<1>2. ASSUME AllQuiet, frames > 0, clean >= 2, answer # <<>>
      PROVE  /\ outcome = "ok" /\ accepted = 1 /\ status.last_sensor = frame
             /\ current_result.code = verdict
  <2>1. exchange = "idle"
    BY <1>2 DEF AllQuiet
  <2>2. Answered
    BY <1>2, <2>1 DEF RoundInv, Waiting
  <2>3. Understood /\ reply.result.code = verdict
    BY <1>2, <2>1, <2>2 DEF Answered, Arriving
  <2> QED
    BY <2>2, <2>3 DEF Answered, Understood
<1> QED
  BY <1>1, <1>2 DEF ExchangeRecovers

\* The master's side of the exchange keeps its types, and so does the slave's.
LEMMA MasterInvariance == SpecExchange => []MasterTypeOK
<1>1. SlaveInv /\ SlaveInv' /\ MasterTypeOK /\ [NextExchange]_exchange_vars => MasterTypeOK'
  BY MasterNext
<1> QED
  BY <1>1, MasterInit, SlaveInvariance, PTL DEF SpecExchange

\* Resets of the master and faults on the way back included, one packet
\* without a fault leaves the slave's parser at the start of a packet.
THEOREM ExchangeResynchronises == SpecExchange => []Resynchronises
<1>1. CASE OneStartByte
  <2>1. SlaveInv /\ StreamInv /\ [NextExchange]_exchange_vars => StreamInv'
    BY <1>1, StreamInExchange
  <2>2. SlaveInv /\ StreamInv => Resynchronises
    BY StreamRecovers
  <2>3. InitExchange => StreamInv
    BY StreamInit DEF InitExchange
  <2> QED
    BY <2>1, <2>2, <2>3, SlaveInvariance, PTL DEF SpecExchange
<1>2. CASE ~OneStartByte
  <2>1. Resynchronises
    BY <1>2 DEF Resynchronises
  <2> QED
    BY <2>1, PTL
<1> QED
  BY <1>1, <1>2

\* Two boards that a fault has got out of step are in step again after one
\* exchange without one: the next ends with the verdict on its own sample.
THEOREM BoardsRecover == SpecExchange => []ExchangeRecovers
<1>1. CASE OneStartByte
  <2>1. SlaveInv /\ StreamInv /\ [NextExchange]_exchange_vars => StreamInv'
    BY <1>1, StreamInExchange
  <2>2. SlaveInv /\ SlaveInv' /\ StreamInv /\ MasterTypeOK /\ RoundInv
          /\ [NextExchange]_exchange_vars => RoundInv'
    BY <1>1, RoundNext
  <2>3. InitExchange => StreamInv /\ RoundInv
    <3>1. InitExchange => RoundInv
      BY DEF InitExchange, Init, RoundInv
    <3> QED
      BY <3>1, StreamInit DEF InitExchange
  <2>4. SlaveInv /\ MasterTypeOK /\ RoundInv => ExchangeRecovers
    BY RoundRecovers
  <2> QED
    BY <2>1, <2>2, <2>3, <2>4, SlaveInvariance, MasterInvariance, PTL DEF SpecExchange
<1>2. CASE ~OneStartByte
  <2>1. SlaveInv /\ MasterTypeOK => ExchangeRecovers
    BY <1>2, TypeParts DEF ExchangeRecovers, SlaveInv, ParserInv
  <2> QED
    BY <2>1, SlaveInvariance, MasterInvariance, PTL
<1> QED
  BY <1>1, <1>2
=============================================================================
