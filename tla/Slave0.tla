------------------------------- MODULE Slave0 -------------------------------
(***************************************************************************)
(* The slave board's packet loop (ap/Slave0/Slave0.c) behind its UART,     *)
(* whose receiver holds one byte and overwrites it when the next one       *)
(* arrives first (uart_v1_0_S00_AXI.v).                                    *)
(*                                                                         *)
(* The parser has no timeout: bytes of a broken packet wait in the buffer  *)
(* until later bytes complete it.  While the slave sends an answer, draws  *)
(* the LCD and prints its log it does not read the UART at all.            *)
(*                                                                         *)
(* The line from the master carries packets of SENSOR_PACKET_LEN bytes.    *)
(* Bytes are lost or damaged one at a time, and the slave may restart.     *)
(***************************************************************************)
EXTENDS Slave0Warning, Protocol

CONSTANTS
  SentSamples,    \* samples the master sends
  Damaged,        \* what a damaged byte may turn into
  Clock,          \* times that Slave0Time_GetTime may return
  SendOutcomes,   \* whether UART2_SendBytes may return UART2_OK, or fail
  FAULT_GAP,      \* packets between two faults on the line, at least
  MAX_FRAMES      \* bound on the packets sent

ASSUME LineAssumption ==
  /\ SentSamples \subseteq Sample
  /\ Damaged \subseteq Byte
  /\ Clock \subseteq [minute : Byte, second : Byte]
  /\ SendOutcomes \subseteq BOOLEAN
  /\ FAULT_GAP \in Nat /\ MAX_FRAMES \in Nat

VARIABLES
  line,     \* bytes of the current packet still to arrive at the slave
  rdr,      \* the receiver's data register
  rx_flag,  \* it holds a byte that has not been read
  g_rx_buffer,   \* bytes of the packet received so far; its length is g_rx_index
  busy,     \* the slave is sending, drawing or printing
  status,   \* g_slave0_status
  answer,   \* the bytes of the last answer that left the slave
  \* History variables: no action of the code reads them.
  frame,    \* the sample of the packet on the line
  frames,   \* packets sent
  clean,    \* packets begun since the last fault, up to FAULT_GAP
  answers,  \* answers since the packet on the line began
  accepted  \* packets accepted since the packet on the line began

slave_vars == <<g_rx_buffer, busy, status, answer>>
vars == <<line, rdr, rx_flag, g_rx_buffer, busy, status, answer, frame, frames,
          clean, answers, accepted, warning_vars>>

Status ==
  [packet_ok_count : Nat, packet_error_count : Nat, result_sent_count : Nat,
   warning_count : Nat, last_sensor : Sample,
   last_minute : Byte, last_second : Byte, last_result_code : ResultCode]

NoSample == [distance |-> 0, temperature |-> 0, humidity |-> 0]

InitialStatus ==
  [packet_ok_count |-> 0, packet_error_count |-> 0, result_sent_count |-> 0,
   warning_count |-> 0, last_sensor |-> NoSample,
   last_minute |-> 0, last_second |-> 0, last_result_code |-> NORMAL]

-----------------------------------------------------------------------------
(* One received byte: Slave0_ProcessReceivedByte.                          *)

\* The byte that arrives after n others is the last of a packet.
Completes(n) == n + 1 >= SENSOR_PACKET_LEN

\* Only the last byte of a packet that has been handled is given up.
ParserAfterPacket_StepsBack(raw) == SubSeq(raw, 1, Len(raw) - 1)
\* Slave0_ResetParser
ParserAfterPacket(raw) == <<>>

\* A byte that broke a packet is kept as if it began the next one.
WrongType_Keeps(b) == <<b>>
\* A start byte in place of the type begins the next packet.
WrongType(b) == IF b = PACKET_START_BYTE THEN <<b>> ELSE <<>>

CountError(st) == [st EXCEPT !.packet_error_count = @ + 1]

\* The status after Slave0_SendResultPacket(code) at time t.
AfterAnswer(st, code, t, sent) ==
  [st EXCEPT !.last_minute = t.minute, !.last_second = t.second,
             !.last_result_code = code,
             !.result_sent_count = IF sent THEN @ + 1 ELSE @,
             !.packet_error_count = IF sent THEN @ ELSE @ + 1,
             !.warning_count = IF IsWarningCode(code) THEN @ + 1 ELSE @]

SendResultPacket(st, code) ==
  \E t \in Clock, sent \in SendOutcomes :
    /\ status' = AfterAnswer(st, code, t, sent)
    /\ answer' = IF sent
                 THEN BuildResultPacket([minute |-> t.minute,
                                         second |-> t.second, code |-> code])
                 ELSE <<>>
    /\ answers' = answers + 1
    /\ busy' = TRUE

\* A packet that fails to parse is evaluated as well.
ProcessCompletedPacket_EvaluatesAll(raw) ==
  LET parsed == ParseSensorPacket(raw)
  IN  /\ Evaluate(parsed.sample)
      /\ \/ /\ ~parsed.ok
            /\ SendResultPacket(CountError(status), SENSOR_ERROR)
            /\ UNCHANGED accepted
         \/ /\ parsed.ok
            /\ accepted' = accepted + 1
            /\ SendResultPacket([status EXCEPT !.packet_ok_count = @ + 1,
                                               !.last_sensor = parsed.sample],
                                verdict')

\* A packet that fails to parse is answered with SENSOR_ERROR but leaves the
\* warning counter alone; one that parses is evaluated first.
ProcessCompletedPacket(raw) ==
  LET parsed == ParseSensorPacket(raw)
  IN  \/ /\ ~parsed.ok
         /\ SendResultPacket(CountError(status), SENSOR_ERROR)
         /\ UNCHANGED <<accepted, warning_vars>>
      \/ /\ parsed.ok
         /\ Evaluate(parsed.sample)
         /\ accepted' = accepted + 1
         /\ SendResultPacket([status EXCEPT !.packet_ok_count = @ + 1,
                                            !.last_sensor = parsed.sample],
                             verdict')

\* Everything before a start byte is skipped.
FirstByte(b) == IF b = PACKET_START_BYTE THEN <<b>> ELSE <<>>

ProcessReceivedByte(b) ==
  LET n == Len(g_rx_buffer)
      quiet == UNCHANGED <<busy, answer, answers, accepted, warning_vars>>
  IN  \/ /\ n = 0
         /\ g_rx_buffer' = FirstByte(b)
         /\ UNCHANGED status /\ quiet
      \/ /\ n = 1 /\ b # PACKET_TYPE_SENSOR
         /\ g_rx_buffer' = WrongType(b)
         /\ status' = CountError(status) /\ quiet
      \/ /\ n >= 1 /\ ~(n = 1 /\ b # PACKET_TYPE_SENSOR)
         /\ ~Completes(n)
         /\ g_rx_buffer' = Append(g_rx_buffer, b)
         /\ UNCHANGED status /\ quiet
      \/ /\ Completes(n)
         /\ LET raw == Append(g_rx_buffer, b)
            IN  /\ ProcessCompletedPacket(raw)
                /\ g_rx_buffer' = ParserAfterPacket(raw)

\* UART2_RecvByte with a timeout of zero: the flag is read, then RDR.
TakeByte == rx_flag /\ rx_flag' = FALSE

\* UART2_Init and UART2_FlushRx.
EmptyReceiver == rx_flag' = FALSE

\* One turn of the loop in Slave0_Execute.
Execute ==
  /\ ~busy
  /\ TakeByte
  /\ ProcessReceivedByte(rdr)
  /\ UNCHANGED <<line, rdr, frame, frames, clean>>

\* The calls that follow the answer return, and the main loop goes on.
Finish ==
  /\ busy
  /\ busy' = FALSE
  /\ UNCHANGED <<line, rdr, rx_flag, g_rx_buffer, status, answer, frame, frames,
                 clean, answers, accepted, warning_vars>>

\* The slave restarts.  Slave0_Init empties the receiver last, so the bytes
\* that arrive before that are gone as well.
Restart ==
  /\ clean >= FAULT_GAP
  /\ clean' = 0
  /\ \E n \in 0 .. Len(line) : line' = SubSeq(line, n + 1, Len(line))
  /\ g_rx_buffer' = <<>> /\ busy' = FALSE
  /\ status' = InitialStatus
  /\ answer' = <<>>
  /\ EmptyReceiver
  /\ ResetWarning
  /\ UNCHANGED <<rdr, frame, frames, answers, accepted>>

-----------------------------------------------------------------------------
(* The line.  The slave polls every 50 us and a byte takes 87 us, so a byte*)
(* meets an unread one only when the slave is busy; the master pauses for  *)
(* two seconds between packets, longer than the slave is ever busy.        *)

Quiet == line = <<>> /\ ~rx_flag /\ ~busy

SendFrame(s) ==
  /\ Quiet /\ frames < MAX_FRAMES
  /\ line' = BuildSensorPacket(s)
  /\ frame' = s /\ frames' = frames + 1
  /\ clean' = IF clean < FAULT_GAP THEN clean + 1 ELSE clean
  /\ answers' = 0 /\ accepted' = 0
  /\ UNCHANGED <<rdr, rx_flag, slave_vars, warning_vars>>

Receive(b) ==
  /\ line # <<>>
  /\ rx_flag => busy
  /\ line' = Tail(line)
  /\ rdr' = b /\ rx_flag' = TRUE
  /\ UNCHANGED <<slave_vars, frame, frames, answers, accepted, warning_vars>>

Arrive == Receive(Head(line)) /\ UNCHANGED clean

\* A slave that comes back late may read RDR in the very clock in which the
\* next byte gets there: it gets the old byte, and the read clears rx_flag for
\* both.  Its parser is empty then, as after every answer.
ReadCollides ==
  /\ busy /\ busy' = FALSE
  /\ TakeByte
  /\ line # <<>> /\ line' = Tail(line) /\ rdr' = Head(line)
  /\ g_rx_buffer = <<>> /\ g_rx_buffer' = FirstByte(rdr)
  /\ UNCHANGED <<status, answer, frame, frames, clean, answers, accepted,
                 warning_vars>>

\* Faults come one at a time, FAULT_GAP packets apart.
Damage ==
  /\ clean >= FAULT_GAP /\ clean' = 0
  /\ line # <<>>
  /\ \E b \in Damaged \ {Head(line)} : Receive(b)

Lose ==
  /\ clean >= FAULT_GAP /\ clean' = 0
  /\ line # <<>>
  /\ line' = Tail(line)
  /\ UNCHANGED <<rdr, rx_flag, slave_vars, frame, frames, answers, accepted,
                 warning_vars>>

Init ==
  /\ InitWarning
  /\ line = <<>> /\ rdr = 0 /\ rx_flag = FALSE
  /\ g_rx_buffer = <<>> /\ busy = FALSE
  /\ status = InitialStatus
  /\ answer = <<>>
  /\ frame = NoSample /\ frames = 0 /\ clean = FAULT_GAP
  /\ answers = 0 /\ accepted = 0

Stop == Quiet /\ frames = MAX_FRAMES /\ UNCHANGED vars

Next ==
  \/ \E s \in SentSamples : SendFrame(s)
  \/ Arrive \/ ReadCollides \/ Damage \/ Lose
  \/ Execute \/ Finish \/ Restart
  \/ Stop

Spec == Init /\ [][Next]_vars

-----------------------------------------------------------------------------
(* Properties.                                                             *)

SlaveTypeOK ==
  /\ line \in Seq(Byte) /\ Len(line) <= SENSOR_PACKET_LEN
  /\ rdr \in Byte /\ rx_flag \in BOOLEAN
  /\ g_rx_buffer \in Seq(Byte) /\ Len(g_rx_buffer) < SENSOR_PACKET_LEN
  /\ busy \in BOOLEAN
  /\ status \in Status /\ answer \in Seq(Byte)
  /\ answers \in Nat /\ accepted \in Nat
  /\ frame \in Sample /\ frames \in 0 .. MAX_FRAMES /\ clean \in 0 .. FAULT_GAP

\* Whatever the line carries, the buffer holds the beginning of a sensor
\* packet: a false start never stays in it.  So a packet that fails to parse
\* has a bad checksum and nothing else, and g_rx_index never reaches the
\* size of the buffer, which makes Slave0_ProcessReceivedByte's bound check
\* at line 99 unreachable.
BufferHoldsPrefix ==
  /\ g_rx_buffer # <<>> => g_rx_buffer[1] = PACKET_START_BYTE
  /\ Len(g_rx_buffer) >= 2 => g_rx_buffer[2] = PACKET_TYPE_SENSOR

\* No packet that is sent has a second start byte in it.
OneStartByte ==
  \A s \in SentSamples :
    \A i \in 2 .. SENSOR_PACKET_LEN : BuildSensorPacket(s)[i] # PACKET_START_BYTE

\* One clean packet after a lost or damaged byte, or after a restart in the
\* middle of a packet, leaves the parser at the start of a packet, although
\* nothing but later bytes ever empties its buffer.  For samples whose
\* packet has no second start byte in it.
Resynchronises ==
  OneStartByte /\ Quiet /\ clean >= 1 /\ frames > 0 => g_rx_buffer = <<>>

\* What the slave sends is what the master's parser accepts, with the time
\* and the code that the slave recorded: the two boards' separate packet
\* code agrees.
AnswerParses ==
  answer # <<>> =>
    /\ ParseResultPacket(answer).ok
    /\ ParseResultPacket(answer).result =
         [minute |-> status.last_minute, second |-> status.last_second,
          code |-> status.last_result_code]

\* The slave accepts a packet only for the sample that the master is sending:
\* never one put together from the pieces of two packets, or a damaged one.
AcceptedIsCurrent ==
  [][status'.packet_ok_count > status.packet_ok_count =>
       status'.last_sensor = frame]_vars

\* The slave's verdict changes only by evaluating an accepted sample: a
\* packet that fails its checksum neither confirms a warning nor ends the
\* run of samples that leads to one.
OnlyAcceptedSamplesCount ==
  [][UNCHANGED warning_vars \/ status'.packet_ok_count # status.packet_ok_count
       \/ status' = InitialStatus]_vars
=============================================================================
