--------------------------- MODULE PacketExchange ---------------------------
(***************************************************************************)
(* The exchange of a sample for a verdict between the two boards: the      *)
(* master's side of it (SEND_SENSOR_PACKET in ap/MasterApp.c over          *)
(* HAL/UART2) composed with the slave of Slave0.                           *)
(*                                                                         *)
(* The master flushes its receiver, writes the packet and only then reads  *)
(* the answer; until it reads, its one receive register is overwritten by  *)
(* every byte that comes.  The slave does not read while it answers.  So   *)
(* an answer that a broken packet provokes too early is lost on one side   *)
(* or meets a packet on the other, and either board may restart.           *)
(***************************************************************************)
EXTENDS Slave0

VARIABLES
  back,            \* bytes of the answer still to arrive at the master
  lead,            \* bytes the line is ahead of the answer sent beside it
  m_rdr, m_rx_flag,  \* the master's receiver
  exchange,        \* "running" while the master is in SEND_SENSOR_PACKET
  result_packet,   \* the bytes RecvBytes has stored so far
  current_result,
  outcome,         \* how the exchange ended
  \* History variable: no action of the code reads it.
  reply            \* what the slave's last answer says, and of which sample

answer_line  == <<back, lead>>
receiver     == <<m_rdr, m_rx_flag>>
master_vars  == <<exchange, result_packet, current_result, outcome>>
exchange_vars == <<vars, answer_line, receiver, master_vars, reply>>

NoResult == [minute |-> 0, second |-> 0, code |-> NORMAL]
NoReply  == [result |-> NoResult, sample |-> NoSample, accepted |-> FALSE]

\* What can still be received of bytes whose sender is reset: nothing, or the
\* byte that was being sent, low bit first, with the k bits that were out and
\* the ones of the idle line.
Cut(bytes) ==
  {<<>>} \union
  IF bytes = <<>> THEN {}
  ELSE {<<(Head(bytes) % 2^k) + 256 - 2^k>> : k \in 0 .. 7}

-----------------------------------------------------------------------------
(* The master.                                                             *)

\* The receive flag after a UART2_FlushRx that does nothing.
FlushRx_Nothing == m_rx_flag
\* UART2_FlushRx: one byte at the most can be waiting.
FlushRx == FALSE

\* UART2_SendBytes returns when the last byte is on its way.
Receiving == exchange = "running" /\ Len(line) <= 1

\* A new sequence has cleared current_result; the sample is sent.
BeginExchange(s) ==
  /\ exchange = "idle" /\ back = <<>>
  /\ SendFrame(s)
  /\ m_rx_flag' = FlushRx
  /\ exchange' = "running" /\ outcome' = "none"
  /\ result_packet' = <<>> /\ current_result' = NoResult
  /\ lead' = 0
  /\ UNCHANGED <<back, m_rdr, reply>>

\* The exchange ends with the answer in raw, or with what is wrong with it.
Accept(raw) ==
  LET parsed == ParseResultPacket(raw)
  IN  /\ outcome' = IF parsed.ok THEN "ok" ELSE "failed"
      /\ current_result' = IF parsed.ok THEN parsed.result ELSE current_result
      /\ exchange' = "idle"

IsWhole(raw) == Len(raw) >= RESULT_PACKET_LEN

RecvByte ==
  /\ Receiving /\ m_rx_flag
  /\ m_rx_flag' = FALSE
  /\ LET raw == Append(result_packet, m_rdr)
     IN  /\ result_packet' = raw
         /\ \/ IsWhole(raw) /\ Accept(raw)
            \/ ~IsWhole(raw) /\ UNCHANGED <<exchange, outcome, current_result>>
  /\ UNCHANGED <<vars, answer_line, m_rdr, reply>>

\* A byte is waited for for a second, longer than the slave ever takes: a
\* wait that times out is one for a byte that does not come.
RecvTimeout ==
  /\ Receiving /\ ~m_rx_flag
  /\ Quiet /\ back = <<>>
  /\ outcome' = "failed" /\ exchange' = "idle"
  /\ UNCHANGED <<vars, answer_line, receiver, result_packet, current_result, reply>>

\* A reset of the master in the middle of an exchange.
MasterRestart ==
  /\ exchange = "running" /\ clean >= FAULT_GAP
  /\ clean' = 0
  /\ line' \in Cut(line)
  /\ exchange' = "idle" /\ outcome' = "none"
  /\ m_rx_flag' = FALSE
  /\ result_packet' = <<>> /\ current_result' = NoResult
  /\ UNCHANGED <<rdr, rx_flag, slave_vars, frame, frames, answers, accepted,
                 warning_vars, answer_line, m_rdr, reply>>

-----------------------------------------------------------------------------
(* The slave, and the answer on its way.  Bytes take the same time in both *)
(* directions, so the line gets one byte ahead of an answer sent beside    *)
(* it, or two if the slave was slow to start it.                           *)

\* What has left of a packet when UART2_SendBytes gives up.
CutOff(packet) == {SubSeq(packet, 1, n) : n \in 0 .. Len(packet) - 1}

SlaveExecute ==
  /\ Execute
  /\ \/ answers' = answers /\ UNCHANGED <<answer_line, reply>>
     \/ /\ answers' # answers
        /\ reply' = [result |-> [minute |-> status'.last_minute,
                                 second |-> status'.last_second,
                                 code |-> status'.last_result_code],
                     sample |-> status'.last_sensor,
                     accepted |-> accepted' # accepted]
        /\ back' \in IF answer' # <<>> THEN {answer'}
                     ELSE CutOff(BuildResultPacket(reply'.result))
        /\ lead' = 0
  /\ UNCHANGED <<receiver, master_vars>>

\* The slave reads again when the last byte of the answer is on its way.
SlaveFinish ==
  /\ Len(back) <= 1
  /\ Finish
  /\ UNCHANGED <<answer_line, receiver, master_vars, reply>>

SlaveRestart ==
  /\ Restart
  /\ back' \in Cut(back)
  /\ UNCHANGED <<lead, receiver, master_vars, reply>>

\* A step of the line to the slave.
KeepsPace ==
  /\ \/ back = <<>> /\ UNCHANGED lead
     \/ back # <<>> /\ lead < 2 /\ lead' = lead + 1
  /\ UNCHANGED <<back, receiver, master_vars, reply>>

SlaveReadCollides == Len(back) <= 1 /\ ReadCollides /\ KeepsPace

\* A step of the line to the master.
TakeBack ==
  /\ back # <<>> /\ back' = Tail(back)
  /\ \/ lead > 0 /\ lead' = lead - 1
     \/ lead = 0 /\ line = <<>> /\ UNCHANGED lead
  /\ UNCHANGED <<line, rdr, rx_flag, slave_vars, frame, frames, answers, accepted,
                 warning_vars, master_vars, reply>>

\* The master reads faster than bytes come.
ReceiveBack(b) ==
  /\ m_rx_flag => ~Receiving
  /\ TakeBack
  /\ m_rdr' = b /\ m_rx_flag' = TRUE

BackArrive == ReceiveBack(Head(back)) /\ UNCHANGED clean

BackDamage ==
  /\ clean >= FAULT_GAP /\ clean' = 0
  /\ back # <<>>
  /\ \E b \in Damaged \ {Head(back)} : ReceiveBack(b)

BackLose ==
  /\ clean >= FAULT_GAP /\ clean' = 0
  /\ TakeBack
  /\ UNCHANGED receiver

InitExchange ==
  /\ Init
  /\ back = <<>> /\ lead = 0
  /\ m_rdr = 0 /\ m_rx_flag = FALSE
  /\ exchange = "idle" /\ outcome = "none"
  /\ result_packet = <<>> /\ current_result = NoResult /\ reply = NoReply

AllQuiet == Quiet /\ exchange = "idle" /\ back = <<>>

StopExchange == AllQuiet /\ frames = MAX_FRAMES /\ UNCHANGED exchange_vars

NextExchange ==
  \/ \E s \in SentSamples : BeginExchange(s)
  \/ RecvByte \/ RecvTimeout \/ MasterRestart
  \/ SlaveExecute \/ SlaveFinish \/ SlaveRestart
  \/ (Arrive \/ Damage \/ Lose) /\ KeepsPace
  \/ SlaveReadCollides
  \/ BackArrive \/ BackDamage \/ BackLose
  \/ StopExchange

SpecExchange == InitExchange /\ [][NextExchange]_exchange_vars

-----------------------------------------------------------------------------
(* Properties.                                                             *)

ExchangeTypeOK ==
  /\ SlaveTypeOK
  /\ back \in Seq(Byte) /\ Len(back) <= RESULT_PACKET_LEN
  /\ lead \in 0 .. 2
  /\ m_rdr \in Byte /\ m_rx_flag \in BOOLEAN
  /\ exchange \in {"idle", "running"} /\ outcome \in {"none", "ok", "failed"}
  /\ result_packet \in Seq(Byte)
  /\ exchange = "running" => Len(result_packet) < RESULT_PACKET_LEN
  /\ outcome = "ok" => Len(result_packet) = RESULT_PACKET_LEN
  /\ current_result \in Result
  /\ reply \in [result : Result, sample : Sample, accepted : BOOLEAN]

\* What the master takes for the answer to its sample is exactly what the
\* slave recorded as its only answer since that sample was sent, and it is
\* the verdict on that sample, or a sensor error because its packet was broken;
\* never the verdict on an earlier one, although the answer carries nothing
\* that says which sample it is for.
AnswerIsForThisSample ==
  [][outcome' = "ok" /\ outcome # "ok" =>
       /\ answers = 1
       /\ current_result' = reply.result
       /\ IF reply.accepted THEN reply.sample = frame
                            ELSE current_result'.code = SENSOR_ERROR]_exchange_vars

\* Two boards that got out of step by a fault are in step again after one
\* clean exchange: the second one ends with the slave's verdict on its
\* sample, although neither board knows of the fault, unless the slave gives
\* up sending it.  For samples whose packet has no second start byte in it.
ExchangeRecovers ==
  /\ ExchangeTypeOK
  /\ OneStartByte /\ AllQuiet /\ frames > 0 /\ clean >= 2 /\ answer # <<>> =>
       /\ outcome = "ok"
       /\ accepted = 1 /\ status.last_sensor = frame
       /\ current_result.code = verdict
=============================================================================
