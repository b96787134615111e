-------------------------- MODULE MCPacketExchange --------------------------
EXTENDS PacketExchange

Reading(d, t, h) == [distance |-> d, temperature |-> t, humidity |-> h]

\* Packets whose only start byte is the first one: two different warnings, a
\* normal sample, and a measurement that brought no distance, which the slave
\* answers as a sensor error.
PlainSamples ==
  {Reading(20, 25, 50), Reading(300, 31, 75), Reading(300, 25, 50),
   Reading(DISTANCE_INVALID, 25, 50)}

ASSUME PlainAssumption == OneStartByte

\* What the run tells states apart by.  Left out are a receive register whose
\* byte has been read, since nothing reads it again, and the slave's four
\* counters: it prints them, no guard reads them, and the properties ask only
\* whether the one of the packets accepted moves in a step.
WhatMatters ==
  <<[status EXCEPT !.packet_ok_count = 0, !.packet_error_count = 0,
                   !.result_sent_count = 0, !.warning_count = 0],
    rx_flag, IF rx_flag THEN rdr ELSE 0,
    m_rx_flag, IF m_rx_flag THEN m_rdr ELSE 0,
    line, g_rx_buffer, busy, answer, frame, frames, clean, answers, accepted,
    warning_vars, answer_line, master_vars, reply>>

DamagedBytes == {0, 16, 170}
OneTime      == {[minute |-> 12, second |-> 34]}
=============================================================================
