------------------------------ MODULE Protocol ------------------------------
(***************************************************************************)
(* The two packets between the boards, as the master (ap/Protocol.c) and   *)
(* the slave (ap/Slave0/Slave0_Packet.c) build and parse them:             *)
(*                                                                         *)
(*   sensor packet  AA 10 DIST_H DIST_L TEMP HUMID XOR                     *)
(*   result packet  AA 20 MINUTE SECOND CODE XOR                           *)
(*                                                                         *)
(* The boards have no code in common: each has its own checksum loop.      *)
(* Packets are sequences of bytes, so C's index i is index i + 1 here.     *)
(***************************************************************************)
EXTENDS Bytes, Sequences, FiniteSets

PACKET_START_BYTE  == 170   \* 0xAA
PACKET_TYPE_SENSOR == 16    \* 0x10
PACKET_TYPE_RESULT == 32    \* 0x20
SENSOR_PACKET_LEN  == 7
RESULT_PACKET_LEN  == 6

\* A uint16_t: a high and a low byte.
Word == {d \in Nat : d \div 256 \in Byte}

ResultCode == 0 .. 8
Sample     == [distance : Word, temperature : Byte, humidity : Byte]
Result     == [minute : Byte, second : Byte, code : ResultCode]

\* Whether an odd number of packet[first] .. packet[last] have the bit of
\* value d set.
Parity(packet, first, last, d) ==
  Cardinality({i \in first .. last : (packet[i] \div d) % 2 = 1}) % 2

\* The exclusive or of packet[first] .. packet[last], 0 if there is none.
XorOver(packet, first, last) ==
  LET P(d) == Parity(packet, first, last, d)
  IN  1 * P(1) + 2 * P(2) + 4 * P(4) + 8 * P(8)
        + 16 * P(16) + 32 * P(32) + 64 * P(64) + 128 * P(128)

\* Protocol_CalcChecksum: from index 1 up to the checksum's own index.
CalcChecksum(packet, index) == XorOver(packet, 2, index)

\* Slave0_ChecksumXor, with its half-open range.
ChecksumXor(packet, start_idx, end_idx) == XorOver(packet, start_idx + 1, end_idx)

-----------------------------------------------------------------------------
(* The sensor packet: built by the master, parsed by the slave.            *)

BuildSensorPacket(s) ==
  LET body == <<PACKET_START_BYTE, PACKET_TYPE_SENSOR,
                s.distance \div 256, s.distance % 256,
                s.temperature, s.humidity>>
  IN  Append(body, CalcChecksum(body, SENSOR_PACKET_LEN - 1))

ParseSensorPacket_NoChecksum(raw) ==
  [ok |-> raw[1] = PACKET_START_BYTE /\ raw[2] = PACKET_TYPE_SENSOR,
   sample |-> [distance |-> 256 * raw[3] + raw[4],
               temperature |-> raw[5], humidity |-> raw[6]]]

ParseSensorPacket(raw) ==
  [ok |-> /\ raw[1] = PACKET_START_BYTE
          /\ raw[2] = PACKET_TYPE_SENSOR
          /\ raw[7] = ChecksumXor(raw, 1, 6),
   sample |-> [distance |-> 256 * raw[3] + raw[4],
               temperature |-> raw[5], humidity |-> raw[6]]]

-----------------------------------------------------------------------------
(* The result packet: built by the slave, parsed by the master.            *)

BuildResultPacket_Swapped(r) ==
  LET body == <<PACKET_START_BYTE, PACKET_TYPE_RESULT,
                r.second, r.minute, r.code>>
  IN  Append(body, ChecksumXor(body, 1, 5))

BuildResultPacket(r) ==
  LET body == <<PACKET_START_BYTE, PACKET_TYPE_RESULT,
                r.minute, r.second, r.code>>
  IN  Append(body, ChecksumXor(body, 1, 5))

\* A checksum that is not compared.
VerifyChecksum_Any(packet, len) == len >= 3

\* Protocol_VerifyChecksum for a packet of at least three bytes.
VerifyChecksum(packet, len) == packet[len] = CalcChecksum(packet, len - 1)

ParseResultPacket(packet) ==
  [ok |-> /\ Len(packet) = RESULT_PACKET_LEN
          /\ packet[1] = PACKET_START_BYTE
          /\ packet[2] = PACKET_TYPE_RESULT
          /\ VerifyChecksum(packet, RESULT_PACKET_LEN)
          /\ packet[5] \in ResultCode,
   result |-> [minute |-> packet[3], second |-> packet[4], code |-> packet[5]]]
=============================================================================
