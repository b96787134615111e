-------------------------- MODULE WarningLogProofs --------------------------
(***************************************************************************)
(* The warning log survives interruption: IInv is inductive, for every     *)
(* size of the ring and every order of resets and failed transfers; and    *)
(* through DumpAll the EEPROM is the event log of EventLog.                *)
(***************************************************************************)
EXTENDS WarningLogEvents, SequenceTheorems, TLAPS

-----------------------------------------------------------------------------
(* Arithmetic and addresses.                                               *)

\* The exclusive or of two bytes is a byte.
LEMMA XorByte ==
  ASSUME NEW a \in Byte, NEW b \in Byte PROVE ByteXor(a, b) \in Byte
<1>1. \A d \in {1, 2, 4, 8, 16, 32, 64, 128} : XorBit(a, b, d) \in 0..1
  BY DEF XorBit, Byte
<1> QED BY <1>1 DEF ByteXor, Byte

\* Slots are laid out one after the other, above the header.
LEMMA SlotAddress ==
  ASSUME NEW k \in Slots
  PROVE  /\ GetLogAddress(k) = LOG_BASE_ADDR + 5 * k
         /\ \A f \in Fields : /\ GetLogAddress(k) + f \in Addr
                              /\ GetLogAddress(k) + f > LOG_NEXT_SEQ_ADDR
<1>1. k \in Nat /\ k + 1 <= LOG_MAX_COUNT
  BY LayoutAssumption DEF Slots
<1>2. 5 * (k + 1) <= 5 * LOG_MAX_COUNT
  BY <1>1, LayoutAssumption
<1>3. LOG_BASE_ADDR + 5 * k + 5 <= EEPROM_SIZE
  BY <1>1, <1>2, LayoutAssumption DEF LOG_SIZE_BYTES
<1>4. LOG_BASE_ADDR + k * LOG_SIZE_BYTES \in 0 .. 255
  BY <1>1, <1>3, LayoutAssumption DEF LOG_SIZE_BYTES, LOG_NEXT_SEQ_ADDR
<1>5. \A x \in 0 .. 255 : x % 256 = x
  OBVIOUS
<1>6. GetLogAddress(k) = LOG_BASE_ADDR + 5 * k
  BY <1>1, <1>4, <1>5 DEF GetLogAddress, LOG_SIZE_BYTES
<1> QED
  BY <1>1, <1>3, <1>6, LayoutAssumption
  DEF Fields, LOG_SIZE_BYTES, Addr, LOG_NEXT_SEQ_ADDR

\* Two slots share no byte.
LEMMA SlotsDisjoint ==
  ASSUME NEW j \in Slots, NEW k \in Slots, NEW e \in Fields, NEW f \in Fields,
         GetLogAddress(j) + e = GetLogAddress(k) + f
  PROVE  j = k /\ e = f
<1>1. j \in Int /\ k \in Int
  BY LayoutAssumption DEF Slots
<1> QED
  BY <1>1, SlotAddress, LayoutAssumption DEF Fields, LOG_SIZE_BYTES

\* Memories that agree above the header hold the same records.
LEMMA HeaderByteFrame ==
  ASSUME NEW m, NEW n, NEW k \in Slots,
         \A x \in Addr : x > LOG_NEXT_SEQ_ADDR => n[x] = m[x]
  PROVE  RecordAt(n, k) = RecordAt(m, k)
  BY SlotAddress DEF RecordAt

\* Memories that differ in a byte of one record agree on every other record.
LEMMA RecordByteFrame ==
  ASSUME NEW m, NEW n, NEW j \in Slots, NEW e \in Fields, NEW k \in Slots, k # j,
         \A x \in Addr : x # GetLogAddress(j) + e => n[x] = m[x]
  PROVE  RecordAt(n, k) = RecordAt(m, k)
<1>1. \A f \in Fields : /\ GetLogAddress(k) + f \in Addr
                        /\ GetLogAddress(k) + f # GetLogAddress(j) + e
  BY SlotAddress, SlotsDisjoint
<1> QED BY <1>1 DEF RecordAt

-----------------------------------------------------------------------------
(* What the helpers return.                                                *)

\* The cells of the header are on the chip, and its values fit into bytes.
LEMMA HeaderCells ==
  /\ {LOG_MAGIC_ADDR, LOG_WRITE_INDEX_ADDR, LOG_COUNT_ADDR, LOG_NEXT_SEQ_ADDR}
       \subseteq Addr
  /\ LOG_MAX_COUNT \in Byte
  /\ Slots \subseteq Byte
<1>1. 5 * LOG_MAX_COUNT <= 256 /\ LOG_NEXT_SEQ_ADDR < EEPROM_SIZE
  BY LayoutAssumption DEF LOG_SIZE_BYTES, LOG_NEXT_SEQ_ADDR
<1> QED
  BY <1>1, LayoutAssumption
  DEF LOG_MAGIC_ADDR, LOG_WRITE_INDEX_ADDR, LOG_COUNT_ADDR, LOG_NEXT_SEQ_ADDR,
      Addr, Byte, Slots

\* Numbering never yields 0 and stays within the width of the field.
LEMMA NextSeqType ==
  ASSUME NEW s \in Byte
  PROVE  NextSeq(s) \in 1 .. SEQ_MODULUS - 1 /\ NextSeq(s) \in Byte
<1>1. SEQ_MODULUS \in 2 .. 256
  BY ValueAssumption
<1>2. (s + 1) % SEQ_MODULUS \in 0 .. SEQ_MODULUS - 1
  BY <1>1 DEF Byte
<1> QED BY <1>1, <1>2 DEF NextSeq, Byte

\* The write index goes round within the ring.
LEMMA NextIndexType == ASSUME NEW k \in Slots PROVE NextIndex(k) \in Slots
  BY LayoutAssumption DEF NextIndex, Slots

HeaderType == [write_index : Slots, log_count : 0 .. LOG_MAX_COUNT, next_seq : Byte]

\* The header after a Save is a header.
LEMMA NextHeaderType ==
  ASSUME NEW h \in HeaderType PROVE NextHeader(h) \in HeaderType
  BY NextSeqType, NextIndexType, LayoutAssumption DEF NextHeader, HeaderType

\* So is whatever ReadHeader makes of the bytes on the chip.
LEMMA ReadHeaderType ==
  ASSUME NEW m \in [Addr -> Byte] PROVE ReadHeader(m) \in HeaderType
<1>1. /\ m[LOG_WRITE_INDEX_ADDR] \in Byte /\ m[LOG_COUNT_ADDR] \in Byte
      /\ m[LOG_NEXT_SEQ_ADDR] \in Byte
  BY HeaderCells
<1> QED BY <1>1, LayoutAssumption DEF ReadHeader, HeaderType, Slots, Byte

\* So is the one that the operation under way is storing.
LEMMA TargetType ==
  ASSUME hdr \in HeaderType PROVE Target \in HeaderType
  BY NextHeaderType, LayoutAssumption
  DEF Target, FormattedHeader, HeaderType, Slots, Byte

\* A record built by Save carries its sequence number and a good checksum.
LEMMA NewRecordType ==
  ASSUME NEW s \in Byte, NEW mi \in Byte, NEW se \in Byte, NEW c \in Byte
  PROVE  /\ NewRecord(s, mi, se, c) \in [Fields -> Byte]
         /\ NewRecord(s, mi, se, c)[LOG_SEQ_IDX] = s
         /\ NewRecord(s, mi, se, c)[LOG_CHECKSUM_IDX]
              = CalcChecksum(NewRecord(s, mi, se, c))
<1> DEFINE raw == [f \in Fields |-> IF f = 4 THEN 0 ELSE <<s, mi, se, c>>[f + 1]]
           r   == [raw EXCEPT ![4] = CalcChecksum(raw)]
<1>1. r = NewRecord(s, mi, se, c)
  BY DEF NewRecord, LOG_CHECKSUM_IDX
<1>2. /\ raw \in [Fields -> Byte] /\ raw[0] = s /\ raw[1] = mi /\ raw[2] = se /\ raw[3] = c
  BY DEF Fields, LOG_SIZE_BYTES, Byte
<1>3. CalcChecksum(raw) \in Byte
  <2>1. ByteXor(s, mi) \in Byte
    BY XorByte
  <2>2. ByteXor(ByteXor(s, mi), se) \in Byte
    BY <2>1, XorByte
  <2>3. ByteXor(ByteXor(ByteXor(s, mi), se), c) \in Byte
    BY <2>2, XorByte
  <2> HIDE DEF raw
  <2> QED
    BY <1>2, <2>3
    DEF CalcChecksum, LOG_SEQ_IDX, LOG_MINUTE_IDX, LOG_SECOND_IDX, LOG_WARNING_CODE_IDX
<1>4. r[0] = raw[0] /\ r[1] = raw[1] /\ r[2] = raw[2] /\ r[3] = raw[3]
      /\ r[4] = CalcChecksum(raw) /\ r \in [Fields -> Byte]
  <2> HIDE DEF raw
  <2> QED BY <1>2, <1>3 DEF Fields, LOG_SIZE_BYTES
<1>5. CalcChecksum(r) = CalcChecksum(raw)
  <2> HIDE DEF raw, r
  <2> QED
    BY <1>4
    DEF CalcChecksum, LOG_SEQ_IDX, LOG_MINUTE_IDX, LOG_SECOND_IDX, LOG_WARNING_CODE_IDX
<1> HIDE DEF raw, r
<1> QED BY <1>1, <1>2, <1>4, <1>5 DEF LOG_SEQ_IDX, LOG_CHECKSUM_IDX

-----------------------------------------------------------------------------
(* Type correctness.                                                       *)

\* At power-up every variable is in its range,
LEMMA InitTypeOK == Init => TypeOK
<1> SUFFICES ASSUME Init PROVE TypeOK
  OBVIOUS
<1>1. mem \in [Addr -> Byte]
  BY ValueAssumption DEF Init
<1>2. hdr \in HeaderType
  BY LayoutAssumption DEF Init, NoHeader, HeaderType, Slots, Byte
<1>3. record \in [Fields -> Byte] /\ sent \in Fields
  BY DEF Init, NoRecord, Byte, Fields, LOG_SIZE_BYTES
<1> QED BY <1>1, <1>2, <1>3 DEF Init, TypeOK, HeaderType, Control

\* also after an operation has ended, however it did,
LEMMA ReturnType ==
  ASSUME NEW to \in Control, Return(to)
  PROVE  /\ pc' \in Control
         /\ op' \in {"none", "format", "save"}
         /\ hdr' \in HeaderType
         /\ record' \in [Fields -> Byte]
         /\ sent' \in Fields
  BY LayoutAssumption
  DEF Return, HeaderType, NoHeader, NoRecord, Slots, Byte, Fields, LOG_SIZE_BYTES

\* and after every step.
LEMMA StepTypeOK == TypeOK /\ [Next]_vars => TypeOK'
<1> SUFFICES ASSUME TypeOK, [Next]_vars PROVE TypeOK'
  OBVIOUS
<1> USE DEF TypeOK, HeaderType
<1>1. CASE Boot
  BY <1>1 DEF Boot, history, Control, WriteSteps
<1>2. CASE BootUnreadable
  BY <1>2 DEF BootUnreadable, history, Control
<1>3. CASE WriteMagic
  <2>1. LOG_MAGIC_VALUE \in Byte
    BY DEF LOG_MAGIC_VALUE, Byte
  <2> QED BY <1>3, <2>1 DEF WriteMagic, history, Control, WriteSteps, HeaderSteps
<1>4. ASSUME NEW mi \in Minutes, NEW se \in Seconds, NEW c \in Codes, Save(mi, se, c)
      PROVE  TypeOK'
  <2>1. hdr' \in HeaderType
    BY <1>4, ReadHeaderType DEF Save
  <2>2. record' \in [Fields -> Byte]
    BY <1>4, ReadHeaderType, NewRecordType, ValueAssumption DEF Save
  <2> QED
    BY <1>4, <2>1, <2>2 DEF Save, memory, Control, WriteSteps, Fields, LOG_SIZE_BYTES
<1>5. CASE WriteRecordByte
  <2>1. mem' \in [Addr -> Byte]
    BY <1>5 DEF WriteRecordByte
  <2>2. sent' \in Fields /\ pc' \in Control
    BY <1>5 DEF WriteRecordByte, Fields, LOG_SIZE_BYTES, Control, WriteSteps, HeaderSteps
  <2>3. written' \subseteq Slots
    BY <1>5 DEF WriteRecordByte
  <2> QED BY <1>5, <2>1, <2>2, <2>3 DEF WriteRecordByte
<1>6. CASE WriteIndex
  BY <1>6, TargetType, HeaderCells
  DEF WriteIndex, history, Control, WriteSteps, HeaderSteps
<1>7. CASE WriteCount
  <2>1. Target.log_count \in Byte
    BY TargetType, LayoutAssumption, HeaderCells DEF Byte
  <2> QED BY <1>7, <2>1 DEF WriteCount, history, Control, WriteSteps, HeaderSteps
<1>8. CASE WriteSeq
  <2>1. mem' \in [Addr -> Byte]
    BY <1>8, TargetType DEF WriteSeq
  <2> QED BY <1>8, <2>1, ReturnType DEF WriteSeq, history, Control
<1>9. CASE Timeout
  BY <1>9, ReturnType DEF Timeout, memory, Control
<1>10. CASE Crash
  BY <1>10, ReturnType DEF Crash, memory, Control
<1>11. CASE UNCHANGED vars
  BY <1>11 DEF vars
<1> QED
  BY <1>1, <1>2, <1>3, <1>4, <1>5, <1>6, <1>7, <1>8, <1>9, <1>10, <1>11
  DEF Next, Program

\* In every behaviour the EEPROM holds bytes, the locals of Save hold a
\* header and a record, and only slots of the ring are ever written.
THEOREM TypeCorrect == Spec => []TypeOK
  BY InitTypeOK, StepTypeOK, PTL DEF Spec

-----------------------------------------------------------------------------
(* The invariant, action by action.                                        *)

\* While nothing is formatted, only the control and record parts say anything.
LEMMA UnformattedStep ==
  ASSUME ~formatted', TypeOK', ControlInv', FormatInv', RecordInv'
  PROVE  IInv'
  BY DEF IInv, HeaderInv, WrittenInv, HeaderStaysValid, TornOnlyAtWriteIndex,
         SequenceFollowsRing

\* The chip is not formatted at power-up.
LEMMA InitIInv == Init => IInv
<1> SUFFICES ASSUME Init PROVE IInv
  OBVIOUS
<1>1. TypeOK
  BY InitTypeOK
<1>2. ~formatted /\ op = "none" /\ pc = "off"
  BY DEF Init
<1>3. ControlInv /\ FormatInv /\ RecordInv
  BY <1>2 DEF ControlInv, FormatInv, RecordInv
<1> QED
  BY <1>1, <1>2, <1>3
  DEF IInv, HeaderInv, WrittenInv, HeaderStaysValid, TornOnlyAtWriteIndex,
      SequenceFollowsRing

\* A step that leaves the EEPROM alone and ends no Save half way through a
\* header keeps what the log says of itself.
LEMMA MemoryUnchanged ==
  ASSUME IInv, UNCHANGED memory
  PROVE  HeaderStaysValid' /\ TornOnlyAtWriteIndex' /\ SequenceFollowsRing'
<1>1. mem' = mem /\ formatted' = formatted /\ written' = written
  BY DEF memory
<1>2. HeaderStaysValid'
  BY <1>1 DEF IInv, HeaderStaysValid
<1>3. TornOnlyAtWriteIndex'
  BY <1>1 DEF IInv, TornOnlyAtWriteIndex
<1>4. SequenceFollowsRing'
  BY <1>1 DEF IInv, SequenceFollowsRing
<1> QED BY <1>2, <1>3, <1>4

\* A boot writes nothing, and begins a Format only if there was none.
LEMMA BootIInv == ASSUME IInv, TypeOK', Boot \/ BootUnreadable PROVE IInv'
<1>1. UNCHANGED memory
  BY DEF Boot, BootUnreadable, memory, history
<1>2. op = "none"
  BY DEF IInv, ControlInv, Boot, BootUnreadable
<1>3. \/ op' = "none" /\ pc' = "idle"
      \/ op' = "format" /\ pc' = "magic" /\ ~formatted
  <2>1. formatted => mem[LOG_MAGIC_ADDR] = LOG_MAGIC_VALUE
    BY DEF IInv, HeaderStaysValid
  <2>2. CASE Boot
    BY <1>2, <2>1, <2>2 DEF Boot
  <2>3. CASE BootUnreadable
    BY <1>2, <2>3 DEF BootUnreadable
  <2> QED BY <2>2, <2>3
<1>4. ControlInv' /\ FormatInv' /\ HeaderInv' /\ RecordInv'
  BY <1>1, <1>3 DEF ControlInv, FormatInv, HeaderInv, RecordInv, memory
<1>5. WrittenInv'
  BY <1>1, <1>3 DEF IInv, WrittenInv, memory
<1> QED BY <1>1, <1>4, <1>5, MemoryUnchanged DEF IInv

\* A write that times out and a reset lose the locals and leave the chip alone.
LEMMA GiveUpIInv == ASSUME IInv, TypeOK', Timeout \/ Crash PROVE IInv'
<1>1. UNCHANGED memory
  BY DEF Timeout, Crash
<1>2. op' = "none" /\ pc' \in {"off", "idle"}
  BY DEF Timeout, Crash, Return
<1>3. ControlInv' /\ FormatInv' /\ HeaderInv' /\ RecordInv'
  BY <1>2 DEF ControlInv, FormatInv, HeaderInv, RecordInv
<1>4. WrittenInv'
  BY <1>1, <1>2 DEF IInv, WrittenInv, memory
<1> QED BY <1>1, <1>3, <1>4, MemoryUnchanged DEF IInv

\* The first byte of a Format: the chip is no formatted one yet.
LEMMA WriteMagicIInv == ASSUME IInv, TypeOK', WriteMagic PROVE IInv'
<1>1. op = "format" /\ op' = "format" /\ ~formatted' /\ pc' = "write_index"
  BY DEF IInv, ControlInv, WriteMagic, history
<1>2. mem'[LOG_MAGIC_ADDR] = LOG_MAGIC_VALUE
  BY HeaderCells DEF WriteMagic, IInv, TypeOK
<1>3. ControlInv' /\ FormatInv' /\ RecordInv'
  BY <1>1, <1>2 DEF ControlInv, FormatInv, RecordInv
<1> QED BY <1>1, <1>3, UnformattedStep

\* The start of a Save: its record is made and nothing is written.
LEMMA SaveIInv ==
  ASSUME IInv, TypeOK', NEW mi \in Minutes, NEW se \in Seconds, NEW c \in Codes,
         Save(mi, se, c)
  PROVE  IInv'
<1>1. UNCHANGED memory /\ op' = "save" /\ pc' = "record" /\ sent' = 0
      /\ hdr' = ReadHeader(mem)
  BY DEF Save
<1>2. formatted => /\ hdr'.write_index = mem[LOG_WRITE_INDEX_ADDR]
                   /\ hdr'.log_count = mem[LOG_COUNT_ADDR]
                   /\ hdr'.next_seq = mem[LOG_NEXT_SEQ_ADDR]
  BY <1>1, LayoutAssumption DEF IInv, HeaderStaysValid, ReadHeader, Slots
<1>3. record'[LOG_SEQ_IDX] = hdr'.next_seq
      /\ record'[LOG_CHECKSUM_IDX] = CalcChecksum(record')
  <2>1. mi \in Byte /\ se \in Byte /\ c \in Byte
    BY ValueAssumption
  <2>2. ReadHeader(mem).next_seq \in Byte
    BY ReadHeaderType DEF IInv, TypeOK, HeaderType
  <2> DEFINE r == NewRecord(ReadHeader(mem).next_seq, mi, se, c)
  <2>3. r[LOG_SEQ_IDX] = ReadHeader(mem).next_seq
        /\ r[LOG_CHECKSUM_IDX] = CalcChecksum(r)
    <3>1. ASSUME NEW s \in Byte
          PROVE  /\ NewRecord(s, mi, se, c)[LOG_SEQ_IDX] = s
                 /\ NewRecord(s, mi, se, c)[LOG_CHECKSUM_IDX]
                      = CalcChecksum(NewRecord(s, mi, se, c))
      BY <2>1, NewRecordType
    <3>2. QED
      BY <2>2, <3>1, Zenon
  <2>4. record' = r
    BY DEF Save
  <2> HIDE DEF r
  <2> QED BY <1>1, <2>3, <2>4
<1>4. ControlInv' /\ FormatInv'
  BY <1>1 DEF ControlInv, FormatInv
<1>6. HeaderInv'
  BY <1>1, <1>2 DEF HeaderInv, memory
<1>7. RecordInv'
  BY <1>1, <1>3 DEF RecordInv, HeaderSteps
<1>8. WrittenInv'
  BY <1>1, <1>2 DEF IInv, WrittenInv, memory
<1> QED BY <1>1, <1>4, <1>6, <1>7, <1>8, MemoryUnchanged DEF IInv

\* One byte of the record: only the slot at hdr.write_index changes, which is
\* the slot the header names when the area is formatted.
LEMMA WriteRecordByteIInv == ASSUME IInv, TypeOK', WriteRecordByte PROVE IInv'
<1> DEFINE w == hdr.write_index
           a == GetLogAddress(w) + sent
<1>1. /\ pc = "record" /\ op = "save" /\ op' = "save" /\ pc' \in {"record", "write_index"}
      /\ hdr' = hdr /\ record' = record /\ formatted' = formatted
      /\ mem' = [mem EXCEPT ![a] = record[sent]]
      /\ pc' = "record" => sent' = sent + 1 /\ sent < 4 /\ written' = written
      /\ pc' = "write_index" => sent = 4 /\ written' = written \cup {w}
  BY DEF IInv, ControlInv, WriteRecordByte, TypeOK, Fields, LOG_SIZE_BYTES
<1>2. /\ mem \in [Addr -> Byte] /\ w \in Slots /\ sent \in Fields
      /\ record \in [Fields -> Byte]
  BY DEF IInv, TypeOK
<1>3. a \in Addr /\ a > LOG_NEXT_SEQ_ADDR
  BY <1>2, SlotAddress
<1>4. \A h \in 0 .. LOG_NEXT_SEQ_ADDR : mem'[h] = mem[h]
  <2> SUFFICES ASSUME NEW h \in 0 .. LOG_NEXT_SEQ_ADDR PROVE mem'[h] = mem[h]
    OBVIOUS
  <2>1. h \in Addr /\ h # a
    BY <1>3, LayoutAssumption DEF LOG_NEXT_SEQ_ADDR, Addr
  <2> QED BY <1>1, <1>2, <2>1
<1>5. /\ mem'[LOG_MAGIC_ADDR] = mem[LOG_MAGIC_ADDR]
      /\ mem'[LOG_WRITE_INDEX_ADDR] = mem[LOG_WRITE_INDEX_ADDR]
      /\ mem'[LOG_COUNT_ADDR] = mem[LOG_COUNT_ADDR]
      /\ mem'[LOG_NEXT_SEQ_ADDR] = mem[LOG_NEXT_SEQ_ADDR]
  BY <1>4 DEF LOG_MAGIC_ADDR, LOG_WRITE_INDEX_ADDR, LOG_COUNT_ADDR, LOG_NEXT_SEQ_ADDR
<1>6. \A k \in Slots : k # w => RecordAt(mem', k) = RecordAt(mem, k)
  <2>1. \A x \in Addr : x # a => mem'[x] = mem[x]
    BY <1>1, <1>2
  <2> QED BY <1>2, <2>1, RecordByteFrame
<1>7. formatted => mem[LOG_WRITE_INDEX_ADDR] = w
  BY <1>1 DEF IInv, HeaderInv
<1>8. ControlInv' /\ FormatInv'
  BY <1>1 DEF IInv, ControlInv, FormatInv
<1>9. HeaderInv'
  BY <1>1, <1>5 DEF IInv, HeaderInv
<1>10. RecordInv'
  <2>1. \A f \in 0 .. sent : mem'[GetLogAddress(w) + f] = record[f]
    <3> SUFFICES ASSUME NEW f \in 0 .. sent PROVE mem'[GetLogAddress(w) + f] = record[f]
      OBVIOUS
    <3>1. f \in Fields /\ GetLogAddress(w) + f \in Addr
      BY <1>2, SlotAddress DEF Fields, LOG_SIZE_BYTES
    <3>2. CASE f = sent
      BY <1>1, <1>2, <3>1, <3>2
    <3>3. CASE f # sent
      <4>1. GetLogAddress(w) + f # a
        BY <1>2, <3>1, <3>3, SlotsDisjoint
      <4>2. mem[GetLogAddress(w) + f] = record[f]
        BY <1>1, <1>2, <3>3 DEF IInv, RecordInv, Fields, LOG_SIZE_BYTES
      <4> QED BY <1>1, <1>2, <3>1, <4>1, <4>2
    <3> QED BY <3>2, <3>3
  <2>2. ASSUME pc' = "write_index"
        PROVE  RecordAt(mem', w) = record /\ w \in written'
    <3>1. \A f \in Fields : mem'[GetLogAddress(w) + f] = record[f]
      BY <1>1, <2>1, <2>2 DEF Fields, LOG_SIZE_BYTES
    <3> QED BY <1>1, <1>2, <2>2, <3>1 DEF RecordAt
  <2>3. pc' = "record" => \A f \in 0 .. sent' - 1 :
                            mem'[GetLogAddress(hdr'.write_index) + f] = record'[f]
    BY <1>1, <1>2, <2>1 DEF Fields
  <2>4. pc' \in HeaderSteps => pc' = "write_index"
    BY <1>1 DEF HeaderSteps
  <2>5. /\ record'[LOG_SEQ_IDX] = hdr'.next_seq
        /\ record'[LOG_CHECKSUM_IDX] = CalcChecksum(record')
    BY <1>1 DEF IInv, RecordInv
  <2> QED BY <1>1, <2>2, <2>3, <2>4, <2>5 DEF RecordInv
<1>11. WrittenInv'
  <2> SUFFICES ASSUME formatted, written' # Slots PROVE WrittenInv'
    BY <1>1 DEF WrittenInv
  <2>1. written # Slots
    BY <1>1, <1>2
  <2>2. /\ written = 0 .. w - 1 \/ written = 0 .. w
        /\ mem[LOG_COUNT_ADDR] <= w /\ hdr.log_count <= w
    BY <1>1, <1>7, <2>1 DEF IInv, WrittenInv
  <2>3. w \in Nat
    BY <1>2, LayoutAssumption DEF Slots
  <2>4. (0 .. w - 1) \cup {w} = 0 .. w /\ (0 .. w) \cup {w} = 0 .. w
    BY <2>3
  <2>5. written' = 0 .. w - 1 \/ written' = 0 .. w
    BY <1>1, <2>2, <2>4
  <2> QED BY <1>1, <1>5, <1>7, <2>2, <2>5 DEF WrittenInv
<1>12. HeaderStaysValid'
  BY <1>1, <1>5 DEF IInv, HeaderStaysValid
<1>13. TornOnlyAtWriteIndex'
  <2> SUFFICES ASSUME formatted, NEW k \in written', k # w PROVE Intact(mem', k)
    BY <1>1, <1>5, <1>7 DEF TornOnlyAtWriteIndex
  <2>1. k \in written /\ k \in Slots
    BY <1>1 DEF IInv, TypeOK
  <2>2. Intact(mem, k)
    BY <1>7, <2>1 DEF IInv, TornOnlyAtWriteIndex
  <2> QED BY <1>6, <2>1, <2>2 DEF Intact
<1>14. SequenceFollowsRing'
  <2> DEFINE seq(m, k) == m[GetLogAddress(k) + LOG_SEQ_IDX]
             succ(m, k) == IF NextIndex(k) = w THEN m[LOG_NEXT_SEQ_ADDR]
                                               ELSE seq(m, NextIndex(k))
  <2> SUFFICES ASSUME formatted, NEW k \in written' \ {w},
                      NextIndex(k) \in written' \cup {w}
               PROVE  succ(mem', k) \in {seq(mem', k), NextSeq(seq(mem', k))}
    BY <1>1, <1>5, <1>7 DEF SequenceFollowsRing
  <2>1. k \in written /\ k \in Slots /\ NextIndex(k) \in written \cup {w}
    BY <1>1 DEF IInv, TypeOK
  <2>2. succ(mem, k) \in {seq(mem, k), NextSeq(seq(mem, k))}
    BY <1>7, <2>1 DEF IInv, SequenceFollowsRing
  <2>3. \A j \in Slots : j # w => seq(mem', j) = seq(mem, j)
    BY <1>6 DEF RecordAt, Fields, LOG_SEQ_IDX, LOG_SIZE_BYTES
  <2>4. succ(mem', k) = succ(mem, k)
    BY <1>5, <2>1, <2>3, NextIndexType
  <2> QED BY <2>1, <2>2, <2>3, <2>4
<1> QED
  BY <1>8, <1>9, <1>10, <1>11, <1>12, <1>13, <1>14 DEF IInv

\* What the three header writes have in common.
LEMMA HeaderWrite ==
  ASSUME TypeOK, NEW a \in 1 .. LOG_NEXT_SEQ_ADDR, NEW v,
         mem' = [mem EXCEPT ![a] = v]
  PROVE  /\ mem'[a] = v
         /\ \A h \in 0 .. LOG_NEXT_SEQ_ADDR : h # a => mem'[h] = mem[h]
         /\ \A k \in Slots : RecordAt(mem', k) = RecordAt(mem, k)
<1>1. \A h \in 0 .. LOG_NEXT_SEQ_ADDR : h \in Addr
  BY LayoutAssumption DEF LOG_NEXT_SEQ_ADDR, LOG_SIZE_BYTES, Addr
<1>2. \A x \in Addr : x # a => mem'[x] = mem[x]
  BY DEF TypeOK
<1>3. a \in 0 .. LOG_NEXT_SEQ_ADDR /\ a \in Addr
  BY <1>1 DEF LOG_NEXT_SEQ_ADDR
<1>4. \A x \in Addr : x > LOG_NEXT_SEQ_ADDR => mem'[x] = mem[x]
  BY <1>2, <1>3 DEF LOG_NEXT_SEQ_ADDR
<1>5. \A k \in Slots : RecordAt(mem', k) = RecordAt(mem, k)
  BY <1>4, HeaderByteFrame
<1>6. mem'[a] = v
  BY <1>3 DEF TypeOK
<1> QED BY <1>1, <1>2, <1>5, <1>6

\* Records that stay as they are stay intact and keep their numbers.
LEMMA RecordsKept ==
  ASSUME \A k \in Slots : RecordAt(mem', k) = RecordAt(mem, k), NEW k \in Slots
  PROVE  /\ Intact(mem, k) => Intact(mem', k)
         /\ mem'[GetLogAddress(k) + LOG_SEQ_IDX] = mem[GetLogAddress(k) + LOG_SEQ_IDX]
         /\ mem[GetLogAddress(k) + LOG_SEQ_IDX] = RecordAt(mem, k)[LOG_SEQ_IDX]
<1>1. RecordAt(mem', k) = RecordAt(mem, k)
  OBVIOUS
<1>2. Intact(mem, k) => Intact(mem', k)
  BY <1>1 DEF Intact
<1>3. LOG_SEQ_IDX \in Fields
  BY DEF LOG_SEQ_IDX, Fields, LOG_SIZE_BYTES
<1> QED BY <1>1, <1>2, <1>3 DEF RecordAt

\* write_index moves on: the slot it leaves holds the complete new record.
LEMMA WriteIndexIInv == ASSUME IInv, TypeOK', WriteIndex PROVE IInv'
<1>1. /\ pc = "write_index" /\ pc' = "log_count" /\ op' = op /\ hdr' = hdr
      /\ record' = record /\ formatted' = formatted /\ written' = written
      /\ mem' = [mem EXCEPT ![LOG_WRITE_INDEX_ADDR] = Target.write_index]
      /\ op \in {"format", "save"}
  BY DEF WriteIndex, history, IInv, ControlInv, TypeOK
<1>2. /\ mem'[LOG_WRITE_INDEX_ADDR] = Target.write_index
      /\ mem'[LOG_MAGIC_ADDR] = mem[LOG_MAGIC_ADDR]
      /\ mem'[LOG_COUNT_ADDR] = mem[LOG_COUNT_ADDR]
      /\ mem'[LOG_NEXT_SEQ_ADDR] = mem[LOG_NEXT_SEQ_ADDR]
      /\ \A k \in Slots : RecordAt(mem', k) = RecordAt(mem, k)
  <2>1. TypeOK /\ LOG_WRITE_INDEX_ADDR \in 1 .. LOG_NEXT_SEQ_ADDR
    BY DEF IInv, LOG_WRITE_INDEX_ADDR, LOG_NEXT_SEQ_ADDR
  <2>2. /\ mem'[LOG_WRITE_INDEX_ADDR] = Target.write_index
        /\ \A h \in 0 .. LOG_NEXT_SEQ_ADDR : h # LOG_WRITE_INDEX_ADDR => mem'[h] = mem[h]
        /\ \A k \in Slots : RecordAt(mem', k) = RecordAt(mem, k)
    BY <1>1, <2>1, HeaderWrite
  <2> QED
    BY <2>2
    DEF LOG_MAGIC_ADDR, LOG_WRITE_INDEX_ADDR, LOG_COUNT_ADDR, LOG_NEXT_SEQ_ADDR
<1>3. ControlInv' /\ hdr \in HeaderType
  BY <1>1 DEF IInv, ControlInv, TypeOK, HeaderType
<1>4. CASE op = "format"
  <2>1. Target.write_index = 0
    BY <1>4 DEF Target, FormattedHeader
  <2>2. ~formatted' /\ FormatInv' /\ RecordInv'
    BY <1>1, <1>2, <1>4, <2>1 DEF IInv, ControlInv, FormatInv, RecordInv
  <2> QED BY <1>3, <2>2, UnformattedStep
<1>5. CASE op = "save"
  <2> DEFINE w == hdr.write_index
  <2>1. Target = NextHeader(hdr) /\ Target.write_index = NextIndex(w) /\ w \in Slots
        /\ NextIndex(w) \in Slots
    BY <1>3, <1>5, NextIndexType DEF Target, NextHeader, HeaderType
  <2>2. FormatInv'
    BY <1>1, <1>5 DEF FormatInv
  <2>3. RecordInv'
    <3>1. /\ record[LOG_SEQ_IDX] = hdr.next_seq /\ record[LOG_CHECKSUM_IDX] = CalcChecksum(record)
          /\ RecordAt(mem, w) = record
          /\ formatted => w \in written
      BY <1>1, <1>5 DEF IInv, RecordInv, HeaderSteps
    <3>2. RecordAt(mem', w) = record
      BY <1>2, <2>1, <3>1
    <3> QED BY <1>1, <3>1, <3>2 DEF RecordInv
  <2>4. CASE ~formatted
    BY <1>1, <1>3, <2>2, <2>3, <2>4, UnformattedStep
  <2>5. CASE formatted
    <3>1. /\ mem[LOG_WRITE_INDEX_ADDR] = w /\ mem[LOG_COUNT_ADDR] = hdr.log_count
          /\ mem[LOG_NEXT_SEQ_ADDR] = hdr.next_seq /\ w \in written
          /\ RecordAt(mem, w) = record
      BY <1>1, <1>5, <2>5 DEF IInv, HeaderInv, RecordInv, HeaderSteps
    <3>2. HeaderInv'
      BY <1>1, <1>2, <2>1, <3>1 DEF HeaderInv
    <3>3. HeaderStaysValid'
      BY <1>1, <1>2, <2>1, <2>5 DEF IInv, HeaderStaysValid
    <3>4. WrittenInv'
      <4> SUFFICES ASSUME written # Slots PROVE WrittenInv'
        BY <1>1 DEF WrittenInv
      <4>1. /\ written = 0 .. w - 1 \/ written = 0 .. w
            /\ hdr.log_count <= w
        BY <1>5, <2>5, <3>1 DEF IInv, WrittenInv
      <4>2. written = 0 .. w /\ w \in Nat
        BY <2>1, <3>1, <4>1, LayoutAssumption DEF Slots
      <4>3. NextIndex(w) = w + 1
        BY <2>1, <4>2, LayoutAssumption DEF NextIndex, Slots
      <4>4. written = 0 .. NextIndex(w) - 1 /\ hdr.log_count <= NextIndex(w)
        BY <1>3, <4>1, <4>2, <4>3 DEF HeaderType
      <4> QED BY <1>1, <1>2, <2>1, <3>1, <4>1, <4>4 DEF WrittenInv
    <3>5. TornOnlyAtWriteIndex'
      <4> SUFFICES ASSUME NEW k \in written, k # NextIndex(w) PROVE Intact(mem', k)
        BY <1>1, <1>2, <2>1 DEF TornOnlyAtWriteIndex
      <4>1. k \in Slots
        BY DEF IInv, TypeOK
      <4>2. CASE k = w
        <5>1. Intact(mem, w)
          BY <1>5, <3>1 DEF Intact, IInv, RecordInv
        <5> QED BY <1>2, <4>1, <4>2, <5>1, RecordsKept
      <4>3. CASE k # w
        <5>1. Intact(mem, k)
          BY <2>5, <3>1, <4>3 DEF IInv, TornOnlyAtWriteIndex
        <5> QED BY <1>2, <4>1, <5>1, RecordsKept
      <4> QED BY <4>2, <4>3
    <3>6. SequenceFollowsRing'
      <4> DEFINE seq(m, k) == m[GetLogAddress(k) + LOG_SEQ_IDX]
      <4>1. \A k \in Slots : seq(mem', k) = seq(mem, k)
        BY <1>2, RecordsKept
      <4>2. seq(mem, w) = hdr.next_seq
        BY <1>2, <1>5, <2>1, <3>1, RecordsKept DEF IInv, RecordInv
      <4> DEFINE succ(k) == IF NextIndex(k) = NextIndex(w) THEN hdr.next_seq
                                                           ELSE seq(mem, NextIndex(k))
      <4> SUFFICES ASSUME NEW k \in written, k # NextIndex(w),
                          NextIndex(k) \in written \cup {NextIndex(w)}
                   PROVE  succ(k) \in {seq(mem, k), NextSeq(seq(mem, k))}
        <5>1. written \subseteq Slots
          BY DEF IInv, TypeOK
        <5> HIDE DEF seq
        <5>2. \A k \in written : seq(mem', k) = seq(mem, k)
                                /\ seq(mem', NextIndex(k)) = seq(mem, NextIndex(k))
          BY <4>1, <5>1, NextIndexType
        <5> USE DEF seq
        <5> QED BY <1>1, <1>2, <2>1, <3>1, <5>2 DEF SequenceFollowsRing
      <4>3. k \in Slots /\ NextIndex(k) \in Slots
        BY NextIndexType DEF IInv, TypeOK
      <4>4. CASE k = w
        BY <4>2, <4>4
      <4>5. CASE k # w
        <5>1. NextIndex(k) # NextIndex(w)
          BY <2>1, <4>3, <4>5, LayoutAssumption DEF NextIndex, Slots
        <5>2. \/ NextIndex(k) = w /\ hdr.next_seq \in {seq(mem, k), NextSeq(seq(mem, k))}
              \/ /\ NextIndex(k) # w
                 /\ seq(mem, NextIndex(k)) \in {seq(mem, k), NextSeq(seq(mem, k))}
          BY <2>5, <3>1, <4>5, <5>1 DEF IInv, SequenceFollowsRing
        <5> QED BY <4>2, <5>1, <5>2
      <4> QED BY <4>4, <4>5
    <3> QED
      BY <1>3, <2>2, <2>3, <3>2, <3>3, <3>4, <3>5, <3>6 DEF IInv
  <2> QED BY <2>4, <2>5
<1> QED BY <1>1, <1>4, <1>5

\* The count follows the index, so it never exceeds what has been written.
LEMMA WriteCountIInv == ASSUME IInv, TypeOK', WriteCount PROVE IInv'
<1>1. /\ pc = "log_count" /\ pc' = "next_seq" /\ op' = op /\ hdr' = hdr
      /\ record' = record /\ formatted' = formatted /\ written' = written
      /\ mem' = [mem EXCEPT ![LOG_COUNT_ADDR] = Target.log_count]
      /\ op \in {"format", "save"}
  BY DEF WriteCount, history, IInv, ControlInv, TypeOK
<1>2. /\ mem'[LOG_COUNT_ADDR] = Target.log_count
      /\ mem'[LOG_MAGIC_ADDR] = mem[LOG_MAGIC_ADDR]
      /\ mem'[LOG_WRITE_INDEX_ADDR] = mem[LOG_WRITE_INDEX_ADDR]
      /\ mem'[LOG_NEXT_SEQ_ADDR] = mem[LOG_NEXT_SEQ_ADDR]
      /\ \A k \in Slots : RecordAt(mem', k) = RecordAt(mem, k)
  <2>1. TypeOK /\ LOG_COUNT_ADDR \in 1 .. LOG_NEXT_SEQ_ADDR
    BY DEF IInv, LOG_COUNT_ADDR, LOG_NEXT_SEQ_ADDR
  <2>2. /\ mem'[LOG_COUNT_ADDR] = Target.log_count
        /\ \A h \in 0 .. LOG_NEXT_SEQ_ADDR : h # LOG_COUNT_ADDR => mem'[h] = mem[h]
        /\ \A k \in Slots : RecordAt(mem', k) = RecordAt(mem, k)
    BY <1>1, <2>1, HeaderWrite
  <2> QED
    BY <2>2
    DEF LOG_MAGIC_ADDR, LOG_WRITE_INDEX_ADDR, LOG_COUNT_ADDR, LOG_NEXT_SEQ_ADDR
<1>3. ControlInv' /\ hdr \in HeaderType
  BY <1>1 DEF IInv, ControlInv, TypeOK, HeaderType
<1>4. CASE op = "format"
  <2>1. Target.log_count = 0
    BY <1>4 DEF Target, FormattedHeader
  <2>2. ~formatted' /\ FormatInv' /\ RecordInv'
    BY <1>1, <1>2, <1>4, <2>1 DEF IInv, ControlInv, FormatInv, RecordInv
  <2> QED BY <1>3, <2>2, UnformattedStep
<1>5. CASE op = "save"
  <2> DEFINE w == hdr.write_index
  <2>1. /\ Target.log_count = NextHeader(hdr).log_count /\ w \in Slots
        /\ NextHeader(hdr).log_count \in 0 .. LOG_MAX_COUNT
    BY <1>3, <1>5, NextHeaderType DEF Target, HeaderType
  <2>2. FormatInv'
    BY <1>1, <1>5 DEF FormatInv
  <2>3. RecordInv'
    <3>1. /\ record[LOG_SEQ_IDX] = hdr.next_seq /\ record[LOG_CHECKSUM_IDX] = CalcChecksum(record)
          /\ RecordAt(mem, w) = record
          /\ formatted => w \in written
      BY <1>1, <1>5 DEF IInv, RecordInv, HeaderSteps
    <3>2. RecordAt(mem', w) = record
      BY <1>2, <2>1, <3>1
    <3> QED BY <1>1, <3>1, <3>2 DEF RecordInv
  <2>4. CASE ~formatted
    BY <1>1, <1>3, <2>2, <2>3, <2>4, UnformattedStep
  <2>5. CASE formatted
    <3>1. /\ mem[LOG_WRITE_INDEX_ADDR] = NextIndex(w) /\ mem[LOG_COUNT_ADDR] = hdr.log_count
          /\ mem[LOG_NEXT_SEQ_ADDR] = hdr.next_seq /\ w \in written
      BY <1>1, <1>5, <2>5 DEF IInv, HeaderInv, RecordInv, HeaderSteps, NextHeader
    <3>2. HeaderInv'
      BY <1>1, <1>2, <2>1, <3>1 DEF HeaderInv, NextHeader
    <3>3. HeaderStaysValid'
      BY <1>1, <1>2, <2>1, <2>5 DEF IInv, HeaderStaysValid
    <3>4. WrittenInv'
      <4> SUFFICES ASSUME written # Slots PROVE WrittenInv'
        BY <1>1 DEF WrittenInv
      <4>1. /\ written = 0 .. NextIndex(w) - 1 \/ written = 0 .. NextIndex(w)
            /\ hdr.log_count <= w
        BY <1>5, <2>5, <3>1 DEF IInv, WrittenInv
      <4>2. w \in Nat /\ LOG_MAX_COUNT \in Nat /\ w < LOG_MAX_COUNT
        BY <2>1, LayoutAssumption DEF Slots
      <4>3. CASE w + 1 >= LOG_MAX_COUNT
        <5>1. NextIndex(w) = 0
          BY <4>3 DEF NextIndex
        <5>2. w = 0
          BY <3>1, <4>1, <4>2, <5>1
        <5>3. Slots = {0} /\ written = {0}
          BY <3>1, <4>1, <4>2, <4>3, <5>1, <5>2 DEF Slots
        <5> QED BY <5>3
      <4>4. CASE w + 1 < LOG_MAX_COUNT
        <5>1. NextIndex(w) = w + 1
          BY <4>2, <4>4 DEF NextIndex
        <5>2. NextHeader(hdr).log_count <= w + 1
          BY <1>3, <4>1, <4>2 DEF NextHeader, HeaderType
        <5> QED BY <1>1, <1>2, <2>1, <3>1, <4>1, <5>1, <5>2 DEF WrittenInv
      <4> QED BY <4>2, <4>3, <4>4
    <3>5. TornOnlyAtWriteIndex'
      <4> SUFFICES ASSUME NEW k \in written, k # NextIndex(w) PROVE Intact(mem', k)
        BY <1>1, <1>2, <3>1 DEF TornOnlyAtWriteIndex
      <4>1. k \in Slots /\ Intact(mem, k)
        BY <2>5, <3>1 DEF IInv, TypeOK, TornOnlyAtWriteIndex
      <4> QED BY <1>2, <4>1, RecordsKept
    <3>6. SequenceFollowsRing'
      <4> DEFINE seq(m, k) == m[GetLogAddress(k) + LOG_SEQ_IDX]
      <4>1. \A k \in Slots : seq(mem', k) = seq(mem, k)
        BY <1>2, RecordsKept
      <4>2. written \subseteq Slots /\ \A k \in Slots : NextIndex(k) \in Slots
        BY NextIndexType DEF IInv, TypeOK
      <4> HIDE DEF seq
      <4>3. \A k \in written : seq(mem', k) = seq(mem, k)
                              /\ seq(mem', NextIndex(k)) = seq(mem, NextIndex(k))
        BY <4>1, <4>2
      <4> USE DEF seq
      <4> QED BY <1>1, <1>2, <2>5, <4>3 DEF IInv, SequenceFollowsRing
    <3> QED
      BY <1>3, <2>2, <2>3, <3>2, <3>3, <3>4, <3>5, <3>6 DEF IInv
  <2> QED BY <2>4, <2>5
<1> QED BY <1>1, <1>4, <1>5

\* The last byte: a Format starts an empty ring, a Save numbers the next record.
LEMMA WriteSeqIInv == ASSUME IInv, TypeOK', WriteSeq PROVE IInv'
<1>1. /\ pc = "next_seq" /\ pc' = "idle" /\ op' = "none"
      /\ mem' = [mem EXCEPT ![LOG_NEXT_SEQ_ADDR] = Target.next_seq]
      /\ op \in {"format", "save"}
  BY DEF WriteSeq, Return, IInv, ControlInv, TypeOK
<1>2. /\ mem'[LOG_NEXT_SEQ_ADDR] = Target.next_seq
      /\ mem'[LOG_MAGIC_ADDR] = mem[LOG_MAGIC_ADDR]
      /\ mem'[LOG_WRITE_INDEX_ADDR] = mem[LOG_WRITE_INDEX_ADDR]
      /\ mem'[LOG_COUNT_ADDR] = mem[LOG_COUNT_ADDR]
      /\ \A k \in Slots : RecordAt(mem', k) = RecordAt(mem, k)
  <2>1. TypeOK /\ LOG_NEXT_SEQ_ADDR \in 1 .. LOG_NEXT_SEQ_ADDR
    BY DEF IInv, LOG_NEXT_SEQ_ADDR
  <2>2. /\ mem'[LOG_NEXT_SEQ_ADDR] = Target.next_seq
        /\ \A h \in 0 .. LOG_NEXT_SEQ_ADDR : h # LOG_NEXT_SEQ_ADDR => mem'[h] = mem[h]
        /\ \A k \in Slots : RecordAt(mem', k) = RecordAt(mem, k)
    BY <1>1, <2>1, HeaderWrite
  <2> QED
    BY <2>2
    DEF LOG_MAGIC_ADDR, LOG_WRITE_INDEX_ADDR, LOG_COUNT_ADDR, LOG_NEXT_SEQ_ADDR
<1>3. ControlInv' /\ FormatInv' /\ HeaderInv' /\ RecordInv'
  BY <1>1 DEF ControlInv, FormatInv, HeaderInv, RecordInv
<1>4. CASE op = "format"
  <2>1. formatted' = TRUE /\ written' = {}
    BY <1>4 DEF WriteSeq
  <2>2. /\ mem'[LOG_MAGIC_ADDR] = LOG_MAGIC_VALUE /\ mem'[LOG_WRITE_INDEX_ADDR] = 0
        /\ mem'[LOG_COUNT_ADDR] = 0 /\ mem'[LOG_NEXT_SEQ_ADDR] = 1
    BY <1>1, <1>2, <1>4 DEF IInv, FormatInv, Target, FormattedHeader
  <2>3. HeaderStaysValid'
    BY <2>2, LayoutAssumption, ValueAssumption DEF HeaderStaysValid, Slots
  <2>4. TornOnlyAtWriteIndex' /\ SequenceFollowsRing'
    BY <2>1 DEF TornOnlyAtWriteIndex, SequenceFollowsRing
  <2>5. WrittenInv'
    BY <1>1, <2>1, <2>2 DEF WrittenInv
  <2> QED BY <1>3, <2>3, <2>4, <2>5 DEF IInv
<1>5. CASE op = "save"
  <2> DEFINE w == hdr.write_index
  <2>1. formatted' = formatted /\ written' = written
    BY <1>5 DEF WriteSeq, history
  <2>2. hdr \in HeaderType /\ w \in Slots /\ hdr.next_seq \in Byte
        /\ Target.next_seq = NextSeq(hdr.next_seq)
    BY <1>5 DEF IInv, TypeOK, HeaderType, Target, NextHeader
  <2>3. CASE ~formatted
    BY <1>3, <2>1, <2>3, UnformattedStep
  <2>4. CASE formatted
    <3>1. /\ mem[LOG_WRITE_INDEX_ADDR] = NextIndex(w)
          /\ mem[LOG_NEXT_SEQ_ADDR] = hdr.next_seq /\ RecordAt(mem, w) = record
      BY <1>1, <1>5, <2>4 DEF IInv, HeaderInv, RecordInv, HeaderSteps, NextHeader
    <3>2. HeaderStaysValid'
      BY <1>2, <2>1, <2>2, <2>4, NextSeqType DEF IInv, HeaderStaysValid
    <3>3. WrittenInv'
      BY <1>1, <1>2, <2>1, <2>4 DEF IInv, WrittenInv
    <3>4. TornOnlyAtWriteIndex'
      <4> SUFFICES ASSUME NEW k \in written, k # NextIndex(w) PROVE Intact(mem', k)
        BY <1>2, <2>1, <3>1 DEF TornOnlyAtWriteIndex
      <4>1. k \in Slots /\ Intact(mem, k)
        BY <2>4, <3>1 DEF IInv, TypeOK, TornOnlyAtWriteIndex
      <4> QED BY <1>2, <4>1, RecordsKept
    <3>5. SequenceFollowsRing'
      <4> DEFINE seq(m, k) == m[GetLogAddress(k) + LOG_SEQ_IDX]
      <4>1. \A k \in Slots : seq(mem', k) = seq(mem, k)
        BY <1>2, RecordsKept
      <4>2. seq(mem, w) = hdr.next_seq
        BY <1>2, <1>5, <2>2, <3>1, RecordsKept DEF IInv, RecordInv
      <4> DEFINE succ(k) == IF NextIndex(k) = NextIndex(w) THEN NextSeq(hdr.next_seq)
                                                           ELSE seq(mem, NextIndex(k))
      <4> SUFFICES ASSUME NEW k \in written, k # NextIndex(w),
                          NextIndex(k) \in written \cup {NextIndex(w)}
                   PROVE  succ(k) \in {seq(mem, k), NextSeq(seq(mem, k))}
        <5>1. written \subseteq Slots
          BY DEF IInv, TypeOK
        <5> HIDE DEF seq
        <5>2. \A k \in written : seq(mem', k) = seq(mem, k)
                                /\ seq(mem', NextIndex(k)) = seq(mem, NextIndex(k))
          BY <4>1, <5>1, NextIndexType
        <5> USE DEF seq
        <5> QED BY <1>2, <2>1, <2>2, <3>1, <5>2 DEF SequenceFollowsRing
      <4>3. k \in Slots
        BY DEF IInv, TypeOK
      <4>4. CASE NextIndex(k) = NextIndex(w)
        <5>1. k = w
          BY <2>2, <4>3, <4>4, LayoutAssumption DEF NextIndex, Slots
        <5> QED BY <4>2, <4>4, <5>1
      <4>5. CASE NextIndex(k) # NextIndex(w)
        BY <2>4, <3>1, <4>5 DEF IInv, SequenceFollowsRing
      <4> QED BY <4>4, <4>5
    <3> QED BY <1>3, <3>2, <3>3, <3>4, <3>5 DEF IInv
  <2> QED BY <2>3, <2>4
<1> QED BY <1>1, <1>4, <1>5

-----------------------------------------------------------------------------
(* The invariance theorems.                                                *)

\* The invariant is inductive: one case for each action.
LEMMA StepIInv == IInv /\ [Next]_vars => IInv'
<1> SUFFICES ASSUME IInv, [Next]_vars PROVE IInv'
  OBVIOUS
<1>1. TypeOK'
  BY StepTypeOK DEF IInv
<1>2. CASE UNCHANGED vars
  <2>1. UNCHANGED memory /\ pc' = pc /\ op' = op /\ hdr' = hdr /\ record' = record /\ sent' = sent
    BY <1>2 DEF vars, memory
  <2>2. ControlInv' /\ FormatInv' /\ HeaderInv'
    BY <2>1 DEF IInv, ControlInv, FormatInv, HeaderInv, memory
  <2>3. RecordInv' /\ WrittenInv'
    BY <2>1 DEF IInv, RecordInv, WrittenInv, memory
  <2> QED BY <1>1, <2>1, <2>2, <2>3, MemoryUnchanged DEF IInv
<1>3. CASE Next
  BY <1>1, <1>3, BootIInv, GiveUpIInv, WriteMagicIInv, SaveIInv, WriteRecordByteIInv,
     WriteIndexIInv, WriteCountIInv, WriteSeqIInv
  DEF Next, Program
<1> QED BY <1>2, <1>3

\* The inductive invariant holds in every behaviour, however it is cut off.
THEOREM Invariance == Spec => []IInv
  BY InitIInv, StepIInv, PTL DEF Spec

\* No reset and no failed transfer leaves a torn record anywhere but in the
\* slot that the next Save overwrites.
THEOREM TornRecordsAreOverwritten == Spec => []TornOnlyAtWriteIndex
<1>1. IInv => TornOnlyAtWriteIndex
  BY DEF IInv
<1> QED BY <1>1, Invariance, PTL

\* Once formatted, the header stays in range and the log is never formatted
\* again.
THEOREM HeaderAlwaysValid == Spec => []HeaderStaysValid
<1>1. IInv => HeaderStaysValid
  BY DEF IInv
<1> QED BY <1>1, Invariance, PTL

\* Sequence numbers follow the ring; an interruption can repeat one but never
\* skips one or goes back.
THEOREM SequenceNeverSkips == Spec => []SequenceFollowsRing
<1>1. IInv => SequenceFollowsRing
  BY DEF IInv
<1> QED BY <1>1, Invariance, PTL

\* DumpAll only ever lists records that a Save has written.
THEOREM DumpListsWrittenRecords == Spec => []DumpOnlyWritten
<1>1. IInv => DumpOnlyWritten
  <2> SUFFICES ASSUME IInv, formatted,
                      NEW i \in 1 .. ReadHeader(mem).log_count
               PROVE  DumpOrder(ReadHeader(mem))[i] \in written
    BY DEF DumpOnlyWritten, DumpSlots
  <2> DEFINE h == ReadHeader(mem)
             k == (GetOldestIndex(h) + i - 1) % LOG_MAX_COUNT
  <2>1. /\ h.write_index = mem[LOG_WRITE_INDEX_ADDR] /\ h.log_count = mem[LOG_COUNT_ADDR]
        /\ h.write_index \in Slots /\ h.log_count \in 0 .. LOG_MAX_COUNT
    BY LayoutAssumption DEF IInv, HeaderStaysValid, ReadHeader, Slots
  <2>2. DumpOrder(h)[i] = k
    BY DEF DumpOrder
  <2> HIDE DEF h
  <2>3. GetOldestIndex(h) \in Nat /\ LOG_MAX_COUNT \in Nat \ {0} /\ i \in Nat \ {0}
    BY <2>1, LayoutAssumption DEF GetOldestIndex, Slots, h
  <2>4. k \in Slots
    BY <2>3 DEF Slots
  <2>5. CASE written = Slots
    BY <2>2, <2>4, <2>5 DEF h
  <2>6. CASE written # Slots
    <3>1. /\ 0 .. h.write_index - 1 \subseteq written
          /\ h.log_count <= h.write_index
      BY <2>1, <2>6, LayoutAssumption DEF IInv, WrittenInv, Slots
    <3>2. GetOldestIndex(h) = 0 /\ i <= h.log_count /\ h.log_count < LOG_MAX_COUNT
      BY <2>1, <2>3, <3>1 DEF GetOldestIndex, Slots, h
    <3>3. k = i - 1
      BY <2>3, <2>1, <3>2
    <3> QED BY <2>1, <2>2, <2>3, <3>1, <3>2, <3>3 DEF h, Slots
  <2> QED BY <2>5, <2>6
<1> QED BY <1>1, Invariance, PTL

\* A step changes no record but the one a Save is writing.
THEOREM OneRecordAtATime == Spec => OtherRecordsUntouched
<1> DEFINE Touched(k) == /\ k = mem[LOG_WRITE_INDEX_ADDR]
                         /\ op = "save" /\ pc = "record"
           Step == formatted => \A k \in Slots :
                                  RecordAt(mem, k)' # RecordAt(mem, k) => Touched(k)
<1>1. IInv /\ [Next]_vars => Step
  <2> SUFFICES ASSUME IInv, [Next]_vars, formatted, NEW k \in Slots,
                      RecordAt(mem', k) # RecordAt(mem, k)
               PROVE  Touched(k)
    OBVIOUS
  <2>1. mem' # mem
    OBVIOUS
  <2>2. TypeOK
    BY DEF IInv
  <2>3. CASE WriteRecordByte
    <3>1. op = "save" /\ pc = "record" /\ mem[LOG_WRITE_INDEX_ADDR] = hdr.write_index
      BY <2>3 DEF WriteRecordByte, IInv, ControlInv, HeaderInv
    <3>2. hdr.write_index \in Slots /\ sent \in Fields
      BY <2>2 DEF TypeOK
    <3>3. \A x \in Addr : x # GetLogAddress(hdr.write_index) + sent => mem'[x] = mem[x]
      BY <2>2, <2>3 DEF WriteRecordByte, TypeOK
    <3>4. k = hdr.write_index
      BY <3>2, <3>3, RecordByteFrame
    <3> QED BY <3>1, <3>4
  <2>4. CASE WriteIndex \/ WriteCount \/ WriteSeq
    <3>1. \E a \in 1 .. LOG_NEXT_SEQ_ADDR, v \in {Target.write_index, Target.log_count, Target.next_seq} :
            mem' = [mem EXCEPT ![a] = v]
      <4>1. /\ LOG_WRITE_INDEX_ADDR \in 1 .. LOG_NEXT_SEQ_ADDR
            /\ LOG_COUNT_ADDR \in 1 .. LOG_NEXT_SEQ_ADDR
            /\ LOG_NEXT_SEQ_ADDR \in 1 .. LOG_NEXT_SEQ_ADDR
        BY DEF LOG_WRITE_INDEX_ADDR, LOG_COUNT_ADDR, LOG_NEXT_SEQ_ADDR
      <4> QED BY <2>4, <4>1 DEF WriteIndex, WriteCount, WriteSeq
    <3> QED BY <2>2, <3>1, HeaderWrite
  <2>5. CASE WriteMagic
    BY <2>5 DEF WriteMagic, IInv, ControlInv
  <2> QED
    BY <2>1, <2>3, <2>4, <2>5
    DEF Next, Program, Boot, BootUnreadable, Save, Timeout, Crash, memory, history, vars
<1>2. Step => (formatted => \A k \in Slots : RecordAt(mem, k)' # RecordAt(mem, k)
                          => /\ k = mem[LOG_WRITE_INDEX_ADDR]
                             /\ op = "save" /\ pc = "record")
  OBVIOUS
<1> HIDE DEF Step
<1> QED
  BY <1>1, <1>2, Invariance, PTL DEF Spec, OtherRecordsUntouched

-----------------------------------------------------------------------------
(* What DumpAll prints, as a function of the memory and the header.        *)

EntryIn(m, k) ==
  LET r == RecordAt(m, k)
  IN  [seq |-> r[LOG_SEQ_IDX], minute |-> r[LOG_MINUTE_IDX],
       second |-> r[LOG_SECOND_IDX], code |-> r[LOG_WARNING_CODE_IDX]]
Listed(m, order) == [i \in 1 .. Len(order) |-> EntryIn(m, order[i])]

\* A remainder is the number itself below the modulus, and one modulus less
\* up to its double.
LEMMA ModOnce ==
  ASSUME NEW M \in Nat \ {0}, NEW a \in Nat
  PROVE  /\ a < M => a % M = a
         /\ M <= a /\ a < 2 * M => a % M = a - M
OBVIOUS

\* The slots DumpAll lists: a run through the ring from the oldest on.
LEMMA OrderIs ==
  ASSUME NEW h \in HeaderType
  PROVE  /\ DumpOrder(h) \in Seq(Slots)
         /\ Len(DumpOrder(h)) = h.log_count
         /\ h.log_count < LOG_MAX_COUNT =>
              \A i \in 1 .. h.log_count : DumpOrder(h)[i] = i - 1
         /\ h.log_count = LOG_MAX_COUNT =>
              \A i \in 1 .. h.log_count :
                DumpOrder(h)[i] = IF h.write_index + i - 1 < LOG_MAX_COUNT
                                  THEN h.write_index + i - 1
                                  ELSE h.write_index + i - 1 - LOG_MAX_COUNT
<1> DEFINE M == LOG_MAX_COUNT
           n == h.log_count
           w == h.write_index
           o == GetOldestIndex(h)
           order == DumpOrder(h)
<1>1. M \in Nat \ {0} /\ n \in 0 .. M /\ w \in 0 .. M - 1
  BY LayoutAssumption DEF HeaderType, Slots
<1>2. o = IF n < M THEN 0 ELSE w
  BY DEF GetOldestIndex
<1>3. order = [i \in 1 .. n |-> (o + i - 1) % M]
  BY Zenon DEF DumpOrder
<1> HIDE DEF M, n, w, o, order
<1>4. ASSUME NEW i \in 1 .. n PROVE order[i] \in Slots
  <2>1. o + i - 1 \in Nat /\ o + i - 1 < 2 * M
    BY <1>1, <1>2
  <2>2. order[i] = (o + i - 1) % M
    BY <1>3
  <2>3. (o + i - 1) % M \in 0 .. M - 1
    BY <1>1, <2>1
  <2> QED
    BY <2>2, <2>3 DEF Slots, M
<1>5. order \in Seq(Slots) /\ Len(order) = n
  <2>1. order \in [1 .. n -> Slots]
    BY <1>3, <1>4
  <2> QED
    BY <1>1, <2>1
<1>6. ASSUME n < M, NEW i \in 1 .. n PROVE order[i] = i - 1
  <2>1. o + i - 1 = i - 1 /\ i - 1 \in Nat /\ i - 1 < M
    BY <1>1, <1>2, <1>6
  <2>2. (i - 1) % M = i - 1
    BY <1>1, <2>1, ModOnce
  <2> QED
    BY <1>3, <2>1, <2>2
<1>7. ASSUME n = M, NEW i \in 1 .. n
      PROVE  order[i] = IF w + i - 1 < M THEN w + i - 1 ELSE w + i - 1 - M
  <2> DEFINE a == w + i - 1
  <2>1. o + i - 1 = a /\ a \in Nat /\ a < 2 * M
    BY <1>1, <1>2, <1>7
  <2> HIDE DEF a
  <2>2. a % M = IF a < M THEN a ELSE a - M
    <3>1. (a < M => a % M = a) /\ (M <= a /\ a < 2 * M => a % M = a - M)
      BY <1>1, <2>1, ModOnce
    <3>2. M <= a \/ a < M
      BY <1>1, <2>1
    <3> DEFINE r == a % M
    <3> HIDE DEF r
    <3>3. (a < M => r = a) /\ (M <= a => r = a - M)
      BY <2>1, <3>1 DEF r
    <3>4. r = IF a < M THEN a ELSE a - M
      BY <3>2, <3>3
    <3> QED
      BY <3>4 DEF r
  <2>3. order[i] = a % M
    BY <1>3, <2>1
  <2>4. CASE a < M
    <3>1. order[i] = a
      BY <2>2, <2>3, <2>4
    <3> QED
      BY <2>4, <3>1 DEF a
  <2>5. CASE ~(a < M)
    <3>1. order[i] = a - M
      BY <2>2, <2>3, <2>5
    <3> QED
      BY <1>1, <2>5, <3>1 DEF a
  <2> QED
    BY <2>4, <2>5
<1> QED
  BY <1>5, <1>6, <1>7 DEF M, n, w, order

\* Listing follows the order: without its first, with one more at the end, and
\* with other memories that hold the same records.
LEMMA ListedIs ==
  ASSUME NEW m, NEW order \in Seq(Slots)
  PROVE  /\ Len(Listed(m, order)) = Len(order)
         /\ Listed(m, order) \in Seq({EntryIn(m, k) : k \in Slots})
         /\ order # <<>> => Listed(m, Tail(order)) = Tail(Listed(m, order))
         /\ \A k \in Slots :
              Listed(m, Append(order, k)) = Append(Listed(m, order), EntryIn(m, k))
<1> DEFINE E == {EntryIn(m, k) : k \in Slots}
           n == Len(order)
           list == Listed(m, order)
<1>1. n \in Nat /\ \A i \in 1 .. n : order[i] \in Slots
  BY LenProperties, ElementOfSeq
<1>2. list = [i \in 1 .. n |-> EntryIn(m, order[i])]
  BY DEF Listed
<1>3. \A i \in 1 .. n : EntryIn(m, order[i]) \in E
  BY <1>1
<1> HIDE DEF E, n, list
<1>4. list \in [1 .. n -> E]
  BY <1>2, <1>3
<1>5. list \in Seq(E) /\ Len(list) = n
  BY <1>1, <1>4
<1>6. ASSUME order # <<>> PROVE Listed(m, Tail(order)) = Tail(list)
  <2>1. /\ Tail(order) \in Seq(Slots) /\ Len(Tail(order)) = n - 1 /\ n >= 1
        /\ \A i \in 1 .. n - 1 : Tail(order)[i] = order[i + 1]
    BY <1>1, <1>6 DEF n
  <2>2. list # <<>>
    BY <1>5, <2>1
  <2>3. /\ Tail(list) \in Seq(E) /\ Len(Tail(list)) = n - 1
        /\ \A i \in 1 .. n - 1 : Tail(list)[i] = list[i + 1]
    BY <1>5, <2>1, <2>2
  <2>4. Listed(m, Tail(order)) = [i \in 1 .. n - 1 |-> EntryIn(m, Tail(order)[i])]
    BY <2>1 DEF Listed
  <2>5. ASSUME NEW i \in 1 .. n - 1 PROVE Tail(list)[i] = EntryIn(m, Tail(order)[i])
    <3>1. i + 1 \in 1 .. n
      BY <1>1, <2>1
    <3> QED
      BY <1>2, <2>1, <2>3, <3>1
  <2>6. Tail(list) = [i \in 1 .. n - 1 |-> Tail(list)[i]]
    <3> DEFINE t == Tail(list)
    <3>1. t \in Seq(E) /\ Len(t) = n - 1
      BY <2>3
    <3> HIDE DEF t
    <3>2. t = [i \in 1 .. n - 1 |-> t[i]]
      BY <3>1, LenProperties
    <3> QED
      BY <3>2 DEF t
  <2> QED
    BY <2>4, <2>5, <2>6
<1>7. ASSUME NEW k \in Slots
      PROVE  Listed(m, Append(order, k)) = Append(list, EntryIn(m, k))
  <2> DEFINE e == EntryIn(m, k)
  <2>1. /\ Append(order, k) \in Seq(Slots) /\ Len(Append(order, k)) = n + 1
        /\ \A i \in 1 .. n : Append(order, k)[i] = order[i]
        /\ Append(order, k)[n + 1] = k
    BY <1>1, AppendProperties DEF n
  <2>2. e \in E
    BY DEF E
  <2> HIDE DEF e
  <2>3. /\ Append(list, e) \in Seq(E) /\ Len(Append(list, e)) = n + 1
        /\ \A i \in 1 .. n : Append(list, e)[i] = list[i]
        /\ Append(list, e)[n + 1] = e
    BY <1>1, <1>5, <2>2, AppendProperties
  <2>4. Listed(m, Append(order, k)) = [i \in 1 .. n + 1 |-> EntryIn(m, Append(order, k)[i])]
    BY <2>1 DEF Listed
  <2>5. ASSUME NEW i \in 1 .. n + 1
        PROVE  Append(list, e)[i] = EntryIn(m, Append(order, k)[i])
    <3>1. i \in 1 .. n \/ i = n + 1
      BY <1>1
    <3>2. CASE i \in 1 .. n
      BY <1>2, <2>1, <2>3, <3>2
    <3>3. CASE i = n + 1
      BY <2>1, <2>3, <3>3 DEF e
    <3> QED
      BY <3>1, <3>2, <3>3
  <2>6. Append(list, e) = [i \in 1 .. n + 1 |-> Append(list, e)[i]]
    <3> DEFINE t == Append(list, e)
    <3>1. t \in Seq(E) /\ Len(t) = n + 1
      BY <2>3
    <3> HIDE DEF t
    <3>2. t = [i \in 1 .. n + 1 |-> t[i]]
      BY <3>1, LenProperties
    <3> QED
      BY <3>2 DEF t
  <2> QED
    BY <2>4, <2>5, <2>6 DEF e
<1> QED
  BY <1>5, <1>6, <1>7 DEF E, n, list

\* What DumpAll prints depends only on the records it lists.
LEMMA ListedSame ==
  ASSUME NEW m, NEW n, NEW order \in Seq(Slots),
         \A i \in 1 .. Len(order) : RecordAt(n, order[i]) = RecordAt(m, order[i])
  PROVE  Listed(n, order) = Listed(m, order)
<1>1. \A i \in 1 .. Len(order) : EntryIn(n, order[i]) = EntryIn(m, order[i])
  BY Zenon DEF EntryIn
<1> QED
  BY <1>1, Zenon DEF Listed

\* A ring that is not full grows at its end; a full one gives up its oldest
\* slot, which is the one that is written.
LEMMA OrderGrows ==
  ASSUME NEW h \in HeaderType, NEW g \in HeaderType
  PROVE  /\ h.log_count < LOG_MAX_COUNT /\ g.log_count = h.log_count =>
              DumpOrder(g) = DumpOrder(h)
         /\ /\ h.log_count < LOG_MAX_COUNT /\ h.log_count = h.write_index
            /\ g.log_count = h.log_count + 1
            /\ g.write_index = NextIndex(h.write_index)
            => DumpOrder(g) = Append(DumpOrder(h), h.write_index)
         /\ /\ h.log_count = LOG_MAX_COUNT /\ g.log_count = LOG_MAX_COUNT
            /\ g.write_index = NextIndex(h.write_index)
            => DumpOrder(g) = Append(Tail(DumpOrder(h)), h.write_index)
<1> DEFINE M == LOG_MAX_COUNT
           n == h.log_count
           w == h.write_index
           p == DumpOrder(h)
           q == DumpOrder(g)
<1>1. /\ M \in Nat \ {0} /\ n \in 0 .. M /\ w \in 0 .. M - 1 /\ w \in Slots
      /\ g.log_count \in 0 .. M /\ g.write_index \in 0 .. M - 1
  BY LayoutAssumption DEF HeaderType, Slots
<1>2. /\ p \in Seq(Slots) /\ Len(p) = n
      /\ n < M => \A i \in 1 .. n : p[i] = i - 1
      /\ n = M => \A i \in 1 .. n :
                    p[i] = IF w + i - 1 < M THEN w + i - 1 ELSE w + i - 1 - M
  BY OrderIs
<1>3. /\ q \in Seq(Slots) /\ Len(q) = g.log_count
      /\ g.log_count < M => \A i \in 1 .. g.log_count : q[i] = i - 1
      /\ g.log_count = M => \A i \in 1 .. g.log_count :
                              q[i] = IF g.write_index + i - 1 < M
                                     THEN g.write_index + i - 1
                                     ELSE g.write_index + i - 1 - M
  BY OrderIs
<1> HIDE DEF M, n, w, p, q
<1>4. ASSUME n < M, g.log_count = n PROVE q = p
  <2>1. \A i \in 1 .. n : q[i] = p[i]
    BY <1>2, <1>3, <1>4
  <2> QED
    BY <1>2, <1>3, <1>4, <2>1, SeqEqual
<1>5. ASSUME n < M, n = w, g.log_count = n + 1, g.write_index = NextIndex(w)
      PROVE  q = Append(p, w)
  <2>1. /\ Append(p, w) \in Seq(Slots) /\ Len(Append(p, w)) = n + 1
        /\ \A i \in 1 .. n : Append(p, w)[i] = p[i]
        /\ Append(p, w)[n + 1] = w
    BY <1>1, <1>2, AppendProperties
  <2>2. ASSUME NEW i \in 1 .. n + 1 PROVE q[i] = Append(p, w)[i]
    <3>1. q[i] = i - 1
      <4>1. CASE n + 1 < M
        BY <1>3, <1>5, <4>1
      <4>2. CASE n + 1 = M
        <5>1. g.write_index = 0
          BY <1>1, <1>5, <4>2 DEF NextIndex, M
        <5>2. 0 + i - 1 = i - 1 /\ i - 1 < M /\ g.log_count = M
          BY <1>1, <1>5, <4>2
        <5> QED
          BY <1>3, <1>5, <5>1, <5>2
      <4> QED
        BY <1>1, <1>5, <4>1, <4>2
    <3>2. Append(p, w)[i] = i - 1
      <4>1. i \in 1 .. n \/ (i = n + 1 /\ i - 1 = w)
        BY <1>1, <1>5
      <4> QED
        BY <1>2, <1>5, <2>1, <4>1
    <3> QED
      BY <3>1, <3>2
  <2> QED
    BY <1>3, <1>5, <2>1, <2>2, SeqEqual
<1>6. ASSUME n = M, g.log_count = M, g.write_index = NextIndex(w)
      PROVE  q = Append(Tail(p), w)
  <2>1. /\ Tail(p) \in Seq(Slots) /\ Len(Tail(p)) = M - 1
        /\ \A i \in 1 .. M - 1 : Tail(p)[i] = p[i + 1]
    <3>1. p # <<>>
      BY <1>1, <1>2, <1>6
    <3> QED
      BY <1>1, <1>2, <1>6, <3>1
  <2> DEFINE t == Tail(p)
  <2> HIDE DEF t
  <2>2. /\ t \in Seq(Slots) /\ Len(t) = M - 1
        /\ \A i \in 1 .. M - 1 : t[i] = p[i + 1]
    BY <2>1 DEF t
  <2>3. /\ Append(t, w) \in Seq(Slots) /\ Len(Append(t, w)) = M
        /\ \A i \in 1 .. M - 1 : Append(t, w)[i] = t[i]
        /\ Append(t, w)[M] = w
    <3>1. /\ Append(t, w) \in Seq(Slots) /\ Len(Append(t, w)) = (M - 1) + 1
          /\ \A i \in 1 .. M - 1 : Append(t, w)[i] = t[i]
          /\ Append(t, w)[(M - 1) + 1] = w
      BY <1>1, <2>2, AppendProperties
    <3>2. (M - 1) + 1 = M
      BY <1>1
    <3> QED
      BY <3>1, <3>2
  <2>4. ASSUME NEW i \in 1 .. M PROVE q[i] = Append(t, w)[i]
    <3>0. g.write_index = IF w + 1 >= M THEN 0 ELSE w + 1
      BY <1>6 DEF NextIndex, M
    <3>1. q[i] = IF g.write_index + i - 1 < M THEN g.write_index + i - 1
                                              ELSE g.write_index + i - 1 - M
      BY <1>3, <1>6
    <3>2. CASE i \in 1 .. M - 1
      <4>1. i + 1 \in 1 .. n
        BY <1>1, <1>6, <3>2
      <4>2. p[i + 1] = IF w + (i + 1) - 1 < M THEN w + (i + 1) - 1
                                              ELSE w + (i + 1) - 1 - M
        BY <1>2, <1>6, <4>1
      <4>3. Append(t, w)[i] = p[i + 1]
        BY <2>2, <2>3, <3>2
      <4> QED
        BY <1>1, <3>0, <3>1, <3>2, <4>2, <4>3
    <3>3. CASE i = M
      <4>1. q[i] = w
        BY <1>1, <3>0, <3>1, <3>3
      <4> QED
        BY <2>3, <3>3, <4>1
    <3>4. i \in 1 .. M - 1 \/ i = M
      BY <1>1
    <3> QED
      BY <3>2, <3>3, <3>4
  <2>5. q = Append(t, w)
    BY <1>3, <1>6, <2>3, <2>4, SeqEqual
  <2> QED
    BY <2>5 DEF t
<1> QED
  BY <1>4, <1>5, <1>6 DEF M, n, w, p, q

\* The slot that is written is not listed while the ring fills up, and is the
\* oldest once it is full.
LEMMA WrittenNotListed ==
  ASSUME NEW h \in HeaderType
  PROVE  /\ h.log_count < LOG_MAX_COUNT /\ h.log_count = h.write_index =>
              \A i \in 1 .. Len(DumpOrder(h)) : DumpOrder(h)[i] # h.write_index
         /\ h.log_count = LOG_MAX_COUNT =>
              /\ DumpOrder(h) # <<>> /\ Tail(DumpOrder(h)) \in Seq(Slots)
              /\ \A i \in 1 .. Len(Tail(DumpOrder(h))) :
                   Tail(DumpOrder(h))[i] # h.write_index
<1> DEFINE M == LOG_MAX_COUNT
           n == h.log_count
           w == h.write_index
           p == DumpOrder(h)
<1>1. M \in Nat \ {0} /\ n \in 0 .. M /\ w \in 0 .. M - 1
  BY LayoutAssumption DEF HeaderType, Slots
<1>2. /\ p \in Seq(Slots) /\ Len(p) = n
      /\ n < M => \A i \in 1 .. n : p[i] = i - 1
      /\ n = M => \A i \in 1 .. n :
                    p[i] = IF w + i - 1 < M THEN w + i - 1 ELSE w + i - 1 - M
  BY OrderIs
<1> HIDE DEF M, n, w, p
<1>3. ASSUME n < M, n = w PROVE \A i \in 1 .. Len(p) : p[i] # w
  BY <1>1, <1>2, <1>3
<1>4. ASSUME n = M
      PROVE  /\ p # <<>> /\ Tail(p) \in Seq(Slots)
             /\ \A i \in 1 .. Len(Tail(p)) : Tail(p)[i] # w
  <2>1. p # <<>>
    BY <1>1, <1>2, <1>4
  <2>2. /\ Tail(p) \in Seq(Slots) /\ Len(Tail(p)) = M - 1
        /\ \A i \in 1 .. M - 1 : Tail(p)[i] = p[i + 1]
    BY <1>1, <1>2, <1>4, <2>1
  <2> DEFINE t == Tail(p)
  <2> HIDE DEF t
  <2>3. ASSUME NEW i \in 1 .. M - 1 PROVE t[i] # w
    <3>1. t[i] = p[i + 1] /\ i + 1 \in 1 .. n
      BY <1>1, <1>4, <2>2 DEF t
    <3>2. p[i + 1] = IF w + (i + 1) - 1 < M THEN w + (i + 1) - 1
                                            ELSE w + (i + 1) - 1 - M
      BY <1>2, <1>4, <3>1
    <3> QED
      BY <1>1, <3>1, <3>2
  <2> QED
    BY <2>1, <2>2, <2>3 DEF t
<1> QED
  BY <1>3, <1>4 DEF M, n, w, p

-----------------------------------------------------------------------------
(* The abstract log seen in a state.                                       *)

\* The record on its way is one that a caller asked for.
EventInv ==
  op = "save" =>
    \E minute \in Minutes, second \in Seconds, code \in Codes :
      record = NewRecord(hdr.next_seq, minute, second, code)

Header == IF op = "save" THEN hdr ELSE ReadHeader(mem)
Order == IF Overwriting THEN Tail(DumpOrder(Header)) ELSE DumpOrder(Header)

\* The record on its way is one that a caller asked for, in every run.
LEMMA EventInvariance == Spec => []EventInv
<1>1. Init => EventInv
  BY DEF Init, EventInv
<1>2. EventInv /\ [Next]_vars => EventInv'
  <2> SUFFICES ASSUME EventInv, [Next]_vars, op' = "save" PROVE EventInv'
    BY DEF EventInv
  <2>1. CASE \E minute \in Minutes, second \in Seconds, code \in Codes :
               Save(minute, second, code)
    <3>1. PICK minute \in Minutes, second \in Seconds, code \in Codes :
                 Save(minute, second, code)
      BY <2>1
    <3>2. /\ hdr' = ReadHeader(mem)
          /\ record' = NewRecord(ReadHeader(mem).next_seq, minute, second, code)
      BY <3>1 DEF Save
    <3> QED
      BY <3>2, Zenon DEF EventInv
  <2>2. CASE op = "save" /\ hdr' = hdr /\ record' = record
    BY <2>2, Zenon DEF EventInv
  <2> QED
    BY <2>1, <2>2 DEF Next, Program, Boot, BootUnreadable, WriteMagic, WriteRecordByte,
       WriteIndex, WriteCount, WriteSeq, Timeout, Crash, Return, vars
<1> QED
  BY <1>1, <1>2, PTL DEF Spec

\* The view of the log, outside and inside a save, as it is proved about.
LEMMA ViewIs ==
  IInv /\ formatted =>
    /\ Header \in HeaderType
    /\ LogView = Listed(mem, Order)
    /\ SeqView = Header.next_seq
    /\ CountKeepsUp = (Header.log_count \in {Header.write_index, LOG_MAX_COUNT})
    /\ op # "save" => /\ Header.write_index = mem[LOG_WRITE_INDEX_ADDR]
                      /\ Header.log_count = mem[LOG_COUNT_ADDR]
                      /\ Header.next_seq = mem[LOG_NEXT_SEQ_ADDR]
<1> SUFFICES ASSUME IInv, formatted
             PROVE  /\ Header \in HeaderType
                    /\ LogView = Listed(mem, Order)
                    /\ SeqView = Header.next_seq
                    /\ CountKeepsUp
                         = (Header.log_count \in {Header.write_index, LOG_MAX_COUNT})
                    /\ op # "save" => /\ Header.write_index = mem[LOG_WRITE_INDEX_ADDR]
                                      /\ Header.log_count = mem[LOG_COUNT_ADDR]
                                      /\ Header.next_seq = mem[LOG_NEXT_SEQ_ADDR]
  OBVIOUS
<1>1. mem \in [Addr -> Byte] /\ hdr \in HeaderType
  BY DEF IInv, TypeOK, HeaderType
<1>2. Header \in HeaderType
  BY <1>1, ReadHeaderType DEF Header
<1>3. Entry(0) = EntryIn(mem, 0)
  BY DEF Entry, EntryIn
<1>4. LogView = Listed(mem, Order)
  <2>1. LogView = [i \in 1 .. Len(Order) |-> Entry(Order[i])]
    BY DEF LogView, Order, Header
  <2>2. \A k : Entry(k) = EntryIn(mem, k)
    BY DEF Entry, EntryIn
  <2> QED
    BY <2>1, <2>2, Zenon DEF Listed
<1>5. ReadHeader(mem).next_seq = mem[LOG_NEXT_SEQ_ADDR]
  BY DEF ReadHeader
<1>6. SeqView = Header.next_seq
  BY <1>5 DEF SeqView, Header
<1>7. CountKeepsUp = (Header.log_count \in {Header.write_index, LOG_MAX_COUNT})
  <2>1. CountKeepsUp
          = (formatted => Header.log_count \in {Header.write_index, LOG_MAX_COUNT})
    BY Zenon DEF CountKeepsUp, Header
  <2>2. formatted = TRUE
    BY DEF IInv, TypeOK
  <2> QED
    BY <2>1, <2>2
<1>8. ASSUME op # "save"
      PROVE  /\ Header.write_index = mem[LOG_WRITE_INDEX_ADDR]
             /\ Header.log_count = mem[LOG_COUNT_ADDR]
             /\ Header.next_seq = mem[LOG_NEXT_SEQ_ADDR]
  <2>1. Header = ReadHeader(mem)
    BY <1>8 DEF Header
  <2>2. /\ mem[LOG_WRITE_INDEX_ADDR] \in 0 .. LOG_MAX_COUNT - 1
        /\ mem[LOG_COUNT_ADDR] \in 0 .. LOG_MAX_COUNT
    BY DEF IInv, HeaderStaysValid, Slots
  <2>3. ~(mem[LOG_WRITE_INDEX_ADDR] >= LOG_MAX_COUNT) /\ ~(mem[LOG_COUNT_ADDR] > LOG_MAX_COUNT)
    BY <2>2, LayoutAssumption
  <2> QED
    BY <2>1, <2>3 DEF ReadHeader
<1> QED
  BY <1>2, <1>4, <1>6, <1>7, <1>8

\* The same after a step.
LEMMA ViewIsNext ==
  ASSUME IInv', formatted'
  PROVE  /\ Header' \in HeaderType
         /\ LogView' = Listed(mem', Order')
         /\ SeqView' = Header'.next_seq
         /\ CountKeepsUp' = (Header'.log_count \in {Header'.write_index, LOG_MAX_COUNT})
         /\ op' # "save" => /\ Header'.write_index = mem'[LOG_WRITE_INDEX_ADDR]
                            /\ Header'.log_count = mem'[LOG_COUNT_ADDR]
                            /\ Header'.next_seq = mem'[LOG_NEXT_SEQ_ADDR]
<1>1. (IInv /\ formatted =>
        /\ Header \in HeaderType
        /\ LogView = Listed(mem, Order)
        /\ SeqView = Header.next_seq
        /\ CountKeepsUp = (Header.log_count \in {Header.write_index, LOG_MAX_COUNT})
        /\ op # "save" => /\ Header.write_index = mem[LOG_WRITE_INDEX_ADDR]
                          /\ Header.log_count = mem[LOG_COUNT_ADDR]
                          /\ Header.next_seq = mem[LOG_NEXT_SEQ_ADDR])'
  BY ViewIs, PTL
<1> QED
  BY <1>1

\* Before the first format there is nothing to see.
LEMMA ViewUnformatted ==
  ~formatted => LogView = <<>> /\ SeqView = 1 /\ CountKeepsUp = TRUE
BY Zenon DEF LogView, SeqView, CountKeepsUp

\* A memory without the signature shows an empty log after a step.
LEMMA ViewUnformattedNext ==
  ASSUME ~formatted'
  PROVE  LogView' = <<>> /\ SeqView' = 1 /\ CountKeepsUp' = TRUE
<1>1. (~formatted => LogView = <<>> /\ SeqView = 1 /\ CountKeepsUp = TRUE)'
  BY ViewUnformatted, PTL
<1> QED
  BY <1>1

Stutter == LogView' = LogView /\ SeqView' = SeqView /\ CountKeepsUp' = CountKeepsUp

\* The number of the next event, as both specifications have it.
LEMMA SameNumbers == \A n : Events!After(n) = NextSeq(n)
BY DEF Events!After, NextSeq

-----------------------------------------------------------------------------
(* The steps.                                                              *)

\* While the log is formatted the reader sees nothing change.
LEMMA FormatEvents ==
  ASSUME IInv, IInv', [Next]_vars, ~formatted
  PROVE  Stutter
<1>1. LogView = <<>> /\ SeqView = 1 /\ CountKeepsUp = TRUE
  BY ViewUnformatted
<1>2. CASE ~formatted'
  BY <1>1, <1>2, ViewUnformattedNext DEF Stutter
<1>3. CASE formatted'
  <2>1. WriteSeq /\ op = "format"
    BY <1>3 DEF Next, Program, Boot, BootUnreadable, WriteMagic, Save, WriteRecordByte,
       WriteIndex, WriteCount, WriteSeq, Timeout, Crash, vars, history, memory
  <2>2. /\ mem' = [mem EXCEPT ![LOG_NEXT_SEQ_ADDR] = 1] /\ op' = "none"
        /\ pc = "next_seq"
    BY <2>1 DEF WriteSeq, Return, Target, FormattedHeader
  <2>3. /\ mem[LOG_WRITE_INDEX_ADDR] = 0 /\ mem[LOG_COUNT_ADDR] = 0
        /\ mem \in [Addr -> Byte]
    BY <2>1, <2>2 DEF IInv, FormatInv, TypeOK
  <2>4. /\ mem'[LOG_COUNT_ADDR] = 0 /\ mem'[LOG_NEXT_SEQ_ADDR] = 1
    BY <2>2, <2>3, HeaderCells DEF LOG_COUNT_ADDR, LOG_NEXT_SEQ_ADDR
  <2>5. /\ Header'.log_count = 0 /\ Header'.next_seq = 1 /\ Header' \in HeaderType
        /\ mem'[LOG_WRITE_INDEX_ADDR] = 0 /\ Header'.write_index = 0
    <3>1. mem'[LOG_WRITE_INDEX_ADDR] = 0
      BY <2>2, <2>3, HeaderCells DEF LOG_WRITE_INDEX_ADDR, LOG_NEXT_SEQ_ADDR
    <3> QED
      BY <1>3, <2>2, <2>4, <3>1, ViewIsNext
  <2>6. LogView' = <<>>
    <3>1. ~Overwriting'
      BY <2>2 DEF Overwriting
    <3>2. Order' = DumpOrder(Header')
      BY <3>1, Zenon DEF Order
    <3>3. DumpOrder(Header') \in Seq(Slots) /\ Len(DumpOrder(Header')) = 0
      BY <2>5, OrderIs
    <3>4. /\ Len(Listed(mem', Order')) = 0
          /\ Listed(mem', Order') \in Seq({EntryIn(mem', k) : k \in Slots})
      BY <3>2, <3>3, ListedIs
    <3>5. Listed(mem', Order') = <<>>
      BY <3>4, EmptySeq
    <3> QED
      BY <1>3, <3>5, ViewIsNext
  <2>7. SeqView' = 1
    BY <1>3, <2>5, ViewIsNext
  <2>8. CountKeepsUp' = TRUE
    BY <1>3, <2>5, ViewIsNext
  <2> QED
    BY <1>1, <2>6, <2>7, <2>8 DEF Stutter
<1> QED
  BY <1>2, <1>3

\* Nothing that happens between two Saves is seen.
LEMMA IdleEvents ==
  ASSUME IInv, IInv', [Next]_vars, formatted, op # "save"
  PROVE  Stutter
<1>1. op = "none" /\ pc \in {"off", "idle"} /\ mem[LOG_MAGIC_ADDR] = LOG_MAGIC_VALUE
  BY DEF IInv, ControlInv, HeaderStaysValid, TypeOK
<1>2. mem' = mem /\ formatted' = formatted
  BY <1>1 DEF Next, Program, Boot, BootUnreadable, WriteMagic, Save, WriteRecordByte,
     WriteIndex, WriteCount, WriteSeq, Timeout, Crash, vars, history, memory, WriteSteps,
     HeaderSteps
<1>3. \/ op' = "none"
      \/ op' = "save" /\ pc' = "record" /\ sent' = 0 /\ hdr' = ReadHeader(mem)
  BY <1>1 DEF Next, Program, Boot, BootUnreadable, WriteMagic, Save, WriteRecordByte,
     WriteIndex, WriteCount, WriteSeq, Timeout, Crash, vars, history, memory, WriteSteps,
     HeaderSteps, Return
<1>4. Header' = Header
  BY <1>1, <1>2, <1>3 DEF Header
<1>5. ~Overwriting /\ ~Overwriting'
  BY <1>1, <1>3 DEF Overwriting
<1>6. Order' = Order
  BY <1>4, <1>5, Zenon DEF Order
<1> QED
  BY <1>2, <1>4, <1>6, ViewIs, ViewIsNext DEF Stutter

\* During a Save the log that is seen is the one that its caller saw.
LEMMA SaveView ==
  op = "save" =>
    /\ Header = hdr
    /\ Order = IF hdr.log_count = LOG_MAX_COUNT /\ (pc # "record" \/ sent > 0)
               THEN Tail(DumpOrder(hdr)) ELSE DumpOrder(hdr)
<1> SUFFICES ASSUME op = "save"
             PROVE  /\ Header = hdr
                    /\ Order = IF /\ hdr.log_count = LOG_MAX_COUNT
                                  /\ pc # "record" \/ sent > 0
                               THEN Tail(DumpOrder(hdr)) ELSE DumpOrder(hdr)
  OBVIOUS
<1>1. Header = hdr
  BY DEF Header
<1>2. Overwriting <=> /\ hdr.log_count = LOG_MAX_COUNT
                      /\ pc # "record" \/ sent > 0
  BY DEF Overwriting
<1> QED
  BY <1>1, <1>2, Zenon DEF Order

\* The view in the middle of a save, after a step.
LEMMA SaveViewNext ==
  ASSUME op' = "save"
  PROVE  /\ Header' = hdr'
         /\ Order' = IF hdr'.log_count = LOG_MAX_COUNT /\ (pc' # "record" \/ sent' > 0)
                     THEN Tail(DumpOrder(hdr')) ELSE DumpOrder(hdr')
<1>1. (op = "save" =>
        /\ Header = hdr
        /\ Order = IF hdr.log_count = LOG_MAX_COUNT /\ (pc # "record" \/ sent > 0)
                   THEN Tail(DumpOrder(hdr)) ELSE DumpOrder(hdr))'
  BY SaveView, PTL
<1> QED
  BY <1>1

\* Sent bytes of the record: the first one makes room in a full ring, the
\* others are not seen.
LEMMA RecordEvents ==
  ASSUME IInv, IInv', formatted, formatted', op = "save", op' = "save", WriteRecordByte
  PROVE  Stutter \/ Events!Evict \/ Events!Degraded
<1> DEFINE M == LOG_MAX_COUNT
           w == hdr.write_index
           p == DumpOrder(hdr)
<1>1. /\ hdr \in HeaderType /\ mem \in [Addr -> Byte] /\ sent \in Fields
      /\ w \in Slots /\ hdr' = hdr /\ pc = "record"
  BY DEF IInv, TypeOK, HeaderType, WriteRecordByte
<1>2. ASSUME NEW k \in Slots, k # w PROVE RecordAt(mem', k) = RecordAt(mem, k)
  <2>1. \A x \in Addr : x # GetLogAddress(w) + sent => mem'[x] = mem[x]
    BY <1>1 DEF WriteRecordByte
  <2> QED
    BY <1>1, <1>2, <2>1, RecordByteFrame
<1>3. pc' # "record" \/ sent' > 0
  BY <1>1 DEF WriteRecordByte, Fields, LOG_SIZE_BYTES
<1>4. /\ Header = hdr /\ Header' = hdr
      /\ Order = IF hdr.log_count = M /\ sent > 0 THEN Tail(p) ELSE p
      /\ Order' = IF hdr.log_count = M THEN Tail(p) ELSE p
  <2>1. Header = hdr /\ Header' = hdr
    BY <1>1, SaveView, SaveViewNext
  <2>2. Order = IF hdr.log_count = M /\ sent > 0 THEN Tail(p) ELSE p
    BY <1>1, SaveView
  <2>3. Order' = IF hdr.log_count = M THEN Tail(p) ELSE p
    BY <1>1, <1>3, SaveViewNext
  <2> QED
    BY <2>1, <2>2, <2>3
<1>5. /\ SeqView' = SeqView /\ CountKeepsUp' = CountKeepsUp
      /\ CountKeepsUp = (hdr.log_count \in {w, M})
      /\ LogView = Listed(mem, Order) /\ LogView' = Listed(mem', Order')
  <2>1. /\ LogView = Listed(mem, Order) /\ SeqView = hdr.next_seq
        /\ CountKeepsUp = (hdr.log_count \in {w, M})
    BY <1>4, ViewIs
  <2>2. /\ LogView' = Listed(mem', Order') /\ SeqView' = hdr.next_seq
        /\ CountKeepsUp' = (hdr.log_count \in {w, M})
    BY <1>4, ViewIsNext
  <2> QED
    BY <2>1, <2>2
<1>6. /\ p \in Seq(Slots) /\ Len(p) = hdr.log_count
      /\ hdr.log_count < M /\ hdr.log_count = w => \A i \in 1 .. Len(p) : p[i] # w
      /\ hdr.log_count = M => /\ p # <<>> /\ Tail(p) \in Seq(Slots)
                              /\ \A i \in 1 .. Len(Tail(p)) : Tail(p)[i] # w
  BY <1>1, OrderIs, WrittenNotListed
<1> HIDE DEF M, w, p
<1>7. ASSUME NEW order \in Seq(Slots), \A i \in 1 .. Len(order) : order[i] # w
      PROVE  Listed(mem', order) = Listed(mem, order)
  <2>1. \A i \in 1 .. Len(order) : RecordAt(mem', order[i]) = RecordAt(mem, order[i])
    BY <1>2, <1>7, ElementOfSeq
  <2> QED
    BY <2>1, ListedSame
<1>8. CASE hdr.log_count = M
  <2>1. Order' = Tail(p) /\ LogView' = Listed(mem, Tail(p))
    BY <1>4, <1>5, <1>6, <1>7, <1>8
  <2>2. CASE sent > 0
    BY <1>4, <1>5, <1>8, <2>1, <2>2 DEF Stutter
  <2>3. CASE ~(sent > 0)
    <3>1. Order = p /\ LogView = Listed(mem, p)
      BY <1>4, <1>5, <2>3
    <3>2. Listed(mem, Tail(p)) = Tail(Listed(mem, p)) /\ Len(Listed(mem, p)) = M
      BY <1>6, <1>8, ListedIs
    <3>3. CountKeepsUp
      BY <1>5, <1>8
    <3> QED
      BY <1>5, <2>1, <3>1, <3>2, <3>3 DEF Events!Evict, M
  <2> QED
    BY <2>2, <2>3
<1>9. CASE hdr.log_count # M
  <2>1. Order = p /\ Order' = p
    BY <1>4, <1>9
  <2>2. CASE hdr.log_count = w
    <3>1. hdr.log_count < M
      <4>1. hdr.log_count \in 0 .. LOG_MAX_COUNT
        BY <1>1 DEF HeaderType
      <4> QED
        BY <1>9, <4>1, LayoutAssumption DEF M
    <3>2. Listed(mem', p) = Listed(mem, p)
      BY <1>6, <1>7, <2>2, <3>1
    <3> QED
      BY <1>5, <2>1, <3>2 DEF Stutter
  <2>3. CASE hdr.log_count # w
    BY <1>5, <1>9, <2>3 DEF Events!Degraded
  <2> QED
    BY <2>2, <2>3
<1> QED
  BY <1>8, <1>9

\* The header bytes before the last are not seen while the Save runs.
LEMMA HeaderEvents ==
  ASSUME IInv, IInv', formatted, formatted', op = "save", WriteIndex \/ WriteCount
  PROVE  Stutter
<1>1. /\ hdr' = hdr /\ op' = "save" /\ pc # "record" /\ pc' # "record"
      /\ mem \in [Addr -> Byte] /\ hdr \in HeaderType
  BY DEF WriteIndex, WriteCount, IInv, TypeOK, HeaderType
<1>2. \A x \in Addr : x > LOG_NEXT_SEQ_ADDR => mem'[x] = mem[x]
  BY <1>1 DEF WriteIndex, WriteCount, LOG_NEXT_SEQ_ADDR, LOG_WRITE_INDEX_ADDR,
              LOG_COUNT_ADDR
<1>3. \A k \in Slots : RecordAt(mem', k) = RecordAt(mem, k)
  BY <1>2, HeaderByteFrame
<1>4. Header = hdr /\ Header' = hdr /\ Order' = Order
  BY <1>1, SaveView, SaveViewNext
<1>5. Order \in Seq(Slots)
  <2>1. /\ DumpOrder(hdr) \in Seq(Slots)
        /\ hdr.log_count = LOG_MAX_COUNT => Tail(DumpOrder(hdr)) \in Seq(Slots)
    BY <1>1, OrderIs, WrittenNotListed
  <2> QED
    BY <2>1, SaveView
<1>6. Listed(mem', Order) = Listed(mem, Order)
  <2>1. \A i \in 1 .. Len(Order) : RecordAt(mem', Order[i]) = RecordAt(mem, Order[i])
    BY <1>3, <1>5, ElementOfSeq
  <2> QED
    BY <1>5, <2>1, ListedSame
<1>7. LogView = Listed(mem, Order) /\ LogView' = Listed(mem', Order)
  BY <1>4, ViewIs, ViewIsNext
<1>8. SeqView' = SeqView /\ CountKeepsUp' = CountKeepsUp
  BY <1>4, ViewIs, ViewIsNext
<1> QED
  BY <1>6, <1>7, <1>8 DEF Stutter

\* The four fields of a record that SaveData packs.
LEMMA NewRecordBody ==
  ASSUME NEW s \in Byte, NEW mi \in Byte, NEW se \in Byte, NEW c \in Byte
  PROVE  LET r == NewRecord(s, mi, se, c)
         IN  /\ r[LOG_SEQ_IDX] = s /\ r[LOG_MINUTE_IDX] = mi
             /\ r[LOG_SECOND_IDX] = se /\ r[LOG_WARNING_CODE_IDX] = c
<1> DEFINE raw == [f \in Fields |-> IF f = 4 THEN 0 ELSE <<s, mi, se, c>>[f + 1]]
           r   == [raw EXCEPT ![4] = CalcChecksum(raw)]
<1>1. r = NewRecord(s, mi, se, c)
  BY DEF NewRecord, LOG_CHECKSUM_IDX
<1>2. /\ raw \in [Fields -> Byte] /\ raw[0] = s /\ raw[1] = mi /\ raw[2] = se /\ raw[3] = c
  BY DEF Fields, LOG_SIZE_BYTES, Byte
<1> HIDE DEF raw
<1>3. r[0] = s /\ r[1] = mi /\ r[2] = se /\ r[3] = c
  BY <1>2 DEF Fields, LOG_SIZE_BYTES
<1> QED
  BY <1>1, <1>3
  DEF LOG_SEQ_IDX, LOG_MINUTE_IDX, LOG_SECOND_IDX, LOG_WARNING_CODE_IDX

\* Once its five bytes are sent, the record is the event the caller reported.
LEMMA RecordIsEvent ==
  ASSUME IInv, EventInv, formatted, op = "save", pc \in HeaderSteps
  PROVE  \E minute \in Minutes, second \in Seconds, code \in Codes :
           EntryIn(mem, hdr.write_index) = Events!Event(minute, second, code)
<1>1. PICK minute \in Minutes, second \in Seconds, code \in Codes :
             record = NewRecord(hdr.next_seq, minute, second, code)
  BY DEF EventInv
<1>2. /\ hdr.next_seq \in Byte /\ minute \in Byte /\ second \in Byte /\ code \in Byte
  BY ValueAssumption DEF IInv, TypeOK
<1>3. RecordAt(mem, hdr.write_index) = record
  BY DEF IInv, RecordInv
<1>4. /\ record[LOG_SEQ_IDX] = hdr.next_seq /\ record[LOG_MINUTE_IDX] = minute
      /\ record[LOG_SECOND_IDX] = second /\ record[LOG_WARNING_CODE_IDX] = code
  BY <1>1, <1>2, NewRecordBody
<1>5. EntryIn(mem, hdr.write_index)
        = [seq |-> hdr.next_seq, minute |-> minute, second |-> second, code |-> code]
  BY <1>3, <1>4, Zenon DEF EntryIn
<1>6. SeqView = hdr.next_seq
  BY ViewIs DEF Header
<1> QED
  BY <1>5, <1>6, Zenon DEF Events!Event

\* A Save that has written index and count, or need not write the count, has
\* put its event at the end of the list.
LEMMA EventCounts ==
  ASSUME IInv, IInv', formatted, formatted', op = "save", op' = "none",
         pc \in HeaderSteps, CountKeepsUp,
         \A x \in Addr : x > LOG_NEXT_SEQ_ADDR => mem'[x] = mem[x],
         Header'.write_index = NextHeader(hdr).write_index,
         Header'.log_count = NextHeader(hdr).log_count
  PROVE  /\ LogView' = Append(LogView, EntryIn(mem, hdr.write_index))
         /\ Len(LogView) < LOG_MAX_COUNT /\ CountKeepsUp /\ CountKeepsUp'
<1> DEFINE M == LOG_MAX_COUNT
           w == hdr.write_index
           n == hdr.log_count
           p == DumpOrder(hdr)
           e == EntryIn(mem, w)
<1>1. /\ hdr \in HeaderType /\ Header' \in HeaderType /\ mem \in [Addr -> Byte]
      /\ w \in Slots /\ n \in 0 .. M /\ M \in Nat \ {0} /\ w \in 0 .. M - 1
  BY ViewIsNext, LayoutAssumption DEF IInv, TypeOK, HeaderType, Slots
<1>2. /\ Header'.write_index = NextIndex(w)
      /\ Header'.log_count = IF n < M THEN n + 1 ELSE n
  BY DEF NextHeader
<1>3. \A k \in Slots : RecordAt(mem', k) = RecordAt(mem, k)
  BY HeaderByteFrame
<1>4. /\ Header = hdr /\ Order = IF n = M THEN Tail(p) ELSE p
      /\ Order' = DumpOrder(Header')
  <2>1. pc # "record"
    BY DEF HeaderSteps
  <2>2. Header = hdr /\ Order = IF n = M THEN Tail(p) ELSE p
    BY <2>1, SaveView
  <2>3. ~Overwriting'
    BY DEF Overwriting
  <2>4. Order' = DumpOrder(Header')
    BY <2>3, Zenon DEF Order
  <2> QED
    BY <2>2, <2>4
<1>5. n \in {w, M}
  BY <1>4, ViewIs
<1>6. /\ p \in Seq(Slots) /\ Len(p) = n
      /\ n = M => p # <<>> /\ Tail(p) \in Seq(Slots)
  BY <1>1, OrderIs, WrittenNotListed
<1> DEFINE q == IF n = M THEN Tail(p) ELSE p
<1>7. q \in Seq(Slots) /\ Len(q) < M
  BY <1>1, <1>6
<1>8. DumpOrder(Header') = Append(q, w)
  <2>1. CASE n = M
    BY <1>1, <1>2, <2>1, OrderGrows
  <2>2. CASE n # M
    <3>1. n < M /\ n = w
      BY <1>1, <1>5, <2>2
    <3> QED
      BY <1>1, <1>2, <2>2, <3>1, OrderGrows
  <2> QED
    BY <2>1, <2>2
<1> HIDE DEF M, w, n, p, e, q
<1>9. Listed(mem', Append(q, w)) = Append(Listed(mem, q), e)
  <2>1. Append(q, w) \in Seq(Slots)
    BY <1>1, <1>7, AppendProperties
  <2>2. \A i \in 1 .. Len(Append(q, w)) :
          RecordAt(mem', Append(q, w)[i]) = RecordAt(mem, Append(q, w)[i])
    BY <1>3, <2>1, ElementOfSeq
  <2>3. Listed(mem', Append(q, w)) = Listed(mem, Append(q, w))
    BY <2>1, <2>2, ListedSame
  <2>4. Listed(mem, Append(q, w)) = Append(Listed(mem, q), EntryIn(mem, w))
    BY <1>1, <1>7, ListedIs
  <2> QED
    BY <2>3, <2>4 DEF e
<1>10. Order = q
  BY <1>4 DEF q
<1>11. LogView = Listed(mem, q) /\ LogView' = Listed(mem', Append(q, w))
  BY <1>4, <1>8, <1>10, ViewIs, ViewIsNext
<1>12. Len(LogView) < M
  <2>1. Len(Listed(mem, q)) = Len(q)
    BY <1>7, ListedIs
  <2> QED
    BY <1>7, <1>11, <2>1
<1>13. CountKeepsUp'
  <2>1. CountKeepsUp' = (Header'.log_count \in {Header'.write_index, M})
    BY ViewIsNext DEF M
  <2>2. Header'.write_index = IF w + 1 >= M THEN 0 ELSE w + 1
    BY <1>2 DEF NextIndex, M
  <2>3. Header'.log_count \in {Header'.write_index, M}
    BY <1>1, <1>2, <1>5, <2>2
  <2> QED
    BY <2>1, <2>3
<1> QED
  BY <1>9, <1>11, <1>12, <1>13 DEF M, w, e

EventStep ==
  \/ Stutter
  \/ Events!Evict \/ Events!LoseEvent \/ Events!Restore \/ Events!Degraded
  \/ \E minute \in Minutes, second \in Seconds, code \in Codes :
        \/ Events!Record(Events!Event(minute, second, code))
        \/ Events!KeepEvent(Events!Event(minute, second, code))

\* The last byte of a Save makes the event count.
LEMMA LastByteEvents ==
  ASSUME IInv, IInv', EventInv, formatted, formatted', op = "save", WriteSeq
  PROVE  EventStep
<1>1. /\ hdr \in HeaderType /\ mem \in [Addr -> Byte] /\ pc = "next_seq" /\ op' = "none"
      /\ mem' = [mem EXCEPT ![LOG_NEXT_SEQ_ADDR] = NextHeader(hdr).next_seq]
  BY DEF IInv, TypeOK, HeaderType, WriteSeq, Return, Target
<1>2. \A x \in Addr : x # LOG_NEXT_SEQ_ADDR => mem'[x] = mem[x]
  BY <1>1
<1>3. \A x \in Addr : x > LOG_NEXT_SEQ_ADDR => mem'[x] = mem[x]
  BY <1>2 DEF LOG_NEXT_SEQ_ADDR
<1>4. /\ mem'[LOG_WRITE_INDEX_ADDR] = NextHeader(hdr).write_index
      /\ mem'[LOG_COUNT_ADDR] = NextHeader(hdr).log_count
      /\ mem'[LOG_NEXT_SEQ_ADDR] = NextHeader(hdr).next_seq
  <2>1. /\ mem[LOG_WRITE_INDEX_ADDR] = NextHeader(hdr).write_index
        /\ mem[LOG_COUNT_ADDR] = NextHeader(hdr).log_count
    BY <1>1 DEF IInv, HeaderInv
  <2>2. /\ LOG_WRITE_INDEX_ADDR \in Addr /\ LOG_WRITE_INDEX_ADDR # LOG_NEXT_SEQ_ADDR
        /\ LOG_COUNT_ADDR \in Addr /\ LOG_COUNT_ADDR # LOG_NEXT_SEQ_ADDR
        /\ LOG_NEXT_SEQ_ADDR \in Addr
    BY HeaderCells DEF LOG_WRITE_INDEX_ADDR, LOG_COUNT_ADDR, LOG_NEXT_SEQ_ADDR
  <2> QED
    BY <1>1, <1>2, <2>1, <2>2
<1>5. /\ Header'.write_index = NextHeader(hdr).write_index
      /\ Header'.log_count = NextHeader(hdr).log_count
      /\ Header'.next_seq = NextHeader(hdr).next_seq
  BY <1>1, <1>4, ViewIsNext
<1>6. SeqView = hdr.next_seq /\ SeqView' = NextSeq(hdr.next_seq)
  <2>1. SeqView = hdr.next_seq
    BY ViewIs, SaveView
  <2>2. SeqView' = Header'.next_seq
    BY ViewIsNext
  <2> QED
    BY <1>5, <2>1, <2>2 DEF NextHeader
<1>7. SeqView' = Events!After(SeqView)
  BY <1>6, SameNumbers
<1>8. CASE CountKeepsUp
  <2>1. /\ LogView' = Append(LogView, EntryIn(mem, hdr.write_index))
        /\ Len(LogView) < LOG_MAX_COUNT /\ CountKeepsUp /\ CountKeepsUp'
    BY <1>1, <1>3, <1>5, <1>8, EventCounts DEF HeaderSteps
  <2>2. PICK minute \in Minutes, second \in Seconds, code \in Codes :
               EntryIn(mem, hdr.write_index) = Events!Event(minute, second, code)
    BY <1>1, RecordIsEvent DEF HeaderSteps
  <2>3. CountKeepsUp' = CountKeepsUp
    <3>1. CountKeepsUp = (Header.log_count \in {Header.write_index, LOG_MAX_COUNT})
      BY ViewIs
    <3>2. CountKeepsUp' = (Header'.log_count \in {Header'.write_index, LOG_MAX_COUNT})
      BY ViewIsNext
    <3> QED
      BY <2>1, <3>1, <3>2
  <2>4. Events!Record(Events!Event(minute, second, code))
    BY <1>7, <2>1, <2>2, <2>3, Zenon DEF Events!Record
  <2> QED
    BY <2>4, Zenon DEF EventStep
<1>9. CASE ~CountKeepsUp
  BY <1>7, <1>9 DEF Events!Degraded, EventStep
<1> QED
  BY <1>8, <1>9

\* A Save that is given up leaves a log in which its event is, or is not, or
\* the one that made room for it is back.
LEMMA GiveUpEvents ==
  ASSUME IInv, IInv', EventInv, formatted, formatted', op = "save", Timeout \/ Crash
  PROVE  EventStep
<1> DEFINE M == LOG_MAX_COUNT
           p == DumpOrder(hdr)
<1>1. /\ hdr \in HeaderType /\ mem \in [Addr -> Byte] /\ mem' = mem /\ op' = "none"
      /\ pc \in {"record", "write_index", "log_count", "next_seq"}
  BY DEF IInv, TypeOK, ControlInv, HeaderType, Timeout, Crash, Return, memory, Control,
         WriteSteps, HeaderSteps
<1>2. /\ Header' \in HeaderType
      /\ Header'.write_index = IF pc \in {"record", "write_index"}
                               THEN hdr.write_index ELSE NextHeader(hdr).write_index
      /\ Header'.log_count = IF pc = "next_seq"
                             THEN NextHeader(hdr).log_count ELSE hdr.log_count
      /\ Header'.next_seq = hdr.next_seq
  <2>1. /\ mem[LOG_WRITE_INDEX_ADDR] = IF pc \in {"record", "write_index"}
                                       THEN hdr.write_index
                                       ELSE NextHeader(hdr).write_index
        /\ mem[LOG_COUNT_ADDR] = IF pc = "next_seq"
                                 THEN NextHeader(hdr).log_count ELSE hdr.log_count
        /\ mem[LOG_NEXT_SEQ_ADDR] = hdr.next_seq
    BY DEF IInv, HeaderInv
  <2>2. /\ Header' \in HeaderType
        /\ Header'.write_index = mem[LOG_WRITE_INDEX_ADDR]
        /\ Header'.log_count = mem[LOG_COUNT_ADDR]
        /\ Header'.next_seq = mem[LOG_NEXT_SEQ_ADDR]
    BY <1>1, ViewIsNext
  <2> QED
    BY <2>1, <2>2
<1>3. SeqView = hdr.next_seq /\ SeqView' = SeqView
  <2>1. SeqView = hdr.next_seq
    BY ViewIs, SaveView
  <2>2. SeqView' = Header'.next_seq
    BY ViewIsNext
  <2> QED
    BY <1>2, <2>1, <2>2
<1>4. /\ LogView = Listed(mem, Order) /\ LogView' = Listed(mem, DumpOrder(Header'))
      /\ CountKeepsUp = (hdr.log_count \in {hdr.write_index, M})
      /\ CountKeepsUp' = (Header'.log_count \in {Header'.write_index, M})
  <2>1. ~Overwriting'
    BY <1>1 DEF Overwriting
  <2>2. Order' = DumpOrder(Header')
    BY <2>1, Zenon DEF Order
  <2>3. /\ LogView = Listed(mem, Order)
        /\ CountKeepsUp = (hdr.log_count \in {hdr.write_index, M})
    BY ViewIs, SaveView
  <2>4. /\ LogView' = Listed(mem', Order')
        /\ CountKeepsUp' = (Header'.log_count \in {Header'.write_index, M})
    BY ViewIsNext
  <2> QED
    BY <1>1, <2>2, <2>3, <2>4
<1>5. Order = IF hdr.log_count = M /\ (pc # "record" \/ sent > 0) THEN Tail(p) ELSE p
  BY SaveView
<1>6. /\ p \in Seq(Slots) /\ Len(p) = hdr.log_count
      /\ hdr.log_count = M => p # <<>> /\ Tail(p) \in Seq(Slots)
      /\ M \in Nat \ {0} /\ hdr.log_count \in 0 .. M
  BY <1>1, OrderIs, WrittenNotListed, LayoutAssumption DEF HeaderType
<1>7. CASE pc \in {"record", "write_index"}
  <2>1. Header' = hdr
    BY <1>1, <1>2, <1>7 DEF HeaderType
  <2>2. LogView' = Listed(mem, p)
    BY <1>4, <2>1
  <2> HIDE DEF M, p
  <2>3. CASE Order = p
    BY <1>3, <1>4, <2>1, <2>2, <2>3 DEF Stutter, EventStep
  <2>4. CASE Order # p
    <3>1. hdr.log_count = M /\ Order = Tail(p)
      BY <1>5, <2>4
    <3>2. /\ Len(Listed(mem, p)) = M /\ Listed(mem, Tail(p)) = Tail(Listed(mem, p))
          /\ Len(Listed(mem, Tail(p))) = Len(Tail(p))
      BY <1>6, <3>1, ListedIs
    <3>3. Len(Tail(p)) = M - 1
      BY <1>6, <3>1
    <3>4. /\ Len(LogView) < M /\ Len(LogView') = Len(LogView) + 1
          /\ Tail(LogView') = LogView
      BY <1>4, <1>6, <2>2, <3>1, <3>2, <3>3
    <3>5. CountKeepsUp /\ CountKeepsUp'
      BY <1>4, <2>1, <3>1
    <3>6. Events!Restore
      BY <1>3, <3>4, <3>5 DEF Events!Restore, M
    <3> QED
      BY <3>6 DEF EventStep
  <2> QED
    BY <2>3, <2>4
<1>8. CASE /\ pc \in {"log_count", "next_seq"} /\ CountKeepsUp
           /\ pc = "next_seq" \/ hdr.log_count = M
  <2>1. /\ Header'.write_index = NextHeader(hdr).write_index
        /\ Header'.log_count = NextHeader(hdr).log_count
    <3>1. hdr.log_count = M => NextHeader(hdr).log_count = hdr.log_count
      BY <1>6 DEF NextHeader
    <3> QED
      BY <1>2, <1>8, <3>1
  <2>2. /\ LogView' = Append(LogView, EntryIn(mem, hdr.write_index))
        /\ CountKeepsUp /\ CountKeepsUp'
    BY <1>1, <1>8, <2>1, EventCounts DEF HeaderSteps
  <2>3. PICK minute \in Minutes, second \in Seconds, code \in Codes :
               EntryIn(mem, hdr.write_index) = Events!Event(minute, second, code)
    BY <1>8, RecordIsEvent DEF HeaderSteps
  <2>4. Events!KeepEvent(Events!Event(minute, second, code))
    BY <1>3, <2>2, <2>3, Zenon DEF Events!KeepEvent
  <2> QED
    BY <2>4, Zenon DEF EventStep
<1>9. CASE pc = "log_count" /\ hdr.log_count # M
  <2>1. hdr.log_count < M /\ Header'.log_count = hdr.log_count
    BY <1>2, <1>6, <1>9
  <2>2. DumpOrder(Header') = p
    BY <1>1, <1>2, <2>1, OrderGrows
  <2>3. Order = p
    BY <1>5, <1>9
  <2>4. LogView' = LogView
    BY <1>4, <2>2, <2>3
  <2> QED
    BY <1>3, <2>4 DEF Events!LoseEvent, EventStep
<1>10. CASE pc = "next_seq" /\ ~CountKeepsUp
  BY <1>3, <1>10 DEF Events!Degraded, EventStep
<1>11. hdr.log_count = M => CountKeepsUp
  BY <1>4
<1> QED
  BY <1>1, <1>7, <1>8, <1>9, <1>10, <1>11

\* Every step of the log is one of the event log's, or shows nothing.
LEMMA EventSteps ==
  ASSUME IInv, IInv', EventInv, [Next]_vars
  PROVE  [Events!Next]_<<LogView, SeqView, CountKeepsUp>>
<1>1. EventStep
  <2>1. CASE ~formatted
    BY <2>1, FormatEvents DEF EventStep
  <2>2. CASE formatted /\ op # "save"
    BY <2>2, IdleEvents DEF EventStep
  <2>3. CASE formatted /\ op = "save"
    <3>1. formatted'
      BY <2>3 DEF Next, Program, Boot, BootUnreadable, WriteMagic, Save, WriteRecordByte,
         WriteIndex, WriteCount, WriteSeq, Timeout, Crash, vars, history, memory
    <3>2. CASE WriteRecordByte
      <4>1. op' = "save"
        BY <2>3, <3>2 DEF WriteRecordByte
      <4> QED
        BY <2>3, <3>1, <3>2, <4>1, RecordEvents DEF EventStep
    <3>3. CASE WriteIndex \/ WriteCount
      BY <2>3, <3>1, <3>3, HeaderEvents DEF EventStep
    <3>4. CASE WriteSeq
      BY <2>3, <3>1, <3>4, LastByteEvents
    <3>5. CASE Timeout \/ Crash
      BY <2>3, <3>1, <3>5, GiveUpEvents
    <3>6. CASE UNCHANGED vars
      <4>1. /\ mem' = mem /\ formatted' = formatted /\ op' = op /\ hdr' = hdr
            /\ pc' = pc /\ sent' = sent
        BY <3>6 DEF vars
      <4>2. Header' = Header /\ Order' = Order
        BY <2>3, <4>1, SaveView, SaveViewNext
      <4> QED
        BY <2>3, <3>1, <4>1, <4>2, ViewIs, ViewIsNext DEF Stutter, EventStep
    <3>7. ~(pc \in {"off", "idle", "magic"})
      BY <2>3 DEF IInv, ControlInv
    <3> QED
      BY <3>2, <3>3, <3>4, <3>5, <3>6, <3>7
      DEF Next, Program, Boot, BootUnreadable, WriteMagic, Save
  <2> QED
    BY <2>1, <2>2, <2>3
<1>2. CASE Stutter
  BY <1>2 DEF Stutter
<1>3. CASE ~Stutter
  <2>1. Events!Next
    BY <1>1, <1>3, Zenon DEF EventStep, Events!Next
  <2> QED
    BY <2>1
<1> QED
  BY <1>2, <1>3

\* The EEPROM, seen through DumpAll, is the bounded list of the latest events,
\* for every size of the ring, whatever interrupts a Save and wherever.
THEOREM LogIsEventLog == Spec => ImplementsEventLog
<1>1. Init => Events!Init
  <2> SUFFICES ASSUME Init PROVE Events!Init
    OBVIOUS
  <2>1. ~formatted
    BY DEF Init
  <2> QED
    BY <2>1, ViewUnformatted DEF Events!Init
<1>2. IInv /\ IInv' /\ EventInv /\ [Next]_vars
        => [Events!Next]_<<LogView, SeqView, CountKeepsUp>>
  BY EventSteps
<1>3. Spec => []IInv
  BY Invariance
<1> QED
  BY <1>1, <1>2, <1>3, EventInvariance, PTL DEF Spec, ImplementsEventLog, Events!Spec
=============================================================================
