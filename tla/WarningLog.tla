----------------------------- MODULE WarningLog -----------------------------
(***************************************************************************)
(* The warning log of the master board (ap/WarningLogService.c): a ring of *)
(* LOG_MAX_COUNT five-byte records in a serial EEPROM that sits on another *)
(* board and keeps its contents when the master restarts.                  *)
(*                                                                         *)
(* The EEPROM changes one byte at a time.  Saving a record takes eight     *)
(* byte writes (five of the record, three of the header), formatting takes *)
(* four, and nothing makes them atomic: the master may be reset, or a byte *)
(* transfer may time out and the caller give up, between any two of them.  *)
(* One action is one byte written.                                         *)
(***************************************************************************)
EXTENDS Bytes, FiniteSets

CONSTANTS
  LOG_MAX_COUNT,   \* slots of the ring (48)
  LOG_BASE_ADDR,   \* address of slot 0 (0x10)
  EEPROM_SIZE,     \* bytes of the EEPROM (256)
  SEQ_MODULUS,     \* the sequence number is a uint8_t (256)
  InitialImages,   \* what the EEPROM may hold before its first use
  Minutes, Seconds, Codes   \* arguments of Save that are explored

LOG_MAGIC_ADDR       == 0
LOG_WRITE_INDEX_ADDR == 1
LOG_COUNT_ADDR       == 2
LOG_NEXT_SEQ_ADDR    == 3
LOG_MAGIC_VALUE      == 165
LOG_SIZE_BYTES       == 5

LOG_SEQ_IDX          == 0
LOG_MINUTE_IDX       == 1
LOG_SECOND_IDX       == 2
LOG_WARNING_CODE_IDX == 3
LOG_CHECKSUM_IDX     == 4

Addr   == 0 .. EEPROM_SIZE - 1
Slots  == 0 .. LOG_MAX_COUNT - 1
Fields == 0 .. LOG_SIZE_BYTES - 1

\* The ring lies between the header and the end of a 256-byte address space.
ASSUME LayoutAssumption ==
  /\ LOG_MAX_COUNT \in Nat \ {0}
  /\ LOG_BASE_ADDR \in Nat /\ LOG_BASE_ADDR > LOG_NEXT_SEQ_ADDR
  /\ EEPROM_SIZE \in Nat /\ EEPROM_SIZE <= 256
  /\ LOG_BASE_ADDR + LOG_MAX_COUNT * LOG_SIZE_BYTES <= EEPROM_SIZE

ASSUME ValueAssumption ==
  /\ SEQ_MODULUS \in 2 .. 256
  /\ InitialImages \subseteq [Addr -> Byte]
  /\ Minutes \subseteq Byte /\ Seconds \subseteq Byte /\ Codes \subseteq Byte

VARIABLES
  mem,       \* the EEPROM
  pc,        \* the byte write the master performs next, or "idle", or "off"
  op,        \* the operation on the stack: "none", "format" or "save"
  hdr,       \* Save's locals write_index, log_count, next_seq
  record,    \* Save's local log, as the bytes raw[] that WriteLog sends
  sent,      \* bytes of the record already written
  \* History variables: no action of the code reads them.
  formatted, \* a Format has run to its end
  written    \* slots that a Save has written completely since then

history == <<formatted, written>>
memory  == <<mem, formatted, written>>
vars    == <<mem, pc, op, hdr, record, sent, formatted, written>>

NoHeader == [write_index |-> 0, log_count |-> 0, next_seq |-> 0]
NoRecord == [f \in Fields |-> 0]

\* The program counter: header bytes are named by the field they update.
HeaderSteps == {"write_index", "log_count", "next_seq"}
WriteSteps  == {"magic", "record"} \cup HeaderSteps
Control     == {"off", "idle"} \cup WriteSteps

-----------------------------------------------------------------------------
(* Addresses, records and the header.                                      *)

\* Faulty variants, each a plausible slip in the definition after it, stand
\* in this module before their originals; only mutation runs use them.
GetLogAddress_FourBytes(k)  == (LOG_BASE_ADDR + k * (LOG_SIZE_BYTES - 1)) % 256

\* The cast to uint8_t is in the code; LayoutAssumption makes it harmless.
GetLogAddress(k) == (LOG_BASE_ADDR + k * LOG_SIZE_BYTES) % 256

RecordAt(m, k) == [f \in Fields |-> m[GetLogAddress(k) + f]]

CalcChecksum(r) ==
  ByteXor(ByteXor(ByteXor(r[LOG_SEQ_IDX], r[LOG_MINUTE_IDX]),
                  r[LOG_SECOND_IDX]),
          r[LOG_WARNING_CODE_IDX])

\* What DumpAll prints as checksum=OK.
Intact(m, k) ==
  RecordAt(m, k)[LOG_CHECKSUM_IDX] = CalcChecksum(RecordAt(m, k))

NewRecord_NumberedLate(seq, minute, second, code) ==
  LET body == <<(seq + 1) % SEQ_MODULUS, minute, second, code>>
      raw  == [f \in Fields |-> IF f = LOG_CHECKSUM_IDX THEN 0 ELSE body[f + 1]]
  IN  [raw EXCEPT ![LOG_CHECKSUM_IDX] = CalcChecksum(raw)]

NewRecord(seq, minute, second, code) ==
  LET body == <<seq, minute, second, code>>
      raw  == [f \in Fields |-> IF f = LOG_CHECKSUM_IDX THEN 0 ELSE body[f + 1]]
  IN  [raw EXCEPT ![LOG_CHECKSUM_IDX] = CalcChecksum(raw)]

\* Values out of range are replaced, not rejected.
ReadHeader(m) ==
  [write_index |-> IF m[LOG_WRITE_INDEX_ADDR] >= LOG_MAX_COUNT
                   THEN 0 ELSE m[LOG_WRITE_INDEX_ADDR],
   log_count   |-> IF m[LOG_COUNT_ADDR] > LOG_MAX_COUNT
                   THEN LOG_MAX_COUNT ELSE m[LOG_COUNT_ADDR],
   next_seq    |-> m[LOG_NEXT_SEQ_ADDR]]

NextIndex(k) == IF k + 1 >= LOG_MAX_COUNT THEN 0 ELSE k + 1

\* next_seq++ on a uint8_t, with 0 left out.
NextSeq(s) ==
  IF (s + 1) % SEQ_MODULUS = 0 THEN 1 ELSE (s + 1) % SEQ_MODULUS

NextHeader_OneShort(h) ==
  [write_index |-> NextIndex(h.write_index),
   log_count   |-> IF h.log_count + 1 < LOG_MAX_COUNT
                   THEN h.log_count + 1 ELSE h.log_count,
   next_seq    |-> NextSeq(h.next_seq)]

NextHeader(h) ==
  [write_index |-> NextIndex(h.write_index),
   log_count   |-> IF h.log_count < LOG_MAX_COUNT
                   THEN h.log_count + 1 ELSE h.log_count,
   next_seq    |-> NextSeq(h.next_seq)]

GetOldestIndex_AlwaysNext(h) == h.write_index
GetOldestIndex(h) == IF h.log_count < LOG_MAX_COUNT THEN 0 ELSE h.write_index

\* The slots DumpAll lists, as a sequence from the oldest to the newest.
DumpOrder(h) ==
  [i \in 1 .. h.log_count |-> (GetOldestIndex(h) + i - 1) % LOG_MAX_COUNT]

DumpSlots(h) == {DumpOrder(h)[i] : i \in 1 .. h.log_count}

\* The header a Format writes, or the one that ends a Save.
FormattedHeader == [write_index |-> 0, log_count |-> 0, next_seq |-> 1]
Target == IF op = "format" THEN FormattedHeader ELSE NextHeader(hdr)

-----------------------------------------------------------------------------
(* The actions.                                                            *)

Init ==
  /\ mem \in InitialImages
  /\ pc = "off" /\ op = "none"
  /\ hdr = NoHeader /\ record = NoRecord /\ sent = 0
  /\ formatted = FALSE /\ written = {}

\* A function returns: its locals go out of scope.
Return(to) ==
  /\ pc' = to /\ op' = "none"
  /\ hdr' = NoHeader /\ record' = NoRecord /\ sent' = 0

Boot_FormatsFormatted ==
  /\ pc = "off"
  /\ pc' = "magic" /\ op' = "format"
  /\ UNCHANGED <<mem, hdr, record, sent, history>>

\* WarningLogService_Init after a restart: the magic byte decides whether the
\* area has to be formatted first.
Boot ==
  /\ pc = "off"
  /\ \/ /\ mem[LOG_MAGIC_ADDR] = LOG_MAGIC_VALUE
        /\ pc' = "idle" /\ UNCHANGED op
     \/ /\ mem[LOG_MAGIC_ADDR] # LOG_MAGIC_VALUE
        /\ pc' = "magic" /\ op' = "format"
  /\ UNCHANGED <<mem, hdr, record, sent, history>>

\* The magic byte cannot be read: Init returns and formats nothing.
BootUnreadable ==
  /\ pc = "off"
  /\ pc' = "idle"
  /\ UNCHANGED <<mem, op, hdr, record, sent, history>>

\* The first byte of Format.
WriteMagic ==
  /\ pc = "magic"
  /\ mem' = [mem EXCEPT ![LOG_MAGIC_ADDR] = LOG_MAGIC_VALUE]
  /\ pc' = "write_index"
  /\ UNCHANGED <<op, hdr, record, sent, history>>

\* WarningLogService_Save up to its first write.  The magic byte is not
\* consulted.  A header that cannot be read makes Save return: a stutter.
Save(minute, second, code) ==
  /\ pc = "idle"
  /\ code \in 1 .. 8 /\ minute <= 59 /\ second <= 59
  /\ hdr' = ReadHeader(mem)
  /\ record' = NewRecord(ReadHeader(mem).next_seq, minute, second, code)
  /\ pc' = "record" /\ op' = "save" /\ sent' = 0
  /\ UNCHANGED memory

\* One byte of the burst of WriteLog.
WriteRecordByte ==
  /\ pc = "record"
  /\ mem' = [mem EXCEPT ![GetLogAddress(hdr.write_index) + sent] = record[sent]]
  /\ IF sent < LOG_SIZE_BYTES - 1
     THEN /\ sent' = sent + 1
          /\ UNCHANGED <<pc, written>>
     ELSE /\ sent' = 0
          /\ pc' = "write_index"
          /\ written' = written \cup {hdr.write_index}
  /\ UNCHANGED <<op, hdr, record, formatted>>

\* WriteHeader: three bytes, in this order.
WriteIndex ==
  /\ pc = "write_index"
  /\ mem' = [mem EXCEPT ![LOG_WRITE_INDEX_ADDR] = Target.write_index]
  /\ pc' = "log_count"
  /\ UNCHANGED <<op, hdr, record, sent, history>>

WriteCount ==
  /\ pc = "log_count"
  /\ mem' = [mem EXCEPT ![LOG_COUNT_ADDR] = Target.log_count]
  /\ pc' = "next_seq"
  /\ UNCHANGED <<op, hdr, record, sent, history>>

\* The last byte: Format or Save returns APP_OK.
WriteSeq ==
  /\ pc = "next_seq"
  /\ mem' = [mem EXCEPT ![LOG_NEXT_SEQ_ADDR] = Target.next_seq]
  /\ IF op = "format"
     THEN formatted' = TRUE /\ written' = {}
     ELSE UNCHANGED history
  /\ Return("idle")

Timeout_RecordStatusIgnored ==
  /\ pc \in WriteSteps
  /\ IF pc = "record"
     THEN pc' = "write_index" /\ sent' = 0 /\ UNCHANGED <<op, hdr, record>>
     ELSE Return("idle")
  /\ UNCHANGED memory

\* SPI_TransferByte gives up; every caller returns the error at once.  (A
\* byte stored although its transfer was given up is the step that stores
\* it, followed by Timeout.)
Timeout ==
  /\ pc \in WriteSteps
  /\ Return("idle")
  /\ UNCHANGED memory

\* The master is reset; the EEPROM board is not.
Crash ==
  /\ pc # "off"
  /\ Return("off")
  /\ UNCHANGED memory

Program ==
  \/ Boot \/ WriteMagic
  \/ \E minute \in Minutes, second \in Seconds, code \in Codes :
        Save(minute, second, code)
  \/ WriteRecordByte \/ WriteIndex \/ WriteCount \/ WriteSeq

Next == Program \/ BootUnreadable \/ Timeout \/ Crash

Spec == Init /\ [][Next]_vars

-----------------------------------------------------------------------------
(* Properties.                                                             *)

TypeOK ==
  /\ mem \in [Addr -> Byte]
  /\ pc \in Control
  /\ op \in {"none", "format", "save"}
  /\ hdr \in [write_index : Slots, log_count : 0 .. LOG_MAX_COUNT, next_seq : Byte]
  /\ record \in [Fields -> Byte]
  /\ sent \in Fields
  /\ formatted \in BOOLEAN
  /\ written \subseteq Slots

\* However the master was interrupted, the only slot that may hold a half
\* written record is the one the header says will be written next: because
\* the record goes first and the header after it, a torn record is always
\* overwritten by the next Save and never left behind in the ring.
TornOnlyAtWriteIndex ==
  formatted => \A k \in written \ {mem[LOG_WRITE_INDEX_ADDR]} : Intact(mem, k)

\* DumpAll never lists a slot that no Save has filled, although the index,
\* the count and the record are updated separately.
DumpOnlyWritten ==
  formatted => DumpSlots(ReadHeader(mem)) \subseteq written

\* Around the ring, away from the write position, sequence numbers go up by
\* one from a record to the next; an interrupted Save may repeat a number
\* but never skips one or goes back, and so does next_seq after the newest.
SequenceFollowsRing ==
  formatted =>
    LET wi     == mem[LOG_WRITE_INDEX_ADDR]
        seq(k) == mem[GetLogAddress(k) + LOG_SEQ_IDX]
    IN  \A k \in written \ {wi} :
          LET successor == IF NextIndex(k) = wi
                           THEN mem[LOG_NEXT_SEQ_ADDR] ELSE seq(NextIndex(k))
          IN  NextIndex(k) \in written \cup {wi}
                => successor \in {seq(k), NextSeq(seq(k))}

\* Once the area is formatted the ranges ReadHeader enforces are never
\* needed, and no restart formats it again: the log survives every reset.
HeaderStaysValid ==
  formatted =>
    /\ mem[LOG_MAGIC_ADDR] = LOG_MAGIC_VALUE
    /\ mem[LOG_WRITE_INDEX_ADDR] \in Slots
    /\ mem[LOG_COUNT_ADDR] \in 0 .. LOG_MAX_COUNT
    /\ mem[LOG_NEXT_SEQ_ADDR] \in 1 .. SEQ_MODULUS - 1

\* The inductive invariant behind the five invariants above.  In its own
\* words: what the header cells hold at each point of an unfinished Save,
\* what has been sent of the record, and which slots can have been written
\* when the header says write_index and log_count.
ControlInv ==
  /\ op = "none" <=> pc \in {"off", "idle"}
  /\ pc = "magic" => op = "format"
  /\ pc = "record" => op = "save"
  /\ op = "format" => ~formatted

FormatInv ==
  op = "format" =>
    /\ pc # "magic" => mem[LOG_MAGIC_ADDR] = LOG_MAGIC_VALUE
    /\ pc \in {"log_count", "next_seq"} => mem[LOG_WRITE_INDEX_ADDR] = 0
    /\ pc = "next_seq" => mem[LOG_COUNT_ADDR] = 0

HeaderInv ==
  formatted /\ op = "save" =>
    /\ mem[LOG_WRITE_INDEX_ADDR] = IF pc \in {"record", "write_index"}
                                   THEN hdr.write_index
                                   ELSE NextHeader(hdr).write_index
    /\ mem[LOG_COUNT_ADDR] = IF pc = "next_seq"
                             THEN NextHeader(hdr).log_count ELSE hdr.log_count
    /\ mem[LOG_NEXT_SEQ_ADDR] = hdr.next_seq

RecordInv ==
  op = "save" =>
    /\ record[LOG_SEQ_IDX] = hdr.next_seq
    /\ record[LOG_CHECKSUM_IDX] = CalcChecksum(record)
    /\ pc = "record" =>
         \A f \in 0 .. sent - 1 :
           mem[GetLogAddress(hdr.write_index) + f] = record[f]
    /\ pc \in HeaderSteps => /\ RecordAt(mem, hdr.write_index) = record
                             /\ formatted => hdr.write_index \in written

WrittenInv ==
  formatted /\ written # Slots =>
    /\ \/ written = 0 .. mem[LOG_WRITE_INDEX_ADDR] - 1
       \/ written = 0 .. mem[LOG_WRITE_INDEX_ADDR]
    /\ mem[LOG_COUNT_ADDR] <= mem[LOG_WRITE_INDEX_ADDR]
    /\ op = "save" => hdr.log_count <= hdr.write_index

IInv ==
  /\ TypeOK /\ ControlInv /\ FormatInv /\ HeaderInv /\ RecordInv /\ WrittenInv
  /\ HeaderStaysValid /\ TornOnlyAtWriteIndex /\ SequenceFollowsRing

\* A step changes no record but the one at the write position, and none
\* while the header is updated: addresses never run into a neighbour.
OtherRecordsUntouched ==
  [][formatted =>
       \A k \in Slots : RecordAt(mem, k)' # RecordAt(mem, k)
                          => /\ k = mem[LOG_WRITE_INDEX_ADDR]
                             /\ op = "save" /\ pc = "record"]_vars

\* README of the firmware: "when the space is full, records are overwritten
\* from the oldest".  So a record that DumpAll lists is only overwritten when
\* the ring is full.  A Save that is cut off between write_index and
\* log_count breaks it: the count then lags behind the index.
OverwritesOnlyWhenFull ==
  [][formatted =>
       LET h == ReadHeader(mem)
       IN  \A k \in DumpSlots(h) :
             RecordAt(mem, k)' # RecordAt(mem, k) => h.log_count = LOG_MAX_COUNT]_vars

\* "[WarningLog] Log area ready." is what Init reports of an area that has
\* been formatted.  Format writes the magic byte first, so after a reset in
\* the middle of Format the next start takes whatever the header cells held
\* for a header.
ReadyMeansFormatted ==
  [][pc = "off" /\ pc' = "idle" /\ mem[LOG_MAGIC_ADDR] = LOG_MAGIC_VALUE
       => formatted]_vars

=============================================================================
