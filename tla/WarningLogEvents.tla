-------------------------- MODULE WarningLogEvents --------------------------
(***************************************************************************)
(* The warning log in the EEPROM implements EventLog, resets of the master *)
(* and failed transfers between any two byte writes included.              *)
(***************************************************************************)
EXTENDS WarningLog, Sequences

\* What DumpAll prints of slot k.
Entry(k) ==
  LET r == RecordAt(mem, k)
  IN  [seq |-> r[LOG_SEQ_IDX], minute |-> r[LOG_MINUTE_IDX],
       second |-> r[LOG_SECOND_IDX], code |-> r[LOG_WARNING_CODE_IDX]]

\* During a Save the log is the one its caller saw, without the record that
\* the new one is being written over; the event counts once Save returns.
Overwriting ==
  op = "save" /\ hdr.log_count = LOG_MAX_COUNT /\ (pc # "record" \/ sent > 0)

LogView ==
  LET h     == IF op = "save" THEN hdr ELSE ReadHeader(mem)
      order == IF Overwriting THEN Tail(DumpOrder(h)) ELSE DumpOrder(h)
  IN  IF formatted THEN [i \in 1 .. Len(order) |-> Entry(order[i])] ELSE <<>>

SeqView ==
  CASE ~formatted             -> 1
    [] formatted /\ op = "save" -> hdr.next_seq
    [] OTHER                  -> mem[LOG_NEXT_SEQ_ADDR]

\* A ring that is not full has been filled up to write_index.
CountKeepsUp ==
  LET h == IF op = "save" THEN hdr ELSE ReadHeader(mem)
  IN  formatted => h.log_count \in {h.write_index, LOG_MAX_COUNT}

Events == INSTANCE EventLog
            WITH log <- LogView, next_seq <- SeqView, whole <- CountKeepsUp,
                 Capacity <- LOG_MAX_COUNT, SeqModulus <- SEQ_MODULUS

\* Seen through DumpAll, the EEPROM is the bounded list of the latest events:
\* every byte write is a step of that list or no step at all, and so is every
\* reset and every transfer that WarningLogService_Save gives up in between.
\* Only the count, once an interruption has left it behind the index, may
\* make the list forget.
ImplementsEventLog == Events!Spec

=============================================================================
