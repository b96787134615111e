------------------------------ MODULE EventLog ------------------------------
(***************************************************************************)
(* What the warning log promises (README of the firmware, "Warning Log"):  *)
(* the last Capacity events in the order they happened, numbered one after *)
(* the other; when the log is full the oldest event makes room.  And what  *)
(* it can promise of an event whose recording is interrupted.              *)
(***************************************************************************)
EXTENDS Integers, Sequences

CONSTANTS Capacity, SeqModulus, Minutes, Seconds, Codes

VARIABLES
  log, next_seq,
  whole          \* no interruption has put the count behind the events

\* Sequence numbers count from 1 and leave out 0 when they wrap.
After(s) == IF (s + 1) % SeqModulus = 0 THEN 1 ELSE (s + 1) % SeqModulus

Event(minute, second, code) ==
  [seq |-> next_seq, minute |-> minute, second |-> second, code |-> code]

Init == log = <<>> /\ next_seq = 1 /\ whole = TRUE

\* Room is made only when there is none.
Evict ==
  /\ whole /\ Len(log) = Capacity
  /\ log' = Tail(log)
  /\ UNCHANGED <<next_seq, whole>>

Record(e) ==
  /\ whole /\ Len(log) < Capacity
  /\ log' = Append(log, e)
  /\ next_seq' = After(next_seq)
  /\ UNCHANGED whole

\* The event is lost, and the count may then stay behind; or it is in the log
\* and its number will be used again.
LoseEvent == log' = log /\ UNCHANGED next_seq
KeepEvent(e) ==
  whole /\ whole' /\ log' = Append(log, e) /\ UNCHANGED next_seq

\* The event that was being evicted is back, damaged perhaps.
Restore ==
  /\ whole /\ whole'
  /\ Len(log) < Capacity /\ Len(log') = Len(log) + 1 /\ Tail(log') = log
  /\ UNCHANGED next_seq

\* With a count that is behind, nothing is promised but the numbers.
Degraded == ~whole /\ next_seq' \in {next_seq, After(next_seq)}

Next ==
  \/ Evict \/ LoseEvent \/ Restore \/ Degraded
  \/ \E minute \in Minutes, second \in Seconds, code \in Codes :
        \/ Record(Event(minute, second, code))
        \/ KeepEvent(Event(minute, second, code))

Spec == Init /\ [][Next]_<<log, next_seq, whole>>

=============================================================================
