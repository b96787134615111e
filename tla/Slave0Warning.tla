--------------------------- MODULE Slave0Warning ---------------------------
(***************************************************************************)
(* The warning decision of the slave (ap/Slave0/Slave0_Warning.c): each    *)
(* sample is reduced to one condition code, and a warning code is answered *)
(* only once the same condition has been seen WARN_LIMIT times in a row.   *)
(* The code keeps no samples: it remembers the last condition and a        *)
(* counter that stops at WARN_LIMIT.                                       *)
(***************************************************************************)
EXTENDS Naturals

CONSTANTS
  WARN_LIMIT,      \* SLAVE0_WARN_LIMIT (3)
  Distances, Temperatures, Humidities   \* values a sample may carry

DISTANCE_INVALID == 65535
TEMP_INVALID     == 255
HUMID_INVALID    == 255
DISTANCE_WARN_THRESHOLD_CM    == 30
TEMP_HIGH_THRESHOLD_C         == 30
HUMID_HIGH_THRESHOLD_PERCENT  == 70

NORMAL       == 0
SENSOR_ERROR == 8
Code         == NORMAL .. SENSOR_ERROR
Warnings     == Code \ {NORMAL, SENSOR_ERROR}

\* SLAVE0_IS_WARNING_CODE: a sensor error counts as a warning.
IsWarningCode(code) == 1 <= code /\ code <= SENSOR_ERROR

Samples == [distance : Distances, temperature : Temperatures,
            humidity : Humidities]

\* The counter is a uint8_t and is incremented only below WARN_LIMIT.
ASSUME WarningAssumption ==
  /\ WARN_LIMIT \in 1 .. 255
  /\ Distances \subseteq 0 .. DISTANCE_INVALID
  /\ Temperatures \subseteq 0 .. TEMP_INVALID
  /\ Humidities \subseteq 0 .. HUMID_INVALID

VARIABLES
  last_condition_code, consecutive_count,
  verdict,   \* the code that the last Evaluate returned
  \* History: the conditions of the last WARN_LIMIT samples, newest first.
  recent

warning_vars == <<last_condition_code, consecutive_count, verdict, recent>>

-----------------------------------------------------------------------------
\* The code of the set of conditions that a sample meets.
ConditionOf(dist, temp, humid) ==
  CASE  dist /\  temp /\  humid -> 7
    []  dist /\  temp /\ ~humid -> 4
    []  dist /\ ~temp /\  humid -> 5
    [] ~dist /\  temp /\  humid -> 6
    []  dist /\ ~temp /\ ~humid -> 1
    [] ~dist /\  temp /\ ~humid -> 2
    [] ~dist /\ ~temp /\  humid -> 3
    [] OTHER -> NORMAL

GetRawConditionCode(s) ==
  IF \/ s.distance = DISTANCE_INVALID
     \/ s.temperature = TEMP_INVALID
     \/ s.humidity = HUMID_INVALID
  THEN SENSOR_ERROR
  ELSE ConditionOf(s.distance <= DISTANCE_WARN_THRESHOLD_CM,
                   s.temperature >= TEMP_HIGH_THRESHOLD_C,
                   s.humidity >= HUMID_HIGH_THRESHOLD_PERCENT)

\* A different condition goes on with the counter of the one before it.
CountOf_KeptOnChange(raw) ==
  CASE raw = SENSOR_ERROR -> WARN_LIMIT
    [] raw = NORMAL       -> 0
    [] OTHER -> IF consecutive_count < WARN_LIMIT
                THEN consecutive_count + 1 ELSE consecutive_count

\* The counter after a sample with condition raw.
CountOf(raw) ==
  CASE raw = SENSOR_ERROR -> WARN_LIMIT
    [] raw = NORMAL       -> 0
    [] raw \notin {SENSOR_ERROR, NORMAL} /\ raw # last_condition_code -> 1
    [] OTHER -> IF consecutive_count < WARN_LIMIT
                THEN consecutive_count + 1 ELSE consecutive_count

\* The code returned after a sample with condition raw.
VerdictOf(raw, count) ==
  IF raw = SENSOR_ERROR \/ count >= WARN_LIMIT THEN raw ELSE NORMAL

Remember(raw) ==
  recent' = [i \in 1 .. WARN_LIMIT |-> IF i = 1 THEN raw ELSE recent[i - 1]]

-----------------------------------------------------------------------------
InitWarning ==
  /\ last_condition_code = NORMAL
  /\ consecutive_count = 0
  /\ verdict = NORMAL
  /\ recent = [i \in 1 .. WARN_LIMIT |-> NORMAL]

EvaluateCondition(raw) ==
  /\ last_condition_code' = raw
  /\ consecutive_count' = CountOf(raw)
  /\ verdict' = VerdictOf(raw, consecutive_count')
  /\ Remember(raw)

Evaluate(s) == EvaluateCondition(GetRawConditionCode(s))

\* Slave0Warning_Init, when the slave starts again.
ResetWarning ==
  /\ last_condition_code' = NORMAL
  /\ consecutive_count' = 0
  /\ verdict' = NORMAL
  /\ recent' = [i \in 1 .. WARN_LIMIT |-> NORMAL]

NextWarning == ResetWarning \/ \E s \in Samples : Evaluate(s)

SpecWarning == InitWarning /\ [][NextWarning]_warning_vars

-----------------------------------------------------------------------------
(* Properties.                                                             *)

\* The ranges of the decision's state; the counter never leaves 0..WARN_LIMIT.
WarningTypeOK ==
  /\ last_condition_code \in Code
  /\ consecutive_count \in 0 .. WARN_LIMIT
  /\ verdict \in Code
  /\ recent \in [1 .. WARN_LIMIT -> Code]

\* A warning is answered exactly when the last WARN_LIMIT samples all met
\* that same condition: neither two alternating conditions, nor a sensor
\* error (which presets the counter to the limit), nor a normal sample in
\* between lets Slave0Warning_Evaluate confirm a warning too early, and a
\* lasting condition is never left unconfirmed.
ConfirmedIffRepeated ==
  \A c \in Warnings : (verdict = c) <=> (\A i \in 1 .. WARN_LIMIT : recent[i] = c)

\* The counter is the length of the run of equal conditions at the end of
\* the history, up to WARN_LIMIT: the strengthening that makes the property
\* above inductive.
CountIsRunLength ==
  /\ recent[1] = last_condition_code
  /\ (last_condition_code = NORMAL) => (consecutive_count = 0)
  /\ (last_condition_code \in Warnings) => (consecutive_count >= 1)
  /\ last_condition_code \in Warnings =>
       \A i \in 1 .. WARN_LIMIT :
         i <= consecutive_count => recent[i] = last_condition_code
  /\ last_condition_code \in Warnings /\ consecutive_count < WARN_LIMIT =>
       recent[consecutive_count + 1] # last_condition_code
  /\ verdict = VerdictOf(last_condition_code, consecutive_count)

WarningInv == WarningTypeOK /\ CountIsRunLength
=============================================================================
