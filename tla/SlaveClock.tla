----------------------------- MODULE SlaveClock -----------------------------
(***************************************************************************)
(* The slave's clock (ap/Slave0/Slave0_Time.c) and the four-digit display  *)
(* that shows it as MM.SS (driver/FND/FND.c).  The main loop calls FndTask *)
(* every 50 us and Tick1ms every 20 calls; each call of FndTask moves on   *)
(* to the next digit with three writes to the GPIO port: all digits off,   *)
(* the segments of the new digit, the new digit on.  One action is one     *)
(* write.                                                                  *)
(***************************************************************************)
EXTENDS Naturals

CONSTANTS
  MS_PER_SEC,   \* SLAVE0_TIME_MS_PER_SEC (1000)
  SEC_MAX,      \* SLAVE0_TIME_SEC_MAX (60)
  MIN_MAX       \* SLAVE0_TIME_MIN_MAX (60)

\* FND_SetTime reduces both arguments modulo 60.
ASSUME ClockAssumption ==
  MS_PER_SEC \in 1 .. 65535 /\ SEC_MAX \in 1 .. 60 /\ MIN_MAX \in 1 .. 60

VARIABLES
  ms_count, second, minute,   \* g_ms_count, g_second, g_minute
  fndNumber,       \* s_fndNumber, the number on display
  fndDigitState,   \* the digit that FND_Execute drew last
  segments,        \* digit value and decimal point on the segment lines
  lit,             \* the digit whose line is active, or None
  task,            \* the write FND_Execute performs next, or "idle"
  \* History: milliseconds since the clock was last set to 00.00.
  elapsed

time_vars == <<ms_count, second, minute, fndNumber, elapsed>>
port_vars == <<fndDigitState, segments, lit, task>>
clock_vars == <<ms_count, second, minute, fndNumber, elapsed,
                fndDigitState, segments, lit, task>>

Digits == 0 .. 3
None   == 4
Hour   == MS_PER_SEC * SEC_MAX * MIN_MAX

-----------------------------------------------------------------------------
FND_GetDigitData(num, digit) ==
  CASE digit = 0 -> num % 10
    [] digit = 1 -> (num \div 10) % 10
    [] digit = 2 -> (num \div 100) % 10
    [] digit = 3 -> (num \div 1000) % 10

\* The font is one to one, so a digit's segments stand for its value; the
\* decimal point is lit beside the last digit of the minutes.
FND_MakeSegmentData(num, digit) ==
  [value |-> FND_GetDigitData(num, digit), point |-> digit = 2]

FND_Number(min, sec) == ((min % 60) * 100 + (sec % 60)) % 10000

\* Slave0Time_Init and Slave0Time_Reset; FND_Init turns the digits off.
InitClock ==
  /\ ms_count = 0 /\ second = 0 /\ minute = 0
  /\ fndNumber = FND_Number(0, 0)
  /\ elapsed = 0
  /\ fndDigitState = 3
  /\ segments = [value |-> 15, point |-> FALSE]
  /\ lit = None
  /\ task = "idle"

\* One millisecond: the carries, and the display only when a second ends.
AdvanceTime ==
  LET newSecond == ms_count + 1 >= MS_PER_SEC
      newMinute == newSecond /\ second + 1 >= SEC_MAX
  IN  /\ ms_count' = IF newSecond THEN 0 ELSE ms_count + 1
      /\ second' = CASE newMinute -> 0
                     [] newSecond /\ ~newMinute -> second + 1
                     [] OTHER -> second
      /\ minute' = CASE newMinute /\ minute + 1 >= MIN_MAX -> 0
                     [] newMinute /\ minute + 1 < MIN_MAX -> minute + 1
                     [] OTHER -> minute
      /\ fndNumber' = IF newSecond THEN FND_Number(minute', second')
                      ELSE fndNumber

Tick1ms ==
  /\ task = "idle"
  /\ AdvanceTime
  /\ elapsed' = (elapsed + 1) % Hour
  /\ UNCHANGED port_vars

\* The milliseconds of the running second are kept.
SetTime_KeepsMs(min, sec) ==
  LET m == IF min >= MIN_MAX THEN 0 ELSE min
      s == IF sec >= SEC_MAX THEN 0 ELSE sec
  IN  /\ task = "idle"
      /\ ms_count' = ms_count /\ second' = s /\ minute' = m
      /\ fndNumber' = FND_Number(m, s)
      /\ elapsed' = MS_PER_SEC * (s + SEC_MAX * m)
      /\ UNCHANGED port_vars

\* Slave0Time_SetTime, with values that are out of range taken as zero.
SetTime(min, sec) ==
  LET m == IF min >= MIN_MAX THEN 0 ELSE min
      s == IF sec >= SEC_MAX THEN 0 ELSE sec
  IN  /\ task = "idle"
      /\ ms_count' = 0 /\ second' = s /\ minute' = m
      /\ fndNumber' = FND_Number(m, s)
      /\ elapsed' = MS_PER_SEC * (s + SEC_MAX * m)
      /\ UNCHANGED port_vars

ResetTime ==
  /\ task = "idle"
  /\ ms_count' = 0 /\ second' = 0 /\ minute' = 0
  /\ fndNumber' = FND_Number(0, 0)
  /\ elapsed' = 0
  /\ lit' = None /\ segments' = [value |-> 15, point |-> FALSE]
  /\ UNCHANGED <<fndDigitState, task>>

\* The last digit stays on while the next one is drawn.
FndOff_Skipped ==
  /\ task = "idle"
  /\ fndDigitState' = (fndDigitState + 1) % 4
  /\ task' = "segments"
  /\ UNCHANGED <<lit, segments, ms_count, second, minute, fndNumber, elapsed>>

\* FND_Execute: the next digit, then FND_DispAllOff ...
FndOff ==
  /\ task = "idle"
  /\ fndDigitState' = (fndDigitState + 1) % 4
  /\ lit' = None
  /\ segments' = [value |-> 15, point |-> FALSE]
  /\ task' = "segments"
  /\ UNCHANGED time_vars

\* ... FND_WriteSegment ...
FndSegments ==
  /\ task = "segments"
  /\ segments' = FND_MakeSegmentData(fndNumber, fndDigitState)
  /\ task' = "select"
  /\ UNCHANGED <<fndDigitState, lit, ms_count, second, minute, fndNumber, elapsed>>

\* ... and FND_SelectDigit.
FndSelect ==
  /\ task = "select"
  /\ lit' = fndDigitState
  /\ task' = "idle"
  /\ UNCHANGED <<fndDigitState, segments, ms_count, second, minute, fndNumber, elapsed>>

NextClock ==
  \/ Tick1ms
  \/ ResetTime
  \/ \E min \in {0, MIN_MAX - 1, MIN_MAX}, sec \in {SEC_MAX - 1, SEC_MAX} :
       SetTime(min, sec)
  \/ FndOff \/ FndSegments \/ FndSelect

SpecClock == InitClock /\ [][NextClock]_clock_vars

-----------------------------------------------------------------------------
(* Properties.                                                             *)

\* The ranges of the clock's counters and of the display port.
ClockTypeOK ==
  /\ ms_count \in 0 .. MS_PER_SEC - 1
  /\ second \in 0 .. SEC_MAX - 1
  /\ minute \in 0 .. MIN_MAX - 1
  /\ fndNumber \in 0 .. 9999
  /\ fndDigitState \in Digits
  /\ segments \in [value : 0 .. 15, point : BOOLEAN]
  /\ lit \in Digits \cup {None}
  /\ task \in {"idle", "segments", "select"}
  /\ elapsed \in 0 .. Hour - 1

\* Through every carry and the wrap at the end of the hour the three
\* counters hold the number of ticks: Slave0Time_Tick1ms neither loses nor
\* gains a unit, so a timestamp in a reply is the time since the clock was set.
ClockCountsTicks ==
  /\ ClockTypeOK
  /\ elapsed = ms_count + MS_PER_SEC * (second + SEC_MAX * minute)

\* No ghost digit: whenever a digit is lit or the segments change under one
\* that is lit, between any two of the three writes of FND_Execute, it shows
\* its own place of the current time, after every way of setting the clock
\* and although FND_SetTime is called only when a second ends.
LitDigitIsCurrent ==
  [][lit' # None /\ (lit' # lit \/ segments' # segments) =>
       segments' = FND_MakeSegmentData(100 * minute + second, lit')]_clock_vars
=============================================================================
