--------------------------- MODULE MasterAppProofs ---------------------------
(***************************************************************************)
(* The safety properties of MasterApp, for every way an exchange and a     *)
(* Save can end.                                                           *)
(*                                                                         *)
(* The properties are not inductive by themselves: what the timer and the  *)
(* LCD may be depends on the step the loop is at.  StepInv says what each  *)
(* step knows of master_state and the timer; MasterInv adds it to the      *)
(* properties and is inductive.                                            *)
(***************************************************************************)
EXTENDS MasterApp, TLAPS

\* What the loop's position says about the state and the timer.
StepInv ==
  /\ pc \in {"start", "stopped", "zeroed", "started"} =>
       master_state \in {"IDLE", "PROCESS_RESULT"}
  /\ pc = "zeroed" => counter = 0
  /\ pc = "clear" => master_state = "MEASURING" /\ g_timer_intr_flag
  /\ pc = "go_idle" => master_state = "PROCESS_RESULT"
  /\ irq => cnt_en /\ ticks = Period
  /\ cnt_en /\ ~irq => ticks = counter
  /\ g_timer_intr_flag => ticks = Period /\ ~cnt_en /\ ~irq

\* While the LCD shows the error, auto mode is on only in the update that
\* makes a pending dump.
ErrorInv ==
  lcd = "Master Error" =>
    /\ master_state \in {"IDLE", "LOG_DUMP"}
    /\ auto_mode => master_state = "LOG_DUMP" /\ pc \in {"log", "manual", "switch"}

\* A button that Poll can see going down has been seen released.
ButtonInv == Buttons \ button_prev_state \subseteq released

MasterInv ==
  /\ MasterTypeOK
  /\ TimerServesMeasurement
  /\ SampleIsOfThisPeriod
  /\ DisplayTellsTruth
  /\ StepInv
  /\ ErrorInv
  /\ ButtonInv

\* The initial state: nothing runs, nothing is pending.
LEMMA MasterInit == Init => MasterInv
<1> SUFFICES ASSUME Init PROVE MasterInv
  OBVIOUS
<1> USE DEF Init, ButtonInit, TimerInit, InterruptInit, RawState
<1>1. MasterTypeOK
  <2>1. Words /\ ButtonSets /\ Flags
    BY Zenon DEF Words, ButtonSets, Flags, Buttons, States, Messages
  <2>2. Counts
    <3>1. counter = 0 /\ ticks = 0
      OBVIOUS
    <3> HIDE DEF Init
    <3>2. QED
      BY <3>1, PeriodAssumption DEF Counts, Period
  <2>3. QED
    BY <2>1, <2>2 DEF MasterTypeOK
<1>2. TimerServesMeasurement /\ SampleIsOfThisPeriod /\ DisplayTellsTruth
  BY DEF TimerServesMeasurement, Waiting, SampleIsOfThisPeriod, DisplayTellsTruth
<1>3. StepInv /\ ErrorInv /\ ButtonInv
  BY DEF StepInv, ErrorInv, ButtonInv
<1>4. QED
  BY <1>1, <1>2, <1>3 DEF MasterInv

\* Every step keeps the state, the messages and the positions of the loop.
LEMMA WordsStep == ASSUME Words, [Next]_vars PROVE Words'
<1> USE DEF Words, States, Messages,
            app_vars, button_vars, timer_vars, EnvUnchanged, At, NoEvent, TakeEvent,
            CallStartSequence, Stop, DisableInterrupt, ZeroCounter, ClearFlag, RawState
<1>1. CASE Poll
  BY <1>1, Zenon DEF Poll, NewEvents
<1>2. CASE AutoButton
  BY <1>2, Zenon DEF AutoButton
<1>3. CASE LogButton
  BY <1>3, Zenon DEF LogButton
<1>4. CASE ManualButton
  BY <1>4, Zenon DEF ManualButton
<1>5. CASE StopTimer
  BY <1>5, Zenon DEF StopTimer
<1>6. CASE SetCounter
  BY <1>6, Zenon DEF SetCounter
<1>7. CASE StartTimer
  BY <1>7, Zenon DEF StartTimer
<1>8. CASE Started
  BY <1>8, Zenon DEF Started
<1>9. CASE Idle
  BY <1>9, Zenon DEF Idle
<1>10. CASE Measuring
  BY <1>10, Zenon DEF Measuring
<1>11. CASE ClearTimerFlag
  BY <1>11, Zenon DEF ClearTimerFlag
<1>12. CASE ReadSensor
  BY <1>12, Zenon DEF ReadSensor
<1>13. CASE DisplaySensor
  BY <1>13, Zenon DEF DisplaySensor
<1>14. CASE SendSensorPacket
  BY <1>14, OutcomeAssumption, Zenon DEF SendSensorPacket
<1>15. CASE ProcessResult
  BY <1>15, OutcomeAssumption, Zenon DEF ProcessResult
<1>16. CASE GoIdleOrAutoRestart
  BY <1>16, Zenon DEF GoIdleOrAutoRestart
<1>17. CASE LogDump
  BY <1>17, Zenon DEF LogDump
<1>18. CASE Error
  BY <1>18, Zenon DEF Error
<1>19. CASE Tick
  BY <1>19, Zenon DEF Tick
<1>20. CASE TimerIntrHandler
  BY <1>20, Zenon DEF TimerIntrHandler
<1>21. ASSUME NEW b \in Buttons, MovePin(b) PROVE Words'
  BY <1>21, Zenon DEF MovePin
<1>22. CASE UNCHANGED vars
  BY <1>22, Zenon DEF vars
<1>23. QED
  BY <1>1, <1>2, <1>3, <1>4, <1>5, <1>6, <1>7, <1>8, <1>9, <1>10, <1>11,
     <1>12, <1>13, <1>14, <1>15, <1>16, <1>17, <1>18, <1>19, <1>20, <1>21, <1>22
     DEF Next, MainLoop

\* Every step keeps the sets of buttons.
LEMMA ButtonSetsStep == ASSUME ButtonSets, [Next]_vars PROVE ButtonSets'
<1> USE DEF ButtonSets,
            app_vars, button_vars, timer_vars, EnvUnchanged, At, NoEvent, TakeEvent,
            CallStartSequence, Stop, DisableInterrupt, ZeroCounter, ClearFlag, RawState
<1>1. CASE Poll
  BY <1>1, Zenon DEF Poll, NewEvents
<1>2. CASE AutoButton
  BY <1>2, Zenon DEF AutoButton
<1>3. CASE LogButton
  BY <1>3, Zenon DEF LogButton
<1>4. CASE ManualButton
  BY <1>4, Zenon DEF ManualButton
<1>5. CASE StopTimer
  BY <1>5, Zenon DEF StopTimer
<1>6. CASE SetCounter
  BY <1>6, Zenon DEF SetCounter
<1>7. CASE StartTimer
  BY <1>7, Zenon DEF StartTimer
<1>8. CASE Started
  BY <1>8, Zenon DEF Started
<1>9. CASE Idle
  BY <1>9, Zenon DEF Idle
<1>10. CASE Measuring
  BY <1>10, Zenon DEF Measuring
<1>11. CASE ClearTimerFlag
  BY <1>11, Zenon DEF ClearTimerFlag
<1>12. CASE ReadSensor
  BY <1>12, Zenon DEF ReadSensor
<1>13. CASE DisplaySensor
  BY <1>13, Zenon DEF DisplaySensor
<1>14. CASE SendSensorPacket
  BY <1>14, OutcomeAssumption, Zenon DEF SendSensorPacket
<1>15. CASE ProcessResult
  BY <1>15, OutcomeAssumption, Zenon DEF ProcessResult
<1>16. CASE GoIdleOrAutoRestart
  BY <1>16, Zenon DEF GoIdleOrAutoRestart
<1>17. CASE LogDump
  BY <1>17, Zenon DEF LogDump
<1>18. CASE Error
  BY <1>18, Zenon DEF Error
<1>19. CASE Tick
  BY <1>19, Zenon DEF Tick
<1>20. CASE TimerIntrHandler
  BY <1>20, Zenon DEF TimerIntrHandler
<1>21. ASSUME NEW b \in Buttons, MovePin(b) PROVE ButtonSets'
  BY <1>21, Zenon DEF MovePin
<1>22. CASE UNCHANGED vars
  BY <1>22, Zenon DEF vars
<1>23. QED
  BY <1>1, <1>2, <1>3, <1>4, <1>5, <1>6, <1>7, <1>8, <1>9, <1>10, <1>11,
     <1>12, <1>13, <1>14, <1>15, <1>16, <1>17, <1>18, <1>19, <1>20, <1>21, <1>22
     DEF Next, MainLoop

\* Every step keeps the flags.
LEMMA FlagsStep == ASSUME Flags, [Next]_vars PROVE Flags'
<1> USE DEF Flags,
            app_vars, button_vars, timer_vars, EnvUnchanged, At, NoEvent, TakeEvent,
            CallStartSequence, Stop, DisableInterrupt, ZeroCounter, ClearFlag, RawState
<1>1. CASE Poll
  BY <1>1, Zenon DEF Poll, NewEvents
<1>2. CASE AutoButton
  BY <1>2, Zenon DEF AutoButton
<1>3. CASE LogButton
  BY <1>3, Zenon DEF LogButton
<1>4. CASE ManualButton
  BY <1>4, Zenon DEF ManualButton
<1>5. CASE StopTimer
  BY <1>5, Zenon DEF StopTimer
<1>6. CASE SetCounter
  BY <1>6, Zenon DEF SetCounter
<1>7. CASE StartTimer
  BY <1>7, Zenon DEF StartTimer
<1>8. CASE Started
  BY <1>8, Zenon DEF Started
<1>9. CASE Idle
  BY <1>9, Zenon DEF Idle
<1>10. CASE Measuring
  BY <1>10, Zenon DEF Measuring
<1>11. CASE ClearTimerFlag
  BY <1>11, Zenon DEF ClearTimerFlag
<1>12. CASE ReadSensor
  BY <1>12, Zenon DEF ReadSensor
<1>13. CASE DisplaySensor
  BY <1>13, Zenon DEF DisplaySensor
<1>14. CASE SendSensorPacket
  BY <1>14, OutcomeAssumption, Zenon DEF SendSensorPacket
<1>15. CASE ProcessResult
  BY <1>15, OutcomeAssumption, Zenon DEF ProcessResult
<1>16. CASE GoIdleOrAutoRestart
  BY <1>16, Zenon DEF GoIdleOrAutoRestart
<1>17. CASE LogDump
  BY <1>17, Zenon DEF LogDump
<1>18. CASE Error
  BY <1>18, Zenon DEF Error
<1>19. CASE Tick
  BY <1>19, Zenon DEF Tick
<1>20. CASE TimerIntrHandler
  BY <1>20, Zenon DEF TimerIntrHandler
<1>21. ASSUME NEW b \in Buttons, MovePin(b) PROVE Flags'
  BY <1>21, Zenon DEF MovePin
<1>22. CASE UNCHANGED vars
  BY <1>22, Zenon DEF vars
<1>23. QED
  BY <1>1, <1>2, <1>3, <1>4, <1>5, <1>6, <1>7, <1>8, <1>9, <1>10, <1>11,
     <1>12, <1>13, <1>14, <1>15, <1>16, <1>17, <1>18, <1>19, <1>20, <1>21, <1>22
     DEF Next, MainLoop

\* Every step keeps the counter within its auto-reload value.
LEMMA CountsStep == ASSUME Counts, [Next]_vars PROVE Counts'
<1> USE PeriodAssumption DEF Counts, Period,
            app_vars, button_vars, timer_vars, EnvUnchanged, At, NoEvent, TakeEvent,
            CallStartSequence, Stop, DisableInterrupt, ZeroCounter, ClearFlag, RawState
<1>1. CASE Poll
  BY <1>1 DEF Poll, NewEvents
<1>2. CASE AutoButton
  BY <1>2 DEF AutoButton
<1>3. CASE LogButton
  BY <1>3 DEF LogButton
<1>4. CASE ManualButton
  BY <1>4 DEF ManualButton
<1>5. CASE StopTimer
  BY <1>5 DEF StopTimer
<1>6. CASE SetCounter
  BY <1>6 DEF SetCounter
<1>7. CASE StartTimer
  BY <1>7 DEF StartTimer
<1>8. CASE Started
  BY <1>8 DEF Started
<1>9. CASE Idle
  BY <1>9 DEF Idle
<1>10. CASE Measuring
  BY <1>10 DEF Measuring
<1>11. CASE ClearTimerFlag
  BY <1>11 DEF ClearTimerFlag
<1>12. CASE ReadSensor
  BY <1>12 DEF ReadSensor
<1>13. CASE DisplaySensor
  BY <1>13 DEF DisplaySensor
<1>14. CASE SendSensorPacket
  BY <1>14 DEF SendSensorPacket
<1>15. CASE ProcessResult
  BY <1>15 DEF ProcessResult
<1>16. CASE GoIdleOrAutoRestart
  BY <1>16 DEF GoIdleOrAutoRestart
<1>17. CASE LogDump
  BY <1>17 DEF LogDump
<1>18. CASE Error
  BY <1>18 DEF Error
<1>19. CASE Tick
  BY <1>19 DEF Tick
<1>20. CASE TimerIntrHandler
  BY <1>20 DEF TimerIntrHandler
<1>21. ASSUME NEW b \in Buttons, MovePin(b) PROVE Counts'
  BY <1>21 DEF MovePin
<1>22. CASE UNCHANGED vars
  BY <1>22 DEF vars
<1>23. QED
  BY <1>1, <1>2, <1>3, <1>4, <1>5, <1>6, <1>7, <1>8, <1>9, <1>10, <1>11,
     <1>12, <1>13, <1>14, <1>15, <1>16, <1>17, <1>18, <1>19, <1>20, <1>21, <1>22
     DEF Next, MainLoop

\* Every step keeps the timer with the measurement that waits for it.
LEMMA TimerStep ==
  ASSUME TimerServesMeasurement, StepInv, [Next]_vars
  PROVE TimerServesMeasurement'
<1> USE DEF TimerServesMeasurement, Waiting, StepInv,
            app_vars, button_vars, timer_vars, EnvUnchanged, At, NoEvent, TakeEvent,
            CallStartSequence, Stop, DisableInterrupt, ZeroCounter, ClearFlag, RawState
<1>1. CASE Poll
  BY <1>1 DEF Poll, NewEvents
<1>2. CASE AutoButton
  <2>1. CASE NoEvent("AUTO", "log")
    BY <1>2, <2>1 DEF AutoButton
  <2>2. CASE ~auto_mode /\ master_state = "IDLE" /\ CallStartSequence("log")
               /\ UNCHANGED master_state
    BY <1>2, <2>2 DEF AutoButton
  <2>3. CASE pc' = "log" /\ UNCHANGED <<master_state, timer_vars>>
    BY <1>2, <2>3 DEF AutoButton
  <2>4. QED
    BY <1>2, <2>1, <2>2, <2>3 DEF AutoButton
<1>3. CASE LogButton
  BY <1>3 DEF LogButton
<1>4. CASE ManualButton
  BY <1>4 DEF ManualButton
<1>5. CASE StopTimer
  BY <1>5 DEF StopTimer
<1>6. CASE SetCounter
  BY <1>6 DEF SetCounter
<1>7. CASE StartTimer
  BY <1>7 DEF StartTimer
<1>8. CASE Started
  BY <1>8 DEF Started
<1>9. CASE Idle
  BY <1>9 DEF Idle
<1>10. CASE Measuring
  BY <1>10 DEF Measuring
<1>11. CASE ClearTimerFlag
  BY <1>11 DEF ClearTimerFlag
<1>12. CASE ReadSensor
  BY <1>12 DEF ReadSensor
<1>13. CASE DisplaySensor
  BY <1>13 DEF DisplaySensor
<1>14. CASE SendSensorPacket
  BY <1>14 DEF SendSensorPacket
<1>15. CASE ProcessResult
  BY <1>15 DEF ProcessResult
<1>16. CASE GoIdleOrAutoRestart
  <2>1. CASE CallStartSequence("poll") /\ UNCHANGED master_state
    BY <1>16, <2>1 DEF GoIdleOrAutoRestart
  <2>2. CASE pc' = "poll" /\ master_state' \in {"LOG_DUMP", "IDLE"}
               /\ UNCHANGED timer_vars
    BY <1>16, <2>2 DEF GoIdleOrAutoRestart
  <2>3. QED
    BY <1>16, <2>1, <2>2 DEF GoIdleOrAutoRestart
<1>17. CASE LogDump
  BY <1>17 DEF LogDump
<1>18. CASE Error
  BY <1>18 DEF Error
<1>19. CASE Tick
  BY <1>19 DEF Tick
<1>20. CASE TimerIntrHandler
  BY <1>20 DEF TimerIntrHandler
<1>21. ASSUME NEW b \in Buttons, MovePin(b) PROVE TimerServesMeasurement'
  BY <1>21 DEF MovePin
<1>22. CASE UNCHANGED vars
  BY <1>22 DEF vars
<1>23. QED
  BY <1>1, <1>2, <1>3, <1>4, <1>5, <1>6, <1>7, <1>8, <1>9, <1>10, <1>11,
     <1>12, <1>13, <1>14, <1>15, <1>16, <1>17, <1>18, <1>19, <1>20, <1>21, <1>22
     DEF Next, MainLoop

\* Every step leaves the loop where StepInv says.
LEMMA StepStep ==
  ASSUME Words, Flags, Counts, TimerServesMeasurement, StepInv, [Next]_vars
  PROVE StepInv'
<1> USE DEF TimerServesMeasurement, Waiting, StepInv,
            app_vars, button_vars, timer_vars, EnvUnchanged, At, NoEvent, TakeEvent,
            CallStartSequence, Stop, DisableInterrupt, ZeroCounter, ClearFlag, RawState
<1>1. CASE Poll
  BY <1>1 DEF Poll, NewEvents
<1>2. CASE AutoButton
  <2>1. CASE NoEvent("AUTO", "log")
    BY <1>2, <2>1 DEF AutoButton
  <2>2. CASE ~auto_mode /\ master_state = "IDLE" /\ CallStartSequence("log")
               /\ UNCHANGED master_state
    BY <1>2, <2>2 DEF AutoButton
  <2>3. CASE pc' = "log" /\ UNCHANGED <<master_state, timer_vars>>
    BY <1>2, <2>3 DEF AutoButton
  <2>4. QED
    BY <1>2, <2>1, <2>2, <2>3 DEF AutoButton
<1>3. CASE LogButton
  BY <1>3 DEF LogButton
<1>4. CASE ManualButton
  BY <1>4 DEF ManualButton
<1>5. CASE StopTimer
  BY <1>5 DEF StopTimer
<1>6. CASE SetCounter
  BY <1>6 DEF SetCounter
<1>7. CASE StartTimer
  BY <1>7 DEF StartTimer
<1>8. CASE Started
  BY <1>8 DEF Started, Words
<1>9. CASE Idle
  BY <1>9 DEF Idle
<1>10. CASE Measuring
  BY <1>10 DEF Measuring
<1>11. CASE ClearTimerFlag
  BY <1>11 DEF ClearTimerFlag
<1>12. CASE ReadSensor
  BY <1>12 DEF ReadSensor
<1>13. CASE DisplaySensor
  BY <1>13 DEF DisplaySensor
<1>14. CASE SendSensorPacket
  BY <1>14 DEF SendSensorPacket
<1>15. CASE ProcessResult
  BY <1>15 DEF ProcessResult
<1>16. CASE GoIdleOrAutoRestart
  <2>1. CASE CallStartSequence("poll") /\ UNCHANGED master_state
    BY <1>16, <2>1 DEF GoIdleOrAutoRestart
  <2>2. CASE pc' = "poll" /\ master_state' \in {"LOG_DUMP", "IDLE"}
               /\ UNCHANGED timer_vars
    BY <1>16, <2>2 DEF GoIdleOrAutoRestart
  <2>3. QED
    BY <1>16, <2>1, <2>2 DEF GoIdleOrAutoRestart
<1>17. CASE LogDump
  BY <1>17 DEF LogDump
<1>18. CASE Error
  BY <1>18 DEF Error
<1>19. CASE Tick
  BY <1>19, PeriodAssumption DEF Tick, Flags, Counts, Period
<1>20. CASE TimerIntrHandler
  BY <1>20 DEF TimerIntrHandler
<1>21. ASSUME NEW b \in Buttons, MovePin(b) PROVE StepInv'
  BY <1>21 DEF MovePin
<1>22. CASE UNCHANGED vars
  BY <1>22 DEF vars
<1>23. QED
  BY <1>1, <1>2, <1>3, <1>4, <1>5, <1>6, <1>7, <1>8, <1>9, <1>10, <1>11,
     <1>12, <1>13, <1>14, <1>15, <1>16, <1>17, <1>18, <1>19, <1>20, <1>21, <1>22
     DEF Next, MainLoop

\* Every step keeps the sample of this period.
LEMMA SampleStep ==
  ASSUME SampleIsOfThisPeriod, StepInv, [Next]_vars
  PROVE SampleIsOfThisPeriod'
<1> USE DEF SampleIsOfThisPeriod, StepInv,
            app_vars, button_vars, timer_vars, EnvUnchanged, At, NoEvent, TakeEvent,
            CallStartSequence, Stop, DisableInterrupt, ZeroCounter, ClearFlag, RawState
<1>1. CASE Poll
  BY <1>1 DEF Poll, NewEvents
<1>2. CASE AutoButton
  BY <1>2 DEF AutoButton
<1>3. CASE LogButton
  BY <1>3 DEF LogButton
<1>4. CASE ManualButton
  BY <1>4 DEF ManualButton
<1>5. CASE StopTimer
  BY <1>5 DEF StopTimer
<1>6. CASE SetCounter
  BY <1>6 DEF SetCounter
<1>7. CASE StartTimer
  BY <1>7 DEF StartTimer
<1>8. CASE Started
  BY <1>8 DEF Started
<1>9. CASE Idle
  BY <1>9 DEF Idle
<1>10. CASE Measuring
  BY <1>10 DEF Measuring
<1>11. CASE ClearTimerFlag
  BY <1>11 DEF ClearTimerFlag
<1>12. CASE ReadSensor
  BY <1>12 DEF ReadSensor
<1>13. CASE DisplaySensor
  BY <1>13 DEF DisplaySensor
<1>14. CASE SendSensorPacket
  BY <1>14 DEF SendSensorPacket
<1>15. CASE ProcessResult
  BY <1>15 DEF ProcessResult
<1>16. CASE GoIdleOrAutoRestart
  BY <1>16 DEF GoIdleOrAutoRestart
<1>17. CASE LogDump
  BY <1>17 DEF LogDump
<1>18. CASE Error
  BY <1>18 DEF Error
<1>19. CASE Tick
  <2>1. ticks = Period => ticks' = ticks
    BY <1>19, PeriodAssumption DEF Tick, Period
  <2>2. master_state' = master_state /\ sensor_read' = sensor_read
    BY <1>19 DEF Tick
  <2>3. QED
    BY <2>1, <2>2 DEF Period
<1>20. CASE TimerIntrHandler
  BY <1>20 DEF TimerIntrHandler
<1>21. ASSUME NEW b \in Buttons, MovePin(b) PROVE SampleIsOfThisPeriod'
  BY <1>21 DEF MovePin
<1>22. CASE UNCHANGED vars
  BY <1>22 DEF vars
<1>23. QED
  BY <1>1, <1>2, <1>3, <1>4, <1>5, <1>6, <1>7, <1>8, <1>9, <1>10, <1>11,
     <1>12, <1>13, <1>14, <1>15, <1>16, <1>17, <1>18, <1>19, <1>20, <1>21, <1>22
     DEF Next, MainLoop

\* Every step keeps the display truthful.
LEMMA DisplayStep ==
  ASSUME DisplayTellsTruth, StepInv, ErrorInv, [Next]_vars
  PROVE DisplayTellsTruth'
<1> USE DEF DisplayTellsTruth, StepInv, ErrorInv,
            app_vars, button_vars, timer_vars, EnvUnchanged, At, NoEvent, TakeEvent,
            CallStartSequence, Stop, DisableInterrupt, ZeroCounter, ClearFlag, RawState
<1>1. CASE Poll
  BY <1>1 DEF Poll, NewEvents
<1>2. CASE AutoButton
  BY <1>2 DEF AutoButton
<1>3. CASE LogButton
  BY <1>3 DEF LogButton
<1>4. CASE ManualButton
  BY <1>4 DEF ManualButton
<1>5. CASE StopTimer
  BY <1>5 DEF StopTimer
<1>6. CASE SetCounter
  BY <1>6 DEF SetCounter
<1>7. CASE StartTimer
  BY <1>7 DEF StartTimer
<1>8. CASE Started
  BY <1>8 DEF Started
<1>9. CASE Idle
  BY <1>9 DEF Idle
<1>10. CASE Measuring
  BY <1>10 DEF Measuring
<1>11. CASE ClearTimerFlag
  BY <1>11 DEF ClearTimerFlag
<1>12. CASE ReadSensor
  BY <1>12 DEF ReadSensor
<1>13. CASE DisplaySensor
  BY <1>13 DEF DisplaySensor
<1>14. CASE SendSensorPacket
  BY <1>14 DEF SendSensorPacket
<1>15. CASE ProcessResult
  BY <1>15 DEF ProcessResult
<1>16. CASE GoIdleOrAutoRestart
  BY <1>16 DEF GoIdleOrAutoRestart
<1>17. CASE LogDump
  BY <1>17 DEF LogDump
<1>18. CASE Error
  BY <1>18 DEF Error
<1>19. CASE Tick
  BY <1>19 DEF Tick
<1>20. CASE TimerIntrHandler
  BY <1>20 DEF TimerIntrHandler
<1>21. ASSUME NEW b \in Buttons, MovePin(b) PROVE DisplayTellsTruth'
  BY <1>21 DEF MovePin
<1>22. CASE UNCHANGED vars
  BY <1>22 DEF vars
<1>23. QED
  BY <1>1, <1>2, <1>3, <1>4, <1>5, <1>6, <1>7, <1>8, <1>9, <1>10, <1>11,
     <1>12, <1>13, <1>14, <1>15, <1>16, <1>17, <1>18, <1>19, <1>20, <1>21, <1>22
     DEF Next, MainLoop

\* Every step keeps auto mode off while the error is shown.
LEMMA ErrorStep == ASSUME Flags, ErrorInv, StepInv, [Next]_vars PROVE ErrorInv'
<1> USE DEF Flags, ErrorInv, StepInv,
            app_vars, button_vars, timer_vars, EnvUnchanged, At, NoEvent, TakeEvent,
            CallStartSequence, Stop, DisableInterrupt, ZeroCounter, ClearFlag, RawState
<1>1. CASE Poll
  BY <1>1 DEF Poll, NewEvents
<1>2. CASE AutoButton
  BY <1>2 DEF AutoButton
<1>3. CASE LogButton
  BY <1>3 DEF LogButton
<1>4. CASE ManualButton
  BY <1>4 DEF ManualButton
<1>5. CASE StopTimer
  BY <1>5 DEF StopTimer
<1>6. CASE SetCounter
  BY <1>6 DEF SetCounter
<1>7. CASE StartTimer
  BY <1>7 DEF StartTimer
<1>8. CASE Started
  BY <1>8 DEF Started
<1>9. CASE Idle
  BY <1>9 DEF Idle
<1>10. CASE Measuring
  BY <1>10 DEF Measuring
<1>11. CASE ClearTimerFlag
  BY <1>11 DEF ClearTimerFlag
<1>12. CASE ReadSensor
  BY <1>12 DEF ReadSensor
<1>13. CASE DisplaySensor
  BY <1>13 DEF DisplaySensor
<1>14. CASE SendSensorPacket
  BY <1>14 DEF SendSensorPacket
<1>15. CASE ProcessResult
  BY <1>15 DEF ProcessResult
<1>16. CASE GoIdleOrAutoRestart
  BY <1>16 DEF GoIdleOrAutoRestart
<1>17. CASE LogDump
  BY <1>17 DEF LogDump
<1>18. CASE Error
  BY <1>18 DEF Error
<1>19. CASE Tick
  BY <1>19 DEF Tick
<1>20. CASE TimerIntrHandler
  BY <1>20 DEF TimerIntrHandler
<1>21. ASSUME NEW b \in Buttons, MovePin(b) PROVE ErrorInv'
  BY <1>21 DEF MovePin
<1>22. CASE UNCHANGED vars
  BY <1>22 DEF vars
<1>23. QED
  BY <1>1, <1>2, <1>3, <1>4, <1>5, <1>6, <1>7, <1>8, <1>9, <1>10, <1>11,
     <1>12, <1>13, <1>14, <1>15, <1>16, <1>17, <1>18, <1>19, <1>20, <1>21, <1>22
     DEF Next, MainLoop

\* Every step keeps the buttons that are up among those seen released.
LEMMA ButtonStep == ASSUME ButtonInv, [Next]_vars PROVE ButtonInv'
<1> USE DEF ButtonInv,
            app_vars, button_vars, timer_vars, EnvUnchanged, At, NoEvent, TakeEvent,
            CallStartSequence, Stop, DisableInterrupt, ZeroCounter, ClearFlag, RawState
<1>1. CASE Poll
  BY <1>1 DEF Poll, NewEvents
<1>2. CASE AutoButton
  BY <1>2 DEF AutoButton
<1>3. CASE LogButton
  BY <1>3 DEF LogButton
<1>4. CASE ManualButton
  BY <1>4 DEF ManualButton
<1>5. CASE StopTimer
  BY <1>5 DEF StopTimer
<1>6. CASE SetCounter
  BY <1>6 DEF SetCounter
<1>7. CASE StartTimer
  BY <1>7 DEF StartTimer
<1>8. CASE Started
  BY <1>8 DEF Started
<1>9. CASE Idle
  BY <1>9 DEF Idle
<1>10. CASE Measuring
  BY <1>10 DEF Measuring
<1>11. CASE ClearTimerFlag
  BY <1>11 DEF ClearTimerFlag
<1>12. CASE ReadSensor
  BY <1>12 DEF ReadSensor
<1>13. CASE DisplaySensor
  BY <1>13 DEF DisplaySensor
<1>14. CASE SendSensorPacket
  BY <1>14 DEF SendSensorPacket
<1>15. CASE ProcessResult
  BY <1>15 DEF ProcessResult
<1>16. CASE GoIdleOrAutoRestart
  BY <1>16 DEF GoIdleOrAutoRestart
<1>17. CASE LogDump
  BY <1>17 DEF LogDump
<1>18. CASE Error
  BY <1>18 DEF Error
<1>19. CASE Tick
  BY <1>19 DEF Tick
<1>20. CASE TimerIntrHandler
  BY <1>20 DEF TimerIntrHandler
<1>21. ASSUME NEW b \in Buttons, MovePin(b) PROVE ButtonInv'
  BY <1>21 DEF MovePin
<1>22. CASE UNCHANGED vars
  BY <1>22 DEF vars
<1>23. QED
  BY <1>1, <1>2, <1>3, <1>4, <1>5, <1>6, <1>7, <1>8, <1>9, <1>10, <1>11,
     <1>12, <1>13, <1>14, <1>15, <1>16, <1>17, <1>18, <1>19, <1>20, <1>21, <1>22
     DEF Next, MainLoop

\* MasterInv is inductive.
LEMMA MasterStep == ASSUME MasterInv, [Next]_vars PROVE MasterInv'
<1>1. Words' /\ ButtonSets' /\ Flags' /\ Counts'
  BY WordsStep, ButtonSetsStep, FlagsStep, CountsStep DEF MasterInv, MasterTypeOK
<1>2. TimerServesMeasurement' /\ StepInv'
  BY TimerStep, StepStep DEF MasterInv, MasterTypeOK
<1>3. SampleIsOfThisPeriod' /\ DisplayTellsTruth'
  BY SampleStep, DisplayStep DEF MasterInv
<1>4. ErrorInv' /\ ButtonInv'
  BY ErrorStep, ButtonStep DEF MasterInv, MasterTypeOK
<1>5. QED
  BY <1>1, <1>2, <1>3, <1>4 DEF MasterInv, MasterTypeOK

\* The invariant of the master's main loop with its interrupt handler.
THEOREM MasterInvariance == Spec => []MasterInv
<1>1. QED
  BY MasterInit, MasterStep, PTL DEF Spec

\* Every variable of the master keeps its type.
THEOREM MasterTypeCorrect == Spec => []MasterTypeOK
<1>1. MasterInv => MasterTypeOK
  BY DEF MasterInv
<1>2. QED
  BY <1>1, MasterInvariance, PTL

\* No tick of the timer is lost and none is left over: wherever the interrupt
\* falls in MasterApp_Update, a waiting measurement still has its tick to
\* come, and a measurement never starts with the tick of another one.
THEOREM NoTickLost == Spec => []TimerServesMeasurement
<1>1. MasterInv => TimerServesMeasurement
  BY DEF MasterInv
<1>2. QED
  BY <1>1, MasterInvariance, PTL

\* The sensors are read after a full period of their own measurement.
THEOREM SamplesAreTimely == Spec => []SampleIsOfThisPeriod
<1>1. MasterInv => SampleIsOfThisPeriod
  BY DEF MasterInv
<1>2. QED
  BY <1>1, MasterInvariance, PTL

\* The LCD tells what the master does.
THEOREM DisplayIsTrue == Spec => []DisplayTellsTruth
<1>1. MasterInv => DisplayTellsTruth
  BY DEF MasterInv
<1>2. QED
  BY <1>1, MasterInvariance, PTL

\* A held button acts once: only Poll raises an event, and only for a button
\* that was up when it was last looked at.
THEOREM ButtonsActOnce == Spec => HeldButtonActsOnce
<1>1. ASSUME MasterInv, [Next]_vars
      PROVE [\A b \in button_event_flag' \ button_event_flag : b \in released]_vars
  <2>1. CASE Poll
    <3>1. button_event_flag' = button_event_flag \union (pins \ button_prev_state)
      BY <2>1 DEF Poll, NewEvents, RawState
    <3>2. pins \subseteq Buttons /\ Buttons \ button_prev_state \subseteq released
      BY <1>1 DEF MasterInv, MasterTypeOK, ButtonSets, ButtonInv
    <3>3. QED
      BY <3>1, <3>2
  <2>2. CASE UNCHANGED vars
    BY <2>2
  <2>3. ASSUME Next, ~Poll PROVE button_event_flag' \subseteq button_event_flag
    BY <2>3, Zenon DEF Next, MainLoop, NoEvent, TakeEvent, EnvUnchanged, button_vars,
       AutoButton, LogButton, ManualButton, StopTimer, SetCounter, StartTimer,
       Started, Idle, Measuring, ClearTimerFlag, ReadSensor, DisplaySensor,
       SendSensorPacket, ProcessResult,
       GoIdleOrAutoRestart, LogDump, Error, Tick, TimerIntrHandler, MovePin
  <2>4. QED
    BY <1>1, <2>1, <2>2, <2>3
<1>2. QED
  BY <1>1, MasterInvariance, PTL DEF Spec, HeldButtonActsOnce
=============================================================================
