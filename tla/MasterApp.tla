------------------------------ MODULE MasterApp ------------------------------
(***************************************************************************)
(* The master board's measurement sequence (ap/MasterApp.c), the edges of  *)
(* its buttons (driver/Button) and the two-second timer with its interrupt *)
(* handler (HAL/TIMER, common/interrupt, TimerCounter.v).                  *)
(*                                                                         *)
(* The main loop calls MasterApp_Update for ever.  One call goes through   *)
(* the three buttons and then through the case of master_state; it is cut  *)
(* into the steps between which the timer may expire, the handler may run  *)
(* and a button may move.  pc is the step that the loop is at.             *)
(***************************************************************************)
EXTENDS Naturals

CONSTANTS
  ExchangeOutcomes,  \* how sending a sample and reading the answer can end
  TIMER_2SEC_ARR     \* the auto-reload value: 1999 milliseconds

ASSUME OutcomeAssumption ==
  ExchangeOutcomes \subseteq {"normal", "warning", "failed"}

ASSUME PeriodAssumption == TIMER_2SEC_ARR \in Nat

VARIABLES
  master_state, auto_mode, log_dump_request,
  sensor_read,   \* current_sensor holds a reading of this sequence
  result,        \* the code in current_result
  lcd,           \* the message on the LCD
  pins,          \* buttons held down
  button_prev_state, button_event_flag,
  cnt_en, intr_en, counter,   \* the timer's control bits and its counter
  irq,           \* its interrupt is pending in the interrupt controller
  g_timer_intr_flag,
  pc, after,     \* the step the loop is at, and where StartSequence returns to
  \* History variables: no action of the code reads them.
  ticks,         \* what the timer has counted since it was last started
  released       \* buttons seen released since their last event

app_vars    == <<master_state, auto_mode, log_dump_request, sensor_read, result>>
button_vars == <<button_prev_state, button_event_flag, released>>
timer_vars  == <<cnt_en, intr_en, counter, irq, g_timer_intr_flag, ticks>>
vars == <<app_vars, lcd, pins, button_vars, timer_vars, pc, after>>

Buttons == {"MANUAL", "AUTO", "LOG"}
States == {"IDLE", "MEASURING", "READ_SENSOR", "DISPLAY_SENSOR",
           "SEND_SENSOR_PACKET", "PROCESS_RESULT", "LOG_DUMP", "ERROR"}
Messages == {"Master Ready", "Measuring", "Sensor Data", "Log Saved",
             "No Warning", "Log Dump", "Master Error", "Auto Mode"}

-----------------------------------------------------------------------------
(* The environment: buttons, timer, interrupt.                             *)

MovePin(b) ==
  /\ pins' = IF b \in pins THEN pins \ {b} ELSE pins \union {b}
  /\ UNCHANGED <<app_vars, lcd, button_vars, timer_vars, pc, after>>

\* Millisecond ticks that make a whole period: 0 to the auto-reload value.
Period == TIMER_2SEC_ARR + 1

\* A tick of the prescaler, which goes on where it was last stopped: the first
\* may come early.  After the auto-reload value the counter starts again at 0
\* and goes on until somebody stops it.
Tick ==
  /\ cnt_en
  /\ counter' = IF counter = TIMER_2SEC_ARR THEN 0 ELSE counter + 1
  /\ irq' = (irq \/ (counter = TIMER_2SEC_ARR /\ intr_en))
  /\ ticks' = IF ticks < Period THEN ticks + 1 ELSE ticks
  /\ UNCHANGED <<app_vars, lcd, pins, button_vars, cnt_en, intr_en,
                 g_timer_intr_flag, pc, after>>

\* TIMER_Stop, TIMER_DisableInterrupt, TIMER_SetCounter(0)
Stop             == cnt_en' = FALSE
DisableInterrupt == intr_en' = FALSE
ZeroCounter      == counter' = 0

\* Interrupt_ClearTimerFlag
ClearFlag == g_timer_intr_flag' = FALSE

\* A handler that sets the flag and leaves the timer running.
TimerIntrHandler_TimerRuns ==
  /\ irq
  /\ irq' = FALSE
  /\ g_timer_intr_flag' = TRUE
  /\ UNCHANGED <<app_vars, lcd, pins, button_vars, cnt_en, intr_en, counter,
                 ticks, pc, after>>

\* The handler makes the timer a one-shot: it stops the periodic counter,
\* wherever that has got to by then.
TimerIntrHandler ==
  /\ irq
  /\ irq' = FALSE
  /\ g_timer_intr_flag' = TRUE
  /\ Stop /\ DisableInterrupt
  /\ UNCHANGED <<app_vars, lcd, pins, button_vars, counter, ticks, pc, after>>

-----------------------------------------------------------------------------
(* MasterApp_StartSequence, called at one step and returning to another.   *)

\* Everything up to TIMER_Start2SecInterrupt, in MeasurementService_Start.
CallStartSequence(return) ==
  /\ sensor_read' = FALSE /\ result' = "normal"
  /\ ClearFlag
  /\ pc' = "start" /\ after' = return
  /\ UNCHANGED <<cnt_en, intr_en, counter, irq, ticks>>

\* TIMER_Start2SecInterrupt: three register writes that have an effect, and
\* between them the prescaler and the handler go on.  Prescaler and
\* auto-reload value never change after TIMER_Init.
StopTimer ==
  /\ pc = "start"
  /\ Stop
  /\ pc' = "stopped"
  /\ UNCHANGED <<app_vars, lcd, pins, button_vars, intr_en, counter, irq,
                 g_timer_intr_flag, ticks, after>>

SetCounter_Forgotten ==
  /\ pc = "stopped"
  /\ pc' = "zeroed"
  /\ UNCHANGED <<app_vars, lcd, pins, button_vars, timer_vars, after>>

SetCounter ==
  /\ pc = "stopped"
  /\ ZeroCounter
  /\ pc' = "zeroed"
  /\ UNCHANGED <<app_vars, lcd, pins, button_vars, cnt_en, intr_en, irq,
                 g_timer_intr_flag, ticks, after>>

\* A period that ends while the LCD is being written leaves its mark in the
\* flag.
StartTimer ==
  /\ pc = "zeroed"
  /\ cnt_en' = TRUE /\ intr_en' = TRUE /\ ticks' = 0
  /\ pc' = "started"
  /\ UNCHANGED <<app_vars, lcd, pins, button_vars, counter, irq,
                 g_timer_intr_flag, after>>

\* A start that clears the flag last, when the timer already runs.
Started_ClearsFlag ==
  /\ pc = "started"
  /\ lcd' = "Measuring"
  /\ master_state' = "MEASURING"
  /\ g_timer_intr_flag' = FALSE
  /\ pc' = after
  /\ UNCHANGED <<auto_mode, log_dump_request, sensor_read, result, pins,
                 button_vars, cnt_en, intr_en, counter, irq, ticks, after>>

Started ==
  /\ pc = "started"
  /\ lcd' = "Measuring"
  /\ master_state' = "MEASURING"
  /\ pc' = after
  /\ UNCHANGED <<auto_mode, log_dump_request, sensor_read, result, pins,
                 button_vars, timer_vars, after>>

-----------------------------------------------------------------------------
(* MasterApp_ProcessButtonEvent.  Its local copy of the events is equal to *)
(* button_event_flag in every bit that it still looks at.                  *)

\* Button_ReadRawState: the buttons that are held.
RawState == pins

\* Events for buttons that are held, whether or not they were held before.
NewEvents_Level == RawState
NewEvents == RawState \ button_prev_state

Poll ==
  /\ pc = "poll"
  /\ button_event_flag' = button_event_flag \union NewEvents
  /\ button_prev_state' = RawState
  /\ released' = (released \union (Buttons \ pins)) \ NewEvents
  /\ pc' = "auto"
  /\ UNCHANGED <<app_vars, lcd, pins, timer_vars, after>>

NoEvent(b, next) ==
  /\ b \notin button_event_flag
  /\ pc' = next
  /\ UNCHANGED <<app_vars, lcd, button_event_flag, timer_vars, after>>

TakeEvent(b) ==
  /\ b \in button_event_flag
  /\ button_event_flag' = button_event_flag \ {b}

\* MasterApp_ToggleAuto
AutoButton ==
  /\ pc = "auto"
  /\ \/ NoEvent("AUTO", "log")
     \/ /\ TakeEvent("AUTO")
        /\ auto_mode' = ~auto_mode
        /\ lcd' = IF master_state = "IDLE" THEN "Auto Mode" ELSE lcd
        /\ UNCHANGED <<master_state, log_dump_request>>
        /\ \/ /\ ~auto_mode /\ master_state = "IDLE"
              /\ CallStartSequence("log")
           \/ /\ auto_mode \/ master_state # "IDLE"
              /\ pc' = "log"
              /\ UNCHANGED <<sensor_read, result, timer_vars, after>>
  /\ UNCHANGED <<pins, button_prev_state, released>>

\* MasterApp_RequestLogDump
LogButton ==
  /\ pc = "log"
  /\ \/ NoEvent("LOG", "manual")
     \/ /\ TakeEvent("LOG")
        /\ log_dump_request' = TRUE
        /\ master_state' = IF master_state = "IDLE" THEN "LOG_DUMP" ELSE master_state
        /\ pc' = "manual"
        /\ UNCHANGED <<auto_mode, sensor_read, result, lcd, timer_vars, after>>
  /\ UNCHANGED <<pins, button_prev_state, released>>

\* A press of MANUAL while the master is busy is dropped.
ManualButton ==
  /\ pc = "manual"
  /\ \/ NoEvent("MANUAL", "switch")
     \/ /\ TakeEvent("MANUAL")
        /\ UNCHANGED <<master_state, auto_mode, log_dump_request, lcd>>
        /\ \/ /\ master_state = "IDLE"
              /\ CallStartSequence("switch")
           \/ /\ master_state # "IDLE"
              /\ pc' = "switch"
              /\ UNCHANGED <<sensor_read, result, timer_vars, after>>
  /\ UNCHANGED <<pins, button_prev_state, released>>

-----------------------------------------------------------------------------
(* The cases of MasterApp_Update.                                          *)

At(state) == pc = "switch" /\ master_state = state

EnvUnchanged == UNCHANGED <<pins, button_vars>>

Idle ==
  /\ At("IDLE")
  /\ \/ /\ log_dump_request
        /\ master_state' = "LOG_DUMP" /\ pc' = "poll"
        /\ UNCHANGED <<sensor_read, result, timer_vars, after>>
     \/ /\ ~log_dump_request /\ auto_mode
        /\ CallStartSequence("poll")
        /\ UNCHANGED master_state
     \/ /\ ~log_dump_request /\ ~auto_mode
        /\ pc' = "poll"
        /\ UNCHANGED <<master_state, sensor_read, result, timer_vars, after>>
  /\ EnvUnchanged
  /\ UNCHANGED <<auto_mode, log_dump_request, lcd>>

\* Interrupt_GetTimerFlag; the flag is cleared in a step of its own.
Measuring ==
  /\ At("MEASURING")
  /\ pc' = IF g_timer_intr_flag THEN "clear" ELSE "poll"
  /\ EnvUnchanged
  /\ UNCHANGED <<app_vars, lcd, timer_vars, after>>

ClearTimerFlag ==
  /\ pc = "clear"
  /\ ClearFlag
  /\ master_state' = "READ_SENSOR" /\ pc' = "poll"
  /\ EnvUnchanged
  /\ UNCHANGED <<auto_mode, log_dump_request, sensor_read, result, lcd, cnt_en,
                 intr_en, counter, irq, ticks, after>>

\* MeasurementService_Read returns APP_OK whatever the sensors did.
ReadSensor ==
  /\ At("READ_SENSOR")
  /\ sensor_read' = TRUE
  /\ master_state' = "DISPLAY_SENSOR" /\ pc' = "poll"
  /\ EnvUnchanged
  /\ UNCHANGED <<auto_mode, log_dump_request, result, lcd, timer_vars, after>>

DisplaySensor ==
  /\ At("DISPLAY_SENSOR")
  /\ lcd' = "Sensor Data"
  /\ master_state' = "SEND_SENSOR_PACKET" /\ pc' = "poll"
  /\ EnvUnchanged
  /\ UNCHANGED <<auto_mode, log_dump_request, sensor_read, result, timer_vars,
                 after>>

\* The send, the wait for the answer and its parsing are one blocking call.
SendSensorPacket ==
  /\ At("SEND_SENSOR_PACKET")
  /\ \E outcome \in ExchangeOutcomes :
       /\ result' = IF outcome = "failed" THEN result ELSE outcome
       /\ master_state' = IF outcome = "failed" THEN "ERROR" ELSE "PROCESS_RESULT"
  /\ pc' = "poll"
  /\ EnvUnchanged
  /\ UNCHANGED <<auto_mode, log_dump_request, sensor_read, lcd, timer_vars,
                 after>>

\* Save's status is printed and forgotten: the LCD says Log Saved anyway.
ProcessResult ==
  /\ At("PROCESS_RESULT")
  /\ \/ result = "warning" /\ lcd' = "Log Saved"
     \/ result = "normal" /\ lcd' = "No Warning"
  /\ pc' = "go_idle"
  /\ EnvUnchanged
  /\ UNCHANGED <<app_vars, timer_vars, after>>

\* A pending dump is looked at last, after the next measurement.
GoIdleOrAutoRestart_AutoFirst ==
  /\ pc = "go_idle"
  /\ \/ /\ auto_mode
        /\ CallStartSequence("poll")
        /\ UNCHANGED <<master_state, lcd>>
     \/ /\ ~auto_mode
        /\ master_state' = IF log_dump_request THEN "LOG_DUMP" ELSE "IDLE"
        /\ lcd' = IF log_dump_request THEN lcd ELSE "Master Ready"
        /\ pc' = "poll"
        /\ UNCHANGED <<sensor_read, result, timer_vars, after>>
  /\ EnvUnchanged
  /\ UNCHANGED <<auto_mode, log_dump_request>>

\* MasterApp_GoIdleOrAutoRestart
GoIdleOrAutoRestart ==
  /\ pc = "go_idle"
  /\ \/ /\ log_dump_request
        /\ master_state' = "LOG_DUMP" /\ pc' = "poll"
        /\ UNCHANGED <<lcd, sensor_read, result, timer_vars, after>>
     \/ /\ ~log_dump_request /\ auto_mode
        /\ CallStartSequence("poll")
        /\ UNCHANGED <<master_state, lcd>>
     \/ /\ ~log_dump_request /\ ~auto_mode
        /\ master_state' = "IDLE" /\ lcd' = "Master Ready" /\ pc' = "poll"
        /\ UNCHANGED <<sensor_read, result, timer_vars, after>>
  /\ EnvUnchanged
  /\ UNCHANGED <<auto_mode, log_dump_request>>

\* A dump that fails is printed and forgotten; the LCD shows "Log Dump" until
\* it has ended.
LogDump ==
  /\ At("LOG_DUMP")
  /\ log_dump_request' = FALSE
  /\ lcd' = "Master Ready"
  /\ master_state' = "IDLE" /\ pc' = "poll"
  /\ EnvUnchanged
  /\ UNCHANGED <<auto_mode, sensor_read, result, timer_vars, after>>

\* An error that leaves auto mode on.
Error_KeepsAuto ==
  /\ At("ERROR")
  /\ lcd' = "Master Error"
  /\ master_state' = "IDLE" /\ pc' = "poll"
  /\ EnvUnchanged
  /\ UNCHANGED <<auto_mode, log_dump_request, sensor_read, result, timer_vars,
                 after>>

Error ==
  /\ At("ERROR")
  /\ lcd' = "Master Error"
  /\ auto_mode' = FALSE
  /\ master_state' = "IDLE" /\ pc' = "poll"
  /\ EnvUnchanged
  /\ UNCHANGED <<log_dump_request, sensor_read, result, timer_vars, after>>

-----------------------------------------------------------------------------
\* A button that is held at start-up is no event.
ButtonInit ==
  /\ button_prev_state = RawState /\ button_event_flag = {}
  /\ released = Buttons \ pins

TimerInit == cnt_en = FALSE /\ intr_en = FALSE /\ counter = 0 /\ ticks = 0

InterruptInit == irq = FALSE /\ g_timer_intr_flag = FALSE

\* The beginning of main, up to the first MasterApp_Update.
Init ==
  /\ master_state = "IDLE" /\ auto_mode = FALSE /\ log_dump_request = FALSE
  /\ sensor_read = FALSE /\ result = "normal"
  /\ lcd = "Master Ready"
  /\ pins \in SUBSET Buttons
  /\ ButtonInit /\ TimerInit /\ InterruptInit
  /\ pc = "poll" /\ after = "poll"

MainLoop ==
  \/ Poll \/ AutoButton \/ LogButton \/ ManualButton
  \/ StopTimer \/ SetCounter \/ StartTimer \/ Started
  \/ Idle \/ Measuring \/ ClearTimerFlag \/ ReadSensor \/ DisplaySensor
  \/ SendSensorPacket \/ ProcessResult \/ GoIdleOrAutoRestart \/ LogDump \/ Error

Next ==
  \/ MainLoop
  \/ Tick \/ TimerIntrHandler
  \/ \E b \in Buttons : MovePin(b)

Spec == Init /\ [][Next]_vars

\* The loop never blocks for good (every wait in it has a time-out), the
\* prescaler of a timer that runs goes on, and a pending interrupt is taken: nothing
\* in the program masks it after Interrupt_Init.  The buttons owe nothing.
FairSpec == Spec /\ WF_vars(MainLoop) /\ WF_vars(Tick) /\ WF_vars(TimerIntrHandler)

-----------------------------------------------------------------------------
(* Properties.                                                             *)

Words ==
  /\ master_state \in States /\ result \in {"normal", "warning"}
  /\ lcd \in Messages
  /\ pc \in {"poll", "auto", "log", "manual", "start", "stopped", "zeroed",
             "started", "switch", "clear", "go_idle"}
  /\ after \in {"poll", "log", "switch"}

ButtonSets ==
  /\ pins \subseteq Buttons
  /\ button_prev_state \subseteq Buttons /\ button_event_flag \subseteq Buttons
  /\ released \subseteq Buttons

Flags ==
  /\ auto_mode \in BOOLEAN /\ log_dump_request \in BOOLEAN
  /\ sensor_read \in BOOLEAN
  /\ cnt_en \in BOOLEAN /\ intr_en \in BOOLEAN
  /\ irq \in BOOLEAN /\ g_timer_intr_flag \in BOOLEAN

Counts == counter \in 0 .. TIMER_2SEC_ARR /\ ticks \in 0 .. Period

MasterTypeOK == Words /\ ButtonSets /\ Flags /\ Counts

\* The sequence has started its timer and waits for it.
Waiting == pc = "started" \/ master_state = "MEASURING"

\* The timer, its pending interrupt and its flag are there only for the
\* measurement that waits for them, so none of them survives into the next
\* one, and a waiting measurement always has one of them still to come: the
\* state machine cannot hang in MEASURING on a tick it has lost.
TimerServesMeasurement ==
  /\ cnt_en \/ irq \/ g_timer_intr_flag => Waiting
  /\ Waiting => (cnt_en /\ intr_en) \/ g_timer_intr_flag

\* The sensors are read only when the timer started with them has counted
\* every millisecond of its period, wherever the one before was stopped, and
\* only a reading of the present sequence is sent.
SampleIsOfThisPeriod ==
  /\ master_state = "READ_SENSOR" => ticks = Period
  /\ master_state \in {"DISPLAY_SENSOR", "SEND_SENSOR_PACKET"} =>
       ticks = Period /\ sensor_read

\* The LCD says what the master does: "Measuring" exactly from the start of a
\* measurement until its sample is shown, whichever step started it, and
\* between two calls of MasterApp_Update "Master Error" only while nothing
\* measures and nothing will start to by itself.
DisplayTellsTruth ==
  /\ lcd = "Measuring" <=>
       master_state \in {"MEASURING", "READ_SENSOR", "DISPLAY_SENSOR"}
  /\ pc = "poll" /\ lcd = "Master Error" =>
       ~auto_mode /\ master_state \in {"IDLE", "LOG_DUMP"}

\* A button acts once for each time it is seen pressed after it was seen
\* released, however long it is held and whatever blocks the loop.
HeldButtonActsOnce ==
  [][\A b \in button_event_flag' \ button_event_flag : b \in released]_vars

\* Every measurement that is started comes to read its sensors.
MeasurementEnds == master_state = "MEASURING" ~> master_state = "READ_SENSOR"

\* A dump that was asked for while the master was busy is made, unless one
\* exchange after another fails: then presses of MANUAL and AUTO can win
\* against it for ever.
DumpIsMade == []<>(master_state = "ERROR") \/ (log_dump_request ~> ~log_dump_request)

\* In auto mode there is always a next measurement, however often and for
\* however long LOG is pressed: its dumps go through the idle state and
\* cannot starve the measurements.
AutoKeepsMeasuring == auto_mode ~> (pc = "start" \/ ~auto_mode)
=============================================================================
