--------------------------- MODULE TimeController ---------------------------
(***************************************************************************)
(* The UART-FIFO time controller between its merged buttons and its two    *)
(* clocks: the control FSM (MODE_CONTROL.v), the stopwatch                 *)
(* (stopwatch_datapath.v) and the watch (watch_datapath.v), as TOP.v       *)
(* connects them.  One step is one edge of the system clock: every         *)
(* register takes its next value at once, computed from the old ones.      *)
(*                                                                         *)
(* The 100 Hz tick of each clock is a register, so a tick reaches the      *)
(* counters one clock after the divider wrapped, when the FSM may already  *)
(* have left the state that let the divider run.                           *)
(***************************************************************************)
EXTENDS Integers, Sequences

CONSTANTS
  F_COUNT,     \* clocks per 100 Hz tick (1000000)
  SW_TIMES,    \* moduli of the stopwatch's counters, lowest first: 100, 60, 60, 24
  WT_TIMES,    \* moduli of the watch's digits: 100, 10, 6, 10, 6, 24
  Presses      \* sets of buttons that may be pressed in the same clock

Buttons   == {"R", "L", "U", "D"}
SwCounter == 1 .. Len(SW_TIMES)
WtCounter == 1 .. 6

ASSUME TimeAssumption ==
  /\ F_COUNT \in Nat \ {0}
  /\ SW_TIMES \in Seq(Nat \ {0})
  /\ WT_TIMES \in [WtCounter -> Nat \ {0}]
  /\ Presses \subseteq SUBSET Buttons

VARIABLES
  current_state,   \* of the control FSM
  mode_reg,        \* the stopwatch counts down
  sw_count, sw_tick, sw_time,   \* stopwatch: divider, o_tick_100hz, counters
  wt_count, wt_tick, wt_time    \* watch: divider, o_tick_100hz, digits

stopwatch == <<sw_count, sw_tick, sw_time>>
watch     == <<wt_count, wt_tick, wt_time>>
time_vars == <<current_state, mode_reg, stopwatch, watch>>

-----------------------------------------------------------------------------
(* The control FSM.                                                        *)

\* What the switches sw[2:1] select, with the state each function rests in.
Functions == {"stopwatch", "watch", "sr04", "dht11"}
Home == [stopwatch |-> "SW_STOP", watch |-> "W_RUN",
         sr04 |-> "SR04_STOP", dht11 |-> "DHT11_STOP"]

\* The digit that each setting state edits, as o_timesel and o_digitsel say.
SetDigit == [W_SET_S1 |-> 2, W_SET_S10 |-> 3, W_SET_M1 |-> 4,
             W_SET_M10 |-> 5, W_SET_HOUR |-> 6]
SetStates == DOMAIN SetDigit

\* btnL moves to the next digit and btnR back, around the five of them.
LeftOf == [W_SET_S1 |-> "W_SET_S10", W_SET_S10 |-> "W_SET_M1",
           W_SET_M1 |-> "W_SET_M10", W_SET_M10 |-> "W_SET_HOUR",
           W_SET_HOUR |-> "W_SET_S1"]
RightOf == [W_SET_S1 |-> "W_SET_HOUR", W_SET_S10 |-> "W_SET_S1",
            W_SET_M1 |-> "W_SET_S10", W_SET_M10 |-> "W_SET_M1",
            W_SET_HOUR |-> "W_SET_M10"]

\* States that are left after one clock whatever the inputs are.
AfterPulse == [SW_CLEAR |-> "SW_STOP", SW_MODE |-> "SW_STOP",
               SR04_RUN_1 |-> "SR04_RUN_2", SR04_RUN_2 |-> "SR04_STOP",
               DHT11_RUN |-> "DHT11_STOP"]
PulseStates == DOMAIN AfterPulse

States == {Home[f] : f \in Functions} \cup {"SW_RUN"} \cup SetStates \cup PulseStates

\* The function a state belongs to.
FunctionOf(s) ==
  CASE s \in {"SW_STOP", "SW_RUN", "SW_CLEAR", "SW_MODE"} -> "stopwatch"
    [] s \in SetStates \cup {"W_RUN"} -> "watch"
    [] s \in {"SR04_STOP", "SR04_RUN_1", "SR04_RUN_2"} -> "sr04"
    [] s \in {"DHT11_STOP", "DHT11_RUN"} -> "dht11"

\* btnL clears a running stopwatch as well.
OnButton_ClearsRunning(s, set, btn) ==
  CASE s = "SW_RUN" /\ "R" \in btn -> "SW_STOP"
    [] s \in {"SW_STOP", "SW_RUN"} /\ "L" \in btn -> "SW_CLEAR"
    [] s = "SW_STOP" /\ "R" \in btn -> "SW_RUN"
    [] s = "SW_STOP" /\ btn \cap {"R", "L"} = {} /\ "D" \in btn -> "SW_MODE"
    [] s = "W_RUN" /\ set -> "W_SET_S1"
    [] s \in SetStates /\ ~set -> "W_RUN"
    [] s \in SetStates /\ set /\ "L" \in btn -> LeftOf[s]
    [] OTHER -> s

\* What a button does in a state whose function stays selected.
OnButton(s, set, btn) ==
  CASE s = "SW_STOP" /\ "R" \in btn -> "SW_RUN"
    [] s = "SW_STOP" /\ "R" \notin btn /\ "L" \in btn -> "SW_CLEAR"
    [] s = "SW_STOP" /\ btn \cap {"R", "L"} = {} /\ "D" \in btn -> "SW_MODE"
    [] s = "SW_RUN" /\ "R" \in btn -> "SW_STOP"
    [] s = "W_RUN" /\ set -> "W_SET_S1"
    [] s \in SetStates /\ ~set -> "W_RUN"
    [] s \in SetStates /\ set /\ "L" \in btn -> LeftOf[s]
    [] s \in SetStates /\ set /\ "L" \notin btn /\ "R" \in btn -> RightOf[s]
    [] s = "SR04_STOP" /\ "R" \in btn -> "SR04_RUN_1"
    [] s = "DHT11_STOP" /\ "R" \in btn -> "DHT11_RUN"
    [] OTHER -> s

\* A running stopwatch does not look at the switches.
NextState_RunsOn(s, f, set, btn) ==
  CASE s \in PulseStates -> AfterPulse[s]
    [] s \in SetStates /\ f # "watch" -> "SW_STOP"
    [] s \notin PulseStates \cup SetStates \cup {"SW_RUN"} /\ f # FunctionOf(s) -> Home[f]
    [] OTHER -> OnButton(s, set, btn)

\* next_state, for function f selected, the setting switch sw[0] and buttons.
NextState(s, f, set, btn) ==
  CASE s \in PulseStates -> AfterPulse[s]
    [] s \in SetStates /\ f # "watch" -> "SW_STOP"
    [] s \notin PulseStates \cup SetStates /\ f # FunctionOf(s) -> Home[f]
    [] OTHER -> OnButton(s, set, btn)

Control(f, set, btn) ==
  /\ current_state' = NextState(current_state, f, set, btn)
  /\ mode_reg' = IF current_state = "SW_MODE" THEN ~mode_reg ELSE mode_reg

-----------------------------------------------------------------------------
(* The stopwatch: a divider that runs in SW_RUN and a chain of counters    *)
(* whose carries are combinational.                                        *)

StepUp(c, n) == IF c = n - 1 THEN 0 ELSE c + 1
StepDown(c, n) == IF c = 0 THEN n - 1 ELSE c - 1

\* The carry of counting up in both directions.
SwCarry_UpOnly(i) == sw_time[i] = SW_TIMES[i] - 1
\* A counter passes the tick on at the end of its range in this direction.
SwCarry(i) == sw_time[i] = IF mode_reg THEN 0 ELSE SW_TIMES[i] - 1
SwTicks(i) == sw_tick /\ \A j \in 1 .. i - 1 : SwCarry(j)

\* A tick goes before a clear.
SwNext(i) ==
  CASE SwTicks(i) /\ mode_reg  -> StepDown(sw_time[i], SW_TIMES[i])
    [] SwTicks(i) /\ ~mode_reg -> StepUp(sw_time[i], SW_TIMES[i])
    [] ~SwTicks(i) -> IF current_state = "SW_CLEAR" THEN 0 ELSE sw_time[i]

Stopwatch ==
  /\ sw_time' = [i \in SwCounter |-> SwNext(i)]
  /\ CASE current_state = "SW_CLEAR" -> sw_count' = 0 /\ sw_tick' = FALSE
       [] current_state = "SW_RUN" ->
            /\ sw_count' = (sw_count + 1) % F_COUNT
            /\ sw_tick' = (sw_count = F_COUNT - 1)
       [] OTHER -> sw_count' = sw_count /\ sw_tick' = FALSE

-----------------------------------------------------------------------------
(* The watch: the same divider, stopped only in the setting states, and    *)
(* digits that count up and can be edited one at a time.                   *)

WtCarry(i) == wt_time[i] = WT_TIMES[i] - 1
WtTicks(i) == wt_tick /\ \A j \in 1 .. i - 1 : WtCarry(j)

\* o_set_mode, and the digit an edit goes to.
Setting == current_state \in SetStates
Edited(i) == Setting /\ SetDigit[current_state] = i

\* An edit goes before a tick.
WtNext_EditFirst(i, btn) ==
  CASE Edited(i) /\ "U" \in btn -> StepUp(wt_time[i], WT_TIMES[i])
    [] Edited(i) /\ "U" \notin btn /\ "D" \in btn -> StepDown(wt_time[i], WT_TIMES[i])
    [] ~(Edited(i) /\ btn \cap {"U", "D"} # {}) /\ WtTicks(i) ->
         StepUp(wt_time[i], WT_TIMES[i])
    [] OTHER -> wt_time[i]

\* A tick goes before an edit, and btnU before btnD.
WtNext(i, btn) ==
  CASE WtTicks(i) -> StepUp(wt_time[i], WT_TIMES[i])
    [] ~WtTicks(i) /\ Edited(i) /\ "U" \in btn -> StepUp(wt_time[i], WT_TIMES[i])
    [] ~WtTicks(i) /\ Edited(i) /\ "U" \notin btn /\ "D" \in btn ->
         StepDown(wt_time[i], WT_TIMES[i])
    [] OTHER -> wt_time[i]

\* The watch runs only while it is shown.
Watch_OnlyShown(btn) ==
  /\ wt_time' = [i \in WtCounter |-> WtNext(i, btn)]
  /\ IF current_state # "W_RUN"
     THEN wt_count' = wt_count /\ wt_tick' = FALSE
     ELSE /\ wt_count' = (wt_count + 1) % F_COUNT
          /\ wt_tick' = (wt_count = F_COUNT - 1)

Watch(btn) ==
  /\ wt_time' = [i \in WtCounter |-> WtNext(i, btn)]
  /\ IF Setting
     THEN wt_count' = wt_count /\ wt_tick' = FALSE
     ELSE /\ wt_count' = (wt_count + 1) % F_COUNT
          /\ wt_tick' = (wt_count = F_COUNT - 1)

-----------------------------------------------------------------------------
InitTime ==
  /\ current_state = "SW_STOP" /\ mode_reg = FALSE
  /\ sw_count = 0 /\ sw_tick = FALSE /\ sw_time = [i \in SwCounter |-> 0]
  /\ wt_count = 0 /\ wt_tick = FALSE /\ wt_time = [i \in WtCounter |-> 0]

Clock(f, set, btn) == Control(f, set, btn) /\ Stopwatch /\ Watch(btn)

\* The reset input, or the M command: the decoder's pulse resets every
\* register, the decoder itself included.
ResetTime ==
  /\ current_state' = "SW_STOP" /\ mode_reg' = FALSE
  /\ sw_count' = 0 /\ sw_tick' = FALSE /\ sw_time' = [i \in SwCounter |-> 0]
  /\ wt_count' = 0 /\ wt_tick' = FALSE /\ wt_time' = [i \in WtCounter |-> 0]

\* The switches sw[2:0]; the setting switch sw[0] is looked at only in the
\* watch's states, and only while the watch is selected.
Switches == {<<f, FALSE>> : f \in Functions} \cup {<<"watch", TRUE>>}

NextTime ==
  \/ ResetTime
  \/ \E sw \in Switches, btn \in Presses : Clock(sw[1], sw[2], btn)

SpecTime == InitTime /\ [][NextTime]_time_vars

-----------------------------------------------------------------------------
(* Properties.                                                             *)

\* The ranges of the registers: no counter ever leaves its modulus, whether
\* it is counted, counted down or edited.
TimeTypeOK ==
  /\ current_state \in States /\ mode_reg \in BOOLEAN
  /\ sw_count \in 0 .. F_COUNT - 1 /\ sw_tick \in BOOLEAN
  /\ wt_count \in 0 .. F_COUNT - 1 /\ wt_tick \in BOOLEAN
  /\ sw_time \in [SwCounter -> Nat] /\ wt_time \in [WtCounter -> Nat]
  /\ \A i \in SwCounter : sw_time[i] < SW_TIMES[i]
  /\ \A i \in WtCounter : wt_time[i] < WT_TIMES[i]

\* The units of the counters in steps of the lowest one, and of what comes
\* after the highest.
Units(times) ==
  LET unit[i \in 1 .. Len(times) + 1] ==
        IF i = 1 THEN 1 ELSE unit[i - 1] * times[i - 1]
  IN  unit
SwUnits == Units(SW_TIMES)
WtUnits == Units(WT_TIMES)

\* The counters as one number of hundredths.
Hundredths(time, units) ==
  LET sum[i \in 0 .. Len(time)] ==
        IF i = 0 THEN 0 ELSE sum[i - 1] + time[i] * units[i]
  IN  sum[Len(time)]

\* The clocks after which each of them begins again.
SwTurn == F_COUNT * SwUnits[Len(SW_TIMES) + 1]
WtTurn == F_COUNT * WtUnits[Len(WT_TIMES) + 1]

Pending(b) == IF b THEN 1 ELSE 0

\* The time in system clocks, with the part that is still in the divider and
\* in the tick register.  Counting down, the divider holds what has already
\* been taken off the counters.
WatchClocks ==
  (F_COUNT * (Hundredths(wt_time, WtUnits) + Pending(wt_tick)) + wt_count)
    % WtTurn
StopwatchClocks ==
  LET ahead == F_COUNT * Pending(sw_tick) + sw_count
      shown == F_COUNT * Hundredths(sw_time, SwUnits)
  IN  (IF mode_reg THEN shown - ahead ELSE shown + ahead)
        % SwTurn

\* A clear leaves nothing behind: although the counters let a tick go before
\* a clear, and the divider keeps its part of a tick when the stopwatch is
\* stopped, after SW_CLEAR the counters, the divider and the tick register
\* are all zero, however short the stop before it was.
ClearIsComplete ==
  [][current_state = "SW_CLEAR" =>
       /\ sw_time' = [i \in SwCounter |-> 0]
       /\ sw_count' = 0 /\ ~sw_tick']_time_vars

\* The stopwatch's divider, tick register and carry chain are one number of
\* clocks: it goes one up, or one down, on every clock of SW_RUN and stands
\* still on every other, through stops, resumes and changes of direction.
StopwatchCountsClocks ==
  [][\/ InitTime'
     \/ current_state = "SW_CLEAR"
     \/ current_state = "SW_MODE" /\ UNCHANGED stopwatch
     \/ /\ current_state # "SW_MODE"
        /\ StopwatchClocks' =
             (StopwatchClocks
               + (CASE current_state # "SW_RUN" -> 0
                    [] current_state = "SW_RUN" /\ mode_reg -> -1
                    [] OTHER -> 1)) % SwTurn]_time_vars

\* The watch loses no clock: it goes on by one on every clock outside the
\* setting states, whatever the other functions do.
WatchCountsClocks ==
  [][\/ InitTime'
     \/ Setting
     \/ WatchClocks' = (WatchClocks + 1) % WtTurn]_time_vars

\* These digits show the time of the watch, with the tick that is on its way.
ShowsTicked(digits) ==
  LET turn == WtUnits[Len(WT_TIMES) + 1]
  IN  Hundredths(digits, WtUnits) % turn
        = (Hundredths(wt_time, WtUnits) + Pending(wt_tick)) % turn

\* In a setting state time stands still, but the tick that was on its way when
\* the setting began is neither lost nor doubled: it goes through the digits
\* with all its carries, and the digit d on display takes an edit, one step
\* around its own modulus and without a carry, only if that tick does not
\* reach it.  Here x is what d would show without the edit.
SettingIsExact ==
  [][Setting =>
       \/ InitTime'
       \/ /\ UNCHANGED wt_count /\ ~wt_tick'
          /\ LET d == SetDigit[current_state]
             IN  \E x \in 0 .. WT_TIMES[d] - 1, k \in {-1, 0, 1} :
                   /\ ShowsTicked([wt_time' EXCEPT ![d] = x])
                   /\ wt_time'[d] = (x + k) % WT_TIMES[d]
                   /\ k # 0 => x = wt_time[d]]_time_vars

\* Three clocks after the switches select a function the FSM is in one of its
\* states, from every state and whichever button is held meanwhile: the detour
\* of the setting states through SW_STOP and the pulses of the other functions
\* take no longer.
SwitchTakesEffect ==
  \A sw \in Switches, btn \in Presses :
    LET Then(s) == NextState(s, sw[1], sw[2], btn)
    IN  FunctionOf(Then(Then(Then(current_state)))) = sw[1]
=============================================================================
