------------------------ MODULE TimeControllerProofs ------------------------
(***************************************************************************)
(* Proofs about the time controller, for every divider, every modulus and  *)
(* every way of pressing the buttons: the ranges of its registers, that a  *)
(* clear is complete, that setting the watch neither loses a tick nor      *)
(* repeats it and edits one digit, that the switches take effect, and that *)
(* the stopwatch and the watch, each read as one number of clocks, lose    *)
(* and repeat none.  And about the way of its commands, whatever the       *)
(* depths, widths and speeds are: the ranges of the registers, and both    *)
(* FIFOs as queues; that every character presses its button once on a line *)
(* that is slow enough, and that the PC reads what was sent back.          *)
(***************************************************************************)
EXTENDS TimeController, CommandPath, NumberLemmas, SequenceTheorems

\* The strengthening: the states that follow SW_STOP never meet a tick that
\* is still in the register.
NoTickInPulse == current_state \in {"SW_CLEAR", "SW_MODE"} => ~sw_tick

TimeInv == TimeTypeOK /\ NoTickInPulse

-----------------------------------------------------------------------------
(* The counters.                                                           *)

\* One step up or down stays below the modulus, as tick_counter_st and
\* tick_counter_wt do.
LEMMA StepInRange ==
  ASSUME NEW n \in Nat \ {0}, NEW c \in Nat, c < n
  PROVE  /\ StepUp(c, n) \in Nat /\ StepUp(c, n) < n
         /\ StepDown(c, n) \in Nat /\ StepDown(c, n) < n
  BY DEF StepUp, StepDown

\* The divider stays below F_COUNT.
LEMMA DividerInRange ==
  ASSUME NEW c \in 0 .. F_COUNT - 1
  PROVE  (c + 1) % F_COUNT \in 0 .. F_COUNT - 1
  BY TimeAssumption

\* The steps of a digit are steps around its modulus.
LEMMA StepIsModulo ==
  ASSUME NEW n \in Nat \ {0}, NEW c \in Nat, c < n
  PROVE  /\ StepUp(c, n) = (c + 1) % n
         /\ StepDown(c, n) = (c + (-1)) % n
         /\ c = (c + 0) % n
<1>1. (c + 1) % n = IF c = n - 1 THEN 0 ELSE c + 1
  <2>1. CASE c = n - 1
    <3>1. c + 1 = n
      BY <2>1
    <3>2. n % n = 0
      OBVIOUS
    <3> QED BY <2>1, <3>1, <3>2
  <2>2. CASE c # n - 1
    <3>1. c + 1 \in 0 .. n - 1
      BY <2>2
    <3> QED BY <2>2, <3>1
  <2> QED BY <2>1, <2>2
<1>2. (c + (-1)) % n = IF c = 0 THEN n - 1 ELSE c - 1
  <2>1. CASE c = 0
    <3>1. (0 + (-1)) % n = n - 1
      OBVIOUS
    <3> QED BY <2>1, <3>1
  <2>2. CASE c # 0
    <3>1. c + (-1) \in 0 .. n - 1 /\ c + (-1) = c - 1
      BY <2>2
    <3> QED BY <2>2, <3>1
  <2> QED BY <2>1, <2>2
<1>3. c = (c + 0) % n
  OBVIOUS
<1> QED BY <1>1, <1>2, <1>3 DEF StepUp, StepDown

-----------------------------------------------------------------------------
(* The control FSM.                                                        *)

\* The sets of states, listed.
LEMMA StateSets ==
  /\ SetStates = {"W_SET_S1", "W_SET_S10", "W_SET_M1", "W_SET_M10", "W_SET_HOUR"}
  /\ PulseStates = {"SW_CLEAR", "SW_MODE", "SR04_RUN_1", "SR04_RUN_2", "DHT11_RUN"}
  /\ States = {"SW_STOP", "SW_RUN", "SW_CLEAR", "SW_MODE", "W_RUN",
               "W_SET_S1", "W_SET_S10", "W_SET_M1", "W_SET_M10", "W_SET_HOUR",
               "SR04_STOP", "SR04_RUN_1", "SR04_RUN_2", "DHT11_STOP", "DHT11_RUN"}
<1>1. SetStates = {"W_SET_S1", "W_SET_S10", "W_SET_M1", "W_SET_M10", "W_SET_HOUR"}
  BY DEF SetStates, SetDigit
<1>2. PulseStates = {"SW_CLEAR", "SW_MODE", "SR04_RUN_1", "SR04_RUN_2", "DHT11_RUN"}
  BY DEF PulseStates, AfterPulse
<1>3. {Home[f] : f \in Functions} = {"SW_STOP", "W_RUN", "SR04_STOP", "DHT11_STOP"}
  BY DEF Home, Functions
<1> QED BY <1>1, <1>2, <1>3 DEF States

\* After a pulse the FSM is back in the state that its button was pressed in.
LEMMA PulsesEnd ==
  /\ AfterPulse["SW_CLEAR"] = "SW_STOP" /\ AfterPulse["SW_MODE"] = "SW_STOP"
  /\ AfterPulse["SR04_RUN_1"] = "SR04_RUN_2"
  /\ AfterPulse["SR04_RUN_2"] = "SR04_STOP"
  /\ AfterPulse["DHT11_RUN"] = "DHT11_STOP"
BY DEF AfterPulse

\* Each function rests in a state of its own.
LEMMA HomeIsOfFunction ==
  \A f \in Functions :
    /\ Home[f] \in States \ (PulseStates \cup SetStates)
    /\ Home[f] \notin {"SW_CLEAR", "SW_MODE", "SW_RUN"}
    /\ FunctionOf(Home[f]) = f
<1>1. /\ Home["stopwatch"] = "SW_STOP" /\ Home["watch"] = "W_RUN"
      /\ Home["sr04"] = "SR04_STOP" /\ Home["dht11"] = "DHT11_STOP"
  BY DEF Home
<1>2. ASSUME NEW f \in Functions
      PROVE  /\ Home[f] \in States \ (PulseStates \cup SetStates)
             /\ Home[f] \notin {"SW_CLEAR", "SW_MODE", "SW_RUN"}
             /\ FunctionOf(Home[f]) = f
  BY <1>1, StateSets DEF Functions, FunctionOf
<1> QED BY <1>2

\* The setting states form a ring of five.
LEMMA RingOfDigits ==
  \A s \in SetStates : LeftOf[s] \in SetStates /\ RightOf[s] \in SetStates
<1>1. ASSUME NEW s \in SetStates PROVE LeftOf[s] \in SetStates
  BY StateSets DEF LeftOf
<1>2. ASSUME NEW s \in SetStates PROVE RightOf[s] \in SetStates
  BY StateSets DEF RightOf
<1> QED BY <1>1, <1>2

\* A button leads to a state of the function that is selected.
LEMMA ButtonKeepsFunction ==
  ASSUME NEW s \in States, NEW set \in BOOLEAN, NEW btn \in SUBSET Buttons
  PROVE  /\ OnButton(s, set, btn) \in States
         /\ FunctionOf(OnButton(s, set, btn)) = FunctionOf(s)
<1>1. CASE s \in SetStates
  <2>1. LeftOf[s] \in SetStates /\ RightOf[s] \in SetStates
    BY <1>1, RingOfDigits
  <2>2. s \notin {"SW_STOP", "SW_RUN", "W_RUN", "SR04_STOP", "DHT11_STOP"}
    BY <1>1, StateSets
  <2>3. OnButton(s, set, btn) \in {"W_RUN", LeftOf[s], RightOf[s], s}
    BY <1>1, <2>2 DEF OnButton
  <2>4. OnButton(s, set, btn) \in SetStates \cup {"W_RUN"}
    BY <1>1, <2>1, <2>3
  <2>5. ASSUME NEW t \in SetStates \cup {"W_RUN"}
        PROVE  t \in States /\ FunctionOf(t) = "watch"
    BY StateSets DEF FunctionOf
  <2> QED BY <1>1, <2>4, <2>5
<1>2. CASE s = "SW_STOP"
  <2>1. OnButton(s, set, btn) \in {"SW_STOP", "SW_RUN", "SW_CLEAR", "SW_MODE"}
    BY <1>2, StateSets DEF OnButton
  <2> QED BY <2>1, <1>2, StateSets DEF FunctionOf
<1>3. CASE s \in {"SW_RUN", "W_RUN", "SR04_STOP", "DHT11_STOP"}
  <2>1. \/ s = "SW_RUN" /\ OnButton(s, set, btn) \in {"SW_RUN", "SW_STOP"}
        \/ s = "W_RUN" /\ OnButton(s, set, btn) \in {"W_RUN", "W_SET_S1"}
        \/ s = "SR04_STOP" /\ OnButton(s, set, btn) \in {"SR04_STOP", "SR04_RUN_1"}
        \/ s = "DHT11_STOP" /\ OnButton(s, set, btn) \in {"DHT11_STOP", "DHT11_RUN"}
    BY <1>3, StateSets DEF OnButton
  <2> QED BY <2>1, StateSets DEF FunctionOf
<1>4. CASE s \in PulseStates
  <2>1. OnButton(s, set, btn) = s
    BY <1>4, StateSets DEF OnButton
  <2> QED BY <2>1
<1> QED BY <1>1, <1>2, <1>3, <1>4, StateSets

\* The next state is one of the FSM's states.
LEMMA NextStateTyped ==
  ASSUME NEW s \in States, NEW f \in Functions, NEW set \in BOOLEAN,
         NEW btn \in SUBSET Buttons
  PROVE  NextState(s, f, set, btn) \in States
<1>1. s \in PulseStates => AfterPulse[s] \in States
  BY StateSets, PulsesEnd
<1>2. Home[f] \in States /\ "SW_STOP" \in States
  BY HomeIsOfFunction, StateSets
<1>3. OnButton(s, set, btn) \in States
  BY ButtonKeepsFunction
<1> QED BY <1>1, <1>2, <1>3 DEF NextState

\* A state that looks at the switches goes to the selected function at once,
\* a setting state by way of SW_STOP.
LEMMA OneStepTowards ==
  ASSUME NEW s \in States \ PulseStates, NEW f \in Functions,
         NEW set \in BOOLEAN, NEW btn \in SUBSET Buttons
  PROVE  /\ s \notin SetStates => FunctionOf(NextState(s, f, set, btn)) = f
         /\ s \in SetStates /\ f = "watch" =>
              FunctionOf(NextState(s, f, set, btn)) = f
         /\ s \in SetStates /\ f # "watch" => NextState(s, f, set, btn) = "SW_STOP"
<1>1. FunctionOf(OnButton(s, set, btn)) = FunctionOf(s)
  BY ButtonKeepsFunction
<1>2. FunctionOf(Home[f]) = f
  BY HomeIsOfFunction
<1>3. s \in SetStates => FunctionOf(s) = "watch"
  BY StateSets DEF FunctionOf
<1> QED BY <1>1, <1>2, <1>3 DEF NextState

\* Once there, the function stays, through its pulses too.
LEMMA FunctionStays ==
  ASSUME NEW s \in States, NEW f \in Functions, NEW set \in BOOLEAN,
         NEW btn \in SUBSET Buttons, FunctionOf(s) = f
  PROVE  FunctionOf(NextState(s, f, set, btn)) = f
<1>1. CASE s \in PulseStates
  <2>1. FunctionOf(AfterPulse[s]) = FunctionOf(s)
    <3>1. CASE s \in {"SW_CLEAR", "SW_MODE"}
      BY <3>1, StateSets, PulsesEnd DEF FunctionOf
    <3>2. CASE s = "SR04_RUN_1"
      BY <3>2, StateSets, PulsesEnd DEF FunctionOf
    <3>3. CASE s = "SR04_RUN_2"
      BY <3>3, StateSets, PulsesEnd DEF FunctionOf
    <3>4. CASE s = "DHT11_RUN"
      BY <3>4, StateSets, PulsesEnd DEF FunctionOf
    <3> QED BY <1>1, StateSets, <3>1, <3>2, <3>3, <3>4
  <2>2. s \notin SetStates
    BY <1>1, StateSets
  <2>3. NextState(s, f, set, btn) = AfterPulse[s]
    BY <1>1, <2>2 DEF NextState
  <2> QED BY <2>1, <2>3
<1>2. CASE s \notin PulseStates
  <2>1. s \in SetStates => f = "watch"
    BY StateSets DEF FunctionOf
  <2> QED BY <1>2, <2>1, OneStepTowards
<1> QED BY <1>1, <1>2

-----------------------------------------------------------------------------
(* The invariant.                                                          *)

\* Every register starts in its range.
LEMMA InitTimeInv == InitTime => TimeInv
<1> SUFFICES ASSUME InitTime PROVE TimeInv
  OBVIOUS
<1>1. "SW_STOP" \in States
  BY StateSets
<1>2. \A i \in SwCounter : SW_TIMES[i] \in Nat \ {0}
  BY TimeAssumption DEF SwCounter
<1>3. \A i \in WtCounter : WT_TIMES[i] \in Nat \ {0}
  BY TimeAssumption
<1>4. sw_time \in [SwCounter -> Nat] /\ \A i \in SwCounter : sw_time[i] < SW_TIMES[i]
  BY <1>2 DEF InitTime
<1>5. wt_time \in [WtCounter -> Nat] /\ \A i \in WtCounter : wt_time[i] < WT_TIMES[i]
  BY <1>3 DEF InitTime
<1>6. 0 \in 0 .. F_COUNT - 1
  BY TimeAssumption
<1>7. NoTickInPulse
  BY DEF InitTime, NoTickInPulse
<1> QED BY <1>1, <1>4, <1>5, <1>6, <1>7 DEF TimeInv, TimeTypeOK, InitTime

\* The counters of the stopwatch keep their ranges.
LEMMA StopwatchInRange ==
  ASSUME TimeTypeOK, Stopwatch
  PROVE  /\ sw_time' \in [SwCounter -> Nat]
         /\ \A i \in SwCounter : sw_time'[i] < SW_TIMES[i]
         /\ sw_count' \in 0 .. F_COUNT - 1 /\ sw_tick' \in BOOLEAN
<1>1. ASSUME NEW i \in SwCounter
      PROVE  SwNext(i) \in Nat /\ SwNext(i) < SW_TIMES[i]
  <2>1. /\ SW_TIMES[i] \in Nat \ {0} /\ sw_time[i] \in Nat
        /\ sw_time[i] < SW_TIMES[i] /\ mode_reg \in BOOLEAN
    <3>1. SW_TIMES[i] \in Nat \ {0}
      BY TimeAssumption DEF SwCounter
    <3> QED BY <3>1 DEF TimeTypeOK
  <2>2. /\ StepUp(sw_time[i], SW_TIMES[i]) \in Nat
        /\ StepUp(sw_time[i], SW_TIMES[i]) < SW_TIMES[i]
        /\ StepDown(sw_time[i], SW_TIMES[i]) \in Nat
        /\ StepDown(sw_time[i], SW_TIMES[i]) < SW_TIMES[i]
    BY <2>1, StepInRange
  <2>3. 0 < SW_TIMES[i]
    BY <2>1
  <2>4. CASE SwTicks(i) /\ mode_reg
    BY <2>2, <2>4 DEF SwNext
  <2>5. CASE SwTicks(i) /\ ~mode_reg
    BY <2>2, <2>5 DEF SwNext
  <2>6. CASE ~SwTicks(i)
    BY <2>1, <2>3, <2>6 DEF SwNext
  <2> QED BY <2>4, <2>5, <2>6
<1>2. sw_time' = [i \in SwCounter |-> SwNext(i)]
  BY DEF Stopwatch
<1>3. sw_count' \in 0 .. F_COUNT - 1 /\ sw_tick' \in BOOLEAN
  <2>1. sw_count \in 0 .. F_COUNT - 1
    BY DEF TimeTypeOK
  <2>2. (sw_count + 1) % F_COUNT \in 0 .. F_COUNT - 1 /\ 0 \in 0 .. F_COUNT - 1
    BY <2>1, DividerInRange, TimeAssumption
  <2> QED BY <2>1, <2>2 DEF Stopwatch
<1> QED BY <1>1, <1>2, <1>3

\* The digits of the watch keep theirs.
LEMMA WatchInRange ==
  ASSUME TimeTypeOK, NEW btn \in SUBSET Buttons, Watch(btn)
  PROVE  /\ wt_time' \in [WtCounter -> Nat]
         /\ \A i \in WtCounter : wt_time'[i] < WT_TIMES[i]
         /\ wt_count' \in 0 .. F_COUNT - 1 /\ wt_tick' \in BOOLEAN
<1>1. ASSUME NEW i \in WtCounter
      PROVE  WtNext(i, btn) \in Nat /\ WtNext(i, btn) < WT_TIMES[i]
  <2>1. /\ WT_TIMES[i] \in Nat \ {0} /\ wt_time[i] \in Nat
        /\ wt_time[i] < WT_TIMES[i]
    BY TimeAssumption DEF TimeTypeOK
  <2>2. /\ StepUp(wt_time[i], WT_TIMES[i]) \in Nat
        /\ StepUp(wt_time[i], WT_TIMES[i]) < WT_TIMES[i]
        /\ StepDown(wt_time[i], WT_TIMES[i]) \in Nat
        /\ StepDown(wt_time[i], WT_TIMES[i]) < WT_TIMES[i]
    BY <2>1, StepInRange
  <2>3. WtNext(i, btn) \in {StepUp(wt_time[i], WT_TIMES[i]),
                            StepDown(wt_time[i], WT_TIMES[i]), wt_time[i]}
    BY DEF WtNext
  <2> QED BY <2>1, <2>2, <2>3
<1>2. wt_time' = [i \in WtCounter |-> WtNext(i, btn)]
  BY DEF Watch
<1>3. wt_count' \in 0 .. F_COUNT - 1 /\ wt_tick' \in BOOLEAN
  <2>1. wt_count \in 0 .. F_COUNT - 1
    BY DEF TimeTypeOK
  <2>2. (wt_count + 1) % F_COUNT \in 0 .. F_COUNT - 1
    BY <2>1, DividerInRange
  <2> QED BY <2>1, <2>2 DEF Watch
<1> QED BY <1>1, <1>2, <1>3

\* SW_CLEAR and SW_MODE are entered from SW_STOP alone, whose clock leaves
\* no tick in the register.
LEMMA PulsesFollowStop ==
  ASSUME TimeTypeOK, NEW f \in Functions, NEW set \in BOOLEAN,
         NEW btn \in SUBSET Buttons, Control(f, set, btn), Stopwatch
  PROVE  NoTickInPulse'
<1> SUFFICES ASSUME current_state' \in {"SW_CLEAR", "SW_MODE"} PROVE ~sw_tick'
  BY DEF NoTickInPulse
<1>1. current_state' = NextState(current_state, f, set, btn)
  BY DEF Control
<1>2. current_state \in States
  BY DEF TimeTypeOK
<1>3. current_state \notin PulseStates
  BY <1>1, <1>2, StateSets, PulsesEnd DEF NextState
<1>4. current_state' = OnButton(current_state, set, btn)
  BY <1>1, <1>3, HomeIsOfFunction DEF NextState
<1>5. current_state \notin SetStates
  BY <1>4, RingOfDigits, StateSets DEF OnButton
<1>6. current_state # "SW_RUN"
  BY <1>4, StateSets DEF OnButton
<1>7. current_state # "SW_CLEAR"
  BY <1>3, StateSets
<1> QED BY <1>6, <1>7 DEF Stopwatch

\* A setting of the switches is a function and the setting switch.
LEMMA SwitchesTyped ==
  \A sw \in Switches : sw[1] \in Functions /\ sw[2] \in BOOLEAN
<1> SUFFICES ASSUME NEW sw \in Switches
             PROVE  sw[1] \in Functions /\ sw[2] \in BOOLEAN
  OBVIOUS
<1>1. CASE sw = <<"watch", TRUE>>
  BY <1>1 DEF Functions
<1>2. CASE \E f \in Functions : sw = <<f, FALSE>>
  BY <1>2
<1> QED BY <1>1, <1>2 DEF Switches

\* Every clock, and a reset, keeps the invariant.
LEMMA TimeInvStep == TimeInv /\ [NextTime]_time_vars => TimeInv'
<1> SUFFICES ASSUME TimeInv, [NextTime]_time_vars PROVE TimeInv'
  OBVIOUS
<1> USE DEF TimeInv
<1>1. CASE ResetTime
  <2>1. InitTime'
    BY <1>1 DEF ResetTime, InitTime
  <2>2. \A i \in SwCounter : SW_TIMES[i] \in Nat \ {0}
    BY TimeAssumption DEF SwCounter
  <2>3. \A i \in WtCounter : WT_TIMES[i] \in Nat \ {0}
    BY TimeAssumption
  <2>4. /\ sw_time' \in [SwCounter -> Nat] /\ wt_time' \in [WtCounter -> Nat]
        /\ \A i \in SwCounter : sw_time'[i] < SW_TIMES[i]
        /\ \A i \in WtCounter : wt_time'[i] < WT_TIMES[i]
    BY <1>1, <2>2, <2>3 DEF ResetTime
  <2>5. current_state' \in States /\ 0 \in 0 .. F_COUNT - 1
    BY <1>1, StateSets, TimeAssumption DEF ResetTime
  <2>6. NoTickInPulse'
    BY <1>1 DEF ResetTime, NoTickInPulse
  <2> QED BY <1>1, <2>4, <2>5, <2>6 DEF ResetTime, TimeTypeOK
<1>2. ASSUME NEW f \in Functions, NEW set \in BOOLEAN, NEW btn \in Presses,
             Clock(f, set, btn)
      PROVE  TimeInv'
  <2>1. btn \in SUBSET Buttons
    BY TimeAssumption
  <2>2. Control(f, set, btn) /\ Stopwatch /\ Watch(btn)
    BY <1>2 DEF Clock
  <2>3. current_state \in States /\ mode_reg \in BOOLEAN
    BY DEF TimeTypeOK
  <2>4. current_state' \in States /\ mode_reg' \in BOOLEAN
    BY <2>1, <2>2, <2>3, NextStateTyped DEF Control
  <2>5. /\ sw_time' \in [SwCounter -> Nat]
        /\ \A i \in SwCounter : sw_time'[i] < SW_TIMES[i]
        /\ sw_count' \in 0 .. F_COUNT - 1 /\ sw_tick' \in BOOLEAN
    BY <2>2, StopwatchInRange
  <2>6. /\ wt_time' \in [WtCounter -> Nat]
        /\ \A i \in WtCounter : wt_time'[i] < WT_TIMES[i]
        /\ wt_count' \in 0 .. F_COUNT - 1 /\ wt_tick' \in BOOLEAN
    BY <2>1, <2>2, WatchInRange
  <2>7. NoTickInPulse'
    BY <2>1, <2>2, PulsesFollowStop
  <2> QED BY <2>4, <2>5, <2>6, <2>7 DEF TimeTypeOK
<1>3. CASE UNCHANGED time_vars
  BY <1>3 DEF time_vars, stopwatch, watch, TimeTypeOK, NoTickInPulse
<1> QED BY <1>1, <1>2, <1>3, SwitchesTyped DEF NextTime

\* The registers' ranges, and that no pulse state is entered with a tick on its
\* way, hold in every run.
THEOREM TimeInvariant == SpecTime => []TimeInv
<1>1. InitTime => TimeInv
  BY InitTimeInv
<1>2. TimeInv /\ [NextTime]_time_vars => TimeInv'
  BY TimeInvStep
<1> QED BY <1>1, <1>2, PTL DEF SpecTime

\* Every register keeps its range: no counter leaves its modulus, whatever
\* mix of ticks, edits, clears and resets reaches it.
THEOREM TimeTypeCorrect == SpecTime => []TimeTypeOK
<1>1. TimeInv => TimeTypeOK
  BY DEF TimeInv
<1> QED BY <1>1, TimeInvariant, PTL

-----------------------------------------------------------------------------
(* The properties.                                                         *)

\* Nothing survives a clear, because no tick can meet it.
THEOREM ClearAlwaysComplete == SpecTime => ClearIsComplete
<1> DEFINE Cleared == current_state = "SW_CLEAR" =>
                        /\ sw_time' = [i \in SwCounter |-> 0]
                        /\ sw_count' = 0 /\ ~sw_tick'
<1>1. TimeInv /\ [NextTime]_time_vars => [Cleared]_time_vars
  <2> SUFFICES ASSUME TimeInv, NextTime, current_state = "SW_CLEAR"
               PROVE  /\ sw_time' = [i \in SwCounter |-> 0]
                      /\ sw_count' = 0 /\ ~sw_tick'
    OBVIOUS
  <2>1. ~sw_tick
    BY DEF TimeInv, NoTickInPulse
  <2>2. \A i \in SwCounter : SwNext(i) = 0
    BY <2>1 DEF SwNext, SwTicks
  <2>3. CASE ResetTime
    BY <2>3 DEF ResetTime
  <2>4. CASE Stopwatch
    BY <2>2, <2>4 DEF Stopwatch
  <2> QED BY <2>3, <2>4 DEF NextTime, Clock
<1> QED BY <1>1, TimeInvariant, PTL DEF SpecTime, ClearIsComplete

\* Three clocks are enough from every state.
THEOREM SwitchAlwaysTakesEffect == SpecTime => []SwitchTakesEffect
<1>1. TimeInv => SwitchTakesEffect
  <2> SUFFICES ASSUME TimeInv, NEW sw \in Switches, NEW btn \in Presses
               PROVE  LET Then(s) == NextState(s, sw[1], sw[2], btn)
                      IN  FunctionOf(Then(Then(Then(current_state)))) = sw[1]
    BY DEF SwitchTakesEffect
  <2> DEFINE f == sw[1]
             Then(s) == NextState(s, f, sw[2], btn)
  <2>1. f \in Functions /\ sw[2] \in BOOLEAN /\ btn \in SUBSET Buttons
    BY SwitchesTyped, TimeAssumption
  <2>2. current_state \in States
    BY DEF TimeInv, TimeTypeOK
  <2>3. \A s \in States : Then(s) \in States
    BY <2>1, NextStateTyped
  <2>4. \A s \in States : FunctionOf(s) = f => FunctionOf(Then(s)) = f
    BY <2>1, FunctionStays
  <2>5. \A s \in States \ (PulseStates \cup SetStates) : FunctionOf(Then(s)) = f
    BY <2>1, OneStepTowards
  <2>6. \A s \in SetStates : FunctionOf(Then(Then(s))) = f
    <3> SUFFICES ASSUME NEW s \in SetStates PROVE FunctionOf(Then(Then(s))) = f
      OBVIOUS
    <3>1. s \in States \ PulseStates /\ "SW_STOP" \in States \ (PulseStates \cup SetStates)
      BY StateSets
    <3>2. CASE f = "watch"
      <4>1. FunctionOf(Then(s)) = f
        BY <2>1, <3>1, <3>2, OneStepTowards
      <4> QED BY <2>3, <2>4, <3>1, <4>1
    <3>3. CASE f # "watch"
      <4>1. Then(s) = "SW_STOP"
        BY <2>1, <3>1, <3>3, OneStepTowards
      <4> QED BY <2>5, <3>1, <4>1
    <3> QED BY <3>2, <3>3
  <2>7. \A s \in PulseStates : Then(s) \notin SetStates
    <3> SUFFICES ASSUME NEW s \in PulseStates PROVE Then(s) \notin SetStates
      OBVIOUS
    <3>1. Then(s) = AfterPulse[s]
      BY StateSets DEF NextState
    <3> QED BY <3>1, PulsesEnd, StateSets
  <2>8. \A s \in PulseStates : Then(s) \in PulseStates => Then(Then(s)) \notin PulseStates
    <3> SUFFICES ASSUME NEW s \in PulseStates, Then(s) \in PulseStates
                 PROVE  Then(Then(s)) \notin PulseStates
      OBVIOUS
    <3>1. \A t \in PulseStates : Then(t) = AfterPulse[t]
      BY StateSets DEF NextState
    <3>2. Then(s) = AfterPulse[s] /\ Then(Then(s)) = AfterPulse[Then(s)]
      BY <3>1
    <3>3. s = "SR04_RUN_1" /\ Then(s) = "SR04_RUN_2"
      BY <3>2, PulsesEnd, StateSets
    <3> QED BY <3>2, <3>3, PulsesEnd, StateSets
  <2>9. CASE current_state \notin PulseStates \cup SetStates
    BY <2>2, <2>3, <2>4, <2>5, <2>9
  <2>10. CASE current_state \in SetStates
    BY <2>2, <2>3, <2>4, <2>6, <2>10
  <2>11. CASE current_state \in PulseStates
    <3>1. Then(current_state) \in States /\ Then(Then(current_state)) \in States
      BY <2>2, <2>3
    <3>2. CASE Then(current_state) \notin PulseStates
      <4>1. FunctionOf(Then(Then(current_state))) = f
        BY <2>5, <2>7, <2>11, <3>1, <3>2
      <4> QED BY <2>4, <3>1, <4>1
    <3>3. CASE Then(current_state) \in PulseStates
      <4>1. Then(Then(current_state)) \notin PulseStates \cup SetStates
        BY <2>7, <2>8, <2>11, <3>3
      <4> QED BY <2>5, <3>1, <4>1
    <3> QED BY <3>2, <3>3
  <2> QED BY <2>9, <2>10, <2>11
<1> QED BY <1>1, TimeInvariant, PTL

-----------------------------------------------------------------------------
(* The number that counters show.                                          *)

\* The units are the products of the moduli below.
LEMMA UnitsAre ==
  ASSUME NEW times \in Seq(Nat \ {0})
  PROVE  /\ Units(times)[1] = 1
         /\ \A i \in 1 .. Len(times) : Units(times)[i + 1] = Units(times)[i] * times[i]
         /\ \A i \in 1 .. Len(times) + 1 : Units(times)[i] \in Nat \ {0}
<1> DEFINE L == Len(times)
           Is(u) == u = [i \in 1 .. L + 1 |-> IF i = 1 THEN 1 ELSE u[i - 1] * times[i - 1]]
           U == CHOOSE u : Is(u)
<1>1. L \in Nat /\ \A i \in 1 .. L : times[i] \in Nat \ {0}
  OBVIOUS
<1>2. \E u : Is(u)
  <2> DEFINE G == [p \in Int \X (1 .. L) |-> p[1] * times[p[2]]]
  <2>1. G \in [Int \X (1 .. L) -> Int]
    <3>1. \A p \in Int \X (1 .. L) : p[1] * times[p[2]] \in Int
      BY <1>1
    <3> QED
      BY <3>1
  <2> HIDE DEF L
  <2>2. PICK f \in [0 .. L -> Int] : f[0] = 1 /\ \A i \in 1 .. L : f[i] = G[<<f[i - 1], i>>]
    <3>1. L \in Nat /\ 1 \in Int
      BY <1>1
    <3> HIDE DEF G
    <3> QED
      BY <2>1, <3>1, RecursionExists, Zenon
  <2>3. ASSUME NEW i \in 1 .. L PROVE f[i] = f[i - 1] * times[i]
    <3>1. <<f[i - 1], i>> \in Int \X (1 .. L)
      BY <1>1
    <3>2. G[<<f[i - 1], i>>] = f[i - 1] * times[i]
      BY <3>1
    <3> QED
      BY <2>2, <3>2, Zenon
  <2> DEFINE u == [i \in 1 .. L + 1 |-> f[i - 1]]
  <2>4. ASSUME NEW i \in 1 .. L + 1
        PROVE  u[i] = IF i = 1 THEN 1 ELSE u[i - 1] * times[i - 1]
    <3>1. CASE i = 1
      BY <1>1, <2>2, <3>1
    <3>2. CASE i # 1
      <4>1. i - 1 \in 1 .. L /\ u[i] = f[i - 1] /\ u[i - 1] = f[(i - 1) - 1]
        BY <1>1, <3>2
      <4> HIDE DEF u
      <4> QED
        BY <2>3, <3>2, <4>1, Zenon
    <3> QED
      BY <3>1, <3>2
  <2>5. Is(u)
    <3> DEFINE rhs == [i \in 1 .. L + 1 |-> IF i = 1 THEN 1 ELSE u[i - 1] * times[i - 1]]
    <3>1. u = [i \in 1 .. L + 1 |-> u[i]]
      OBVIOUS
    <3> HIDE DEF u
    <3> QED
      BY <2>4, <3>1
  <2> HIDE DEF Is
  <2> QED
    BY <2>5
<1>3. Is(U)
  <2> HIDE DEF Is
  <2> QED
    BY <1>2
<1>4. Units(times) = U
  BY DEF Units
<1> HIDE DEF U, L
<1>5. U[1] = 1 /\ \A i \in 1 .. L : U[i + 1] = U[i] * times[i]
  <2>1. U[1] = 1
    BY <1>1, <1>3
  <2>2. ASSUME NEW i \in 1 .. L PROVE U[i + 1] = U[i] * times[i]
    <3>1. i + 1 \in 1 .. L + 1 /\ i + 1 # 1 /\ (i + 1) - 1 = i
      BY <1>1
    <3>2. U[i + 1] = U[(i + 1) - 1] * times[(i + 1) - 1]
      BY <1>3, <3>1
    <3> QED
      BY <3>1, <3>2
  <2> QED
    BY <2>1, <2>2
<1> DEFINE X == {n \in Nat : n + 1 <= L + 1 => U[n + 1] \in Nat \ {0}}
<1>6. 0 \in X
  BY <1>5
<1>7. ASSUME NEW n \in Nat, n \in X PROVE n + 1 \in X
  <2> SUFFICES ASSUME n + 1 <= L PROVE U[(n + 1) + 1] \in Nat \ {0}
    BY <1>1
  <2>1. n + 1 \in 1 .. L /\ U[n + 1] \in Nat \ {0} /\ times[n + 1] \in Nat \ {0}
    BY <1>1, <1>7
  <2>2. U[(n + 1) + 1] = U[n + 1] * times[n + 1]
    BY <1>5, <2>1
  <2> DEFINE b == U[n + 1]
             c == times[n + 1]
  <2>3. b * c \in Nat \ {0}
    <3> HIDE DEF b, c
    <3>1. b \in Nat \ {0} /\ c \in Nat \ {0}
      BY <2>1 DEF b, c
    <3> QED
      BY <3>1
  <2> QED
    BY <2>2, <2>3
<1>8. Nat \subseteq X
  <2> HIDE DEF X
  <2> QED
    BY <1>6, <1>7, NumbersFromZero
<1>9. ASSUME NEW i \in 1 .. L + 1 PROVE U[i] \in Nat \ {0}
  <2>1. i - 1 \in Nat /\ (i - 1) + 1 = i /\ (i - 1) + 1 <= L + 1
    BY <1>1
  <2>2. i - 1 \in X
    BY <1>8, <2>1, Zenon
  <2> QED
    BY <2>1, <2>2
<1> QED
  BY <1>4, <1>5, <1>9 DEF L

\* The sums of the counters, the lowest first.
PartialSums(s, L, time, units) ==
  /\ s \in [0 .. L -> Int]
  /\ s[0] = 0
  /\ \A i \in 1 .. L : s[i] = s[i - 1] + time[i] * units[i]

\* The number that the counters show is the last of their partial sums.
LEMMA HundredthsIs ==
  \A L \in Nat : \A time \in [1 .. L -> Nat] : \A units :
    (\A i \in 1 .. L : units[i] \in Nat) =>
      \E s : PartialSums(s, L, time, units) /\ Hundredths(time, units) = s[L]
<1> SUFFICES ASSUME NEW L \in Nat, NEW time \in [1 .. L -> Nat], NEW units,
                    \A i \in 1 .. L : units[i] \in Nat
             PROVE  \E s : PartialSums(s, L, time, units) /\ Hundredths(time, units) = s[L]
  BY Zenon
<1>1. Len(time) = L
  OBVIOUS
<1> DEFINE Is(s) == s = [i \in 0 .. Len(time) |->
                           IF i = 0 THEN 0 ELSE s[i - 1] + time[i] * units[i]]
           S == CHOOSE s : Is(s)
<1>2. Hundredths(time, units) = S[Len(time)]
  BY DEF Hundredths
<1>3. PICK f \in [0 .. L -> Int] :
        f[0] = 0 /\ \A i \in 1 .. L : f[i] = f[i - 1] + time[i] * units[i]
  <2> DEFINE G == [p \in Int \X (1 .. L) |-> p[1] + time[p[2]] * units[p[2]]]
  <2>1. G \in [Int \X (1 .. L) -> Int]
    <3>1. \A p \in Int \X (1 .. L) : p[1] + time[p[2]] * units[p[2]] \in Int
      <4> SUFFICES ASSUME NEW v \in Int, NEW i \in 1 .. L
                   PROVE  v + time[i] * units[i] \in Int
        OBVIOUS
      <4>1. time[i] \in Int /\ units[i] \in Int
        OBVIOUS
      <4>2. time[i] * units[i] \in Int
        BY <4>1
      <4> QED
        BY <4>2
    <3> QED
      BY <3>1
  <2>2. PICK f \in [0 .. L -> Int] : f[0] = 0 /\ \A i \in 1 .. L : f[i] = G[<<f[i - 1], i>>]
    <3>1. 0 \in Int
      OBVIOUS
    <3> HIDE DEF G
    <3> QED
      BY <2>1, <3>1, RecursionExists, Zenon
  <2>3. ASSUME NEW i \in 1 .. L PROVE f[i] = f[i - 1] + time[i] * units[i]
    <3>1. <<f[i - 1], i>> \in Int \X (1 .. L)
      OBVIOUS
    <3>2. G[<<f[i - 1], i>>] = f[i - 1] + time[i] * units[i]
      BY <3>1
    <3> QED
      BY <2>2, <3>2, Zenon
  <2> QED
    BY <2>2, <2>3
<1>4. Is(f)
  <2>1. ASSUME NEW i \in 0 .. L
        PROVE  f[i] = IF i = 0 THEN 0 ELSE f[i - 1] + time[i] * units[i]
    BY <1>3
  <2>2. f = [i \in 0 .. L |-> f[i]]
    OBVIOUS
  <2>3. f = [i \in 0 .. L |-> IF i = 0 THEN 0 ELSE f[i - 1] + time[i] * units[i]]
    BY <2>1, <2>2
  <2> QED
    BY <1>1, <2>3
<1>5. Is(S)
  <2> HIDE DEF Is
  <2> QED
    BY <1>4
<1> HIDE DEF S
<1> DEFINE X == {n \in Nat : n <= L => S[n] = f[n]}
<1>6. 0 \in X
  BY <1>1, <1>3, <1>5
<1>7. ASSUME NEW n \in Nat, n \in X PROVE n + 1 \in X
  <2> SUFFICES ASSUME n + 1 <= L PROVE S[n + 1] = f[n + 1]
    OBVIOUS
  <2>1. n + 1 \in 1 .. L /\ n + 1 \in 0 .. L /\ n + 1 # 0 /\ (n + 1) - 1 = n
    OBVIOUS
  <2>2. S[n + 1] = S[(n + 1) - 1] + time[n + 1] * units[n + 1]
    BY <1>1, <1>5, <2>1
  <2>3. f[n + 1] = f[(n + 1) - 1] + time[n + 1] * units[n + 1]
    BY <1>3, <2>1
  <2>4. S[n] = f[n]
    BY <1>7
  <2> QED
    BY <2>1, <2>2, <2>3, <2>4, Zenon
<1>8. L \in X
  <2> HIDE DEF X
  <2> QED
    BY <1>6, <1>7, NumbersFromZero
<1>9. Hundredths(time, units) = f[L]
  BY <1>1, <1>2, <1>8
<1>10. PartialSums(f, L, time, units)
  BY <1>3, Zenon DEF PartialSums
<1> QED
  BY <1>9, <1>10, Zenon

-----------------------------------------------------------------------------
(* Chains of counters.                                                     *)

\* A chain of L counters c, with their moduli n, and the units u of each.
IsChain(L, n, u) ==
  /\ L \in Nat
  /\ \A i \in 1 .. L : n[i] \in Nat \ {0}
  /\ \A i \in 1 .. L + 1 : u[i] \in Nat \ {0}
  /\ u[1] = 1 /\ \A i \in 1 .. L : u[i + 1] = u[i] * n[i]

InRange(L, n, t) ==
  t \in [1 .. L -> Nat] /\ \A i \in 1 .. L : t[i] < n[i]

\* The counters below i are at the end of their range.
FullBelow(i, n, t) == \A j \in 1 .. i - 1 : t[j] = n[j] - 1
EmptyBelow(i, t)   == \A j \in 1 .. i - 1 : t[j] = 0

CountsUp(L, n, t, t2) ==
  \A i \in 1 .. L :
    t2[i] = IF FullBelow(i, n, t) THEN StepUp(t[i], n[i]) ELSE t[i]
CountsDown(L, n, t, t2) ==
  \A i \in 1 .. L :
    t2[i] = IF EmptyBelow(i, t) THEN StepDown(t[i], n[i]) ELSE t[i]

\* One counter more: u is its unit and n its modulus, c is its value and a the
\* sum of those below it.  With it the sum stays below the next unit; a tick
\* that reaches it takes the sum to zero from its last value, or one up.
AddsUp(u, n, c, a) ==
  /\ a + c * u \in 0 .. u * n - 1
  /\ a = u - 1 /\ c = n - 1 =>
       a + c * u = u * n - 1 /\ 0 + StepUp(c, n) * u = 0
  /\ a = u - 1 /\ c # n - 1 =>
       0 + StepUp(c, n) * u = (a + c * u) + 1

\* Every counter of a chain adds up like this.
LEMMA ChainLink ==
  ASSUME NEW u \in Nat \ {0}, NEW n \in Nat \ {0}, NEW c \in Nat, c < n,
         NEW a \in 0 .. u - 1
  PROVE  AddsUp(u, n, c, a)
<1> DEFINE p == c * u
           q == u * n
<1>1. p \in Nat /\ q \in Nat
  OBVIOUS
<1>2. p + u <= q
  <2>1. c + 1 <= n
    OBVIOUS
  <2>2. (c + 1) * u <= n * u
    BY <2>1
  <2>3. (c + 1) * u = c * u + u
    OBVIOUS
  <2>4. n * u = u * n
    OBVIOUS
  <2> QED
    BY <2>2, <2>3, <2>4
<1>3. c = n - 1 => p + u = q /\ StepUp(c, n) * u = 0
  <2> SUFFICES ASSUME c = n - 1 PROVE p + u = q /\ StepUp(c, n) * u = 0
    OBVIOUS
  <2>1. p = (n - 1) * u
    OBVIOUS
  <2>2. (n - 1) * u = u * n - u
    OBVIOUS
  <2>3. StepUp(c, n) = 0
    BY DEF StepUp
  <2> QED
    BY <1>1, <2>1, <2>2, <2>3
<1>4. c # n - 1 => StepUp(c, n) * u = p + u
  <2> SUFFICES ASSUME c # n - 1 PROVE StepUp(c, n) * u = p + u
    OBVIOUS
  <2>1. StepUp(c, n) = c + 1
    BY DEF StepUp
  <2>2. (c + 1) * u = c * u + u
    OBVIOUS
  <2> QED
    BY <2>1, <2>2
<1> DEFINE w == StepUp(c, n) * u
<1>5. /\ c = n - 1 => p + u = q /\ w = 0
      /\ c # n - 1 => w = p + u
  BY <1>3, <1>4
<1>6. w \in Int
  BY <1>1, <1>3, <1>4
<1> HIDE DEF p, q, w
<1>7. /\ a + p \in 0 .. q - 1
      /\ a = u - 1 /\ c = n - 1 => a + p = q - 1 /\ 0 + w = 0
      /\ a = u - 1 /\ c # n - 1 => 0 + w = (a + p) + 1
  BY <1>1, <1>2, <1>5, <1>6
<1> QED
  BY <1>7, Zenon DEF AddsUp, p, q, w

\* A tick moves the number of the whole chain one up, or back to zero from
\* its last value.
LEMMA ChainUp ==
  ASSUME NEW L, NEW n, NEW u, NEW t, NEW t2, IsChain(L, n, u),
         InRange(L, n, t), t2 \in [1 .. L -> Nat], CountsUp(L, n, t, t2)
  PROVE  /\ Hundredths(t, u) \in Int /\ Hundredths(t2, u) \in Int
         /\ \/ Hundredths(t2, u) = Hundredths(t, u) + 1
            \/ Hundredths(t2, u) = (Hundredths(t, u) + 1) - u[L + 1]
<1>1. /\ L \in Nat /\ t \in [1 .. L -> Nat] /\ t2 \in [1 .. L -> Nat]
      /\ \A i \in 1 .. L : t[i] < n[i] /\ n[i] \in Nat \ {0}
  BY DEF IsChain, InRange
<1>2. /\ \A i \in 1 .. L + 1 : u[i] \in Nat \ {0}
      /\ u[1] = 1 /\ \A i \in 1 .. L : u[i + 1] = u[i] * n[i]
  BY DEF IsChain
<1>3. \A i \in 1 .. L : u[i] \in Nat
  BY <1>1, <1>2
<1>4. PICK s : PartialSums(s, L, t, u) /\ Hundredths(t, u) = s[L]
  BY <1>1, <1>3, HundredthsIs, Zenon
<1>5. PICK r : PartialSums(r, L, t2, u) /\ Hundredths(t2, u) = r[L]
  BY <1>1, <1>3, HundredthsIs, Zenon
<1> USE DEF PartialSums
<1> DEFINE Below(i) ==
             /\ s[i] \in 0 .. u[i + 1] - 1
             /\ FullBelow(i + 1, n, t) => s[i] = u[i + 1] - 1 /\ r[i] = 0
             /\ ~FullBelow(i + 1, n, t) => r[i] = s[i] + 1
           X == {i \in Nat : i <= L => Below(i)}
<1>6. 0 \in X
  <2>1. s[0] = 0 /\ r[0] = 0 /\ u[0 + 1] = 1 /\ FullBelow(0 + 1, n, t)
    BY <1>2, <1>4, <1>5 DEF FullBelow
  <2>2. Below(0)
    BY <2>1
  <2> HIDE DEF Below
  <2> QED
    BY <2>2
<1>7. ASSUME NEW i \in Nat, i \in X PROVE i + 1 \in X
  <2> SUFFICES ASSUME i + 1 <= L PROVE Below(i + 1)
    OBVIOUS
  <2> DEFINE k == i + 1
             U == u[k]
             N == n[k]
             c == t[k]
             a == s[i]
  <2>1. k \in 1 .. L /\ k - 1 = i /\ i <= L
    BY <1>1
  <2>2. Below(i)
    <3> HIDE DEF Below
    <3> QED
      BY <1>7, <2>1
  <2>3. U \in Nat \ {0} /\ N \in Nat \ {0} /\ c \in Nat /\ c < N /\ a \in 0 .. U - 1
    <3>1. k \in 1 .. L + 1 /\ i + 1 = k
      BY <1>1, <2>1
    <3>2. U \in Nat \ {0} /\ a \in 0 .. U - 1
      BY <1>2, <2>2, <3>1, Zenon
    <3>3. N \in Nat \ {0} /\ c \in Nat /\ c < N
      BY <1>1, <2>1
    <3> QED
      BY <3>2, <3>3
  <2>4. u[k + 1] = U * N
    BY <1>2, <2>1
  <2>5. s[k] = a + c * U /\ r[k] = r[i] + t2[k] * U
    <3>1. s[k] = s[k - 1] + t[k] * u[k] /\ r[k] = r[k - 1] + t2[k] * u[k]
      BY <1>4, <1>5, <2>1, Zenon
    <3> QED
      BY <2>1, <3>1, Zenon
  <2>6. t2[k] = IF FullBelow(k, n, t) THEN StepUp(c, N) ELSE c
    BY <2>1, Zenon DEF CountsUp
  <2>7. FullBelow(k + 1, n, t) <=> FullBelow(k, n, t) /\ c = N - 1
    <3>1. \A j : j \in 1 .. (k + 1) - 1 <=> j \in 1 .. k - 1 \/ j = k
      BY <2>1
    <3> HIDE DEF k
    <3> QED
      BY <3>1, Zenon DEF FullBelow
  <2>8. /\ a + c * U \in 0 .. U * N - 1
        /\ a = U - 1 /\ c = N - 1 =>
             a + c * U = U * N - 1 /\ 0 + StepUp(c, N) * U = 0
        /\ a = U - 1 /\ c # N - 1 =>
             0 + StepUp(c, N) * U = (a + c * U) + 1
    <3>1. /\ U \in Nat \ {0} /\ N \in Nat \ {0} /\ c \in Nat /\ c < N
          /\ a \in 0 .. U - 1
      BY <2>3, Zenon
    <3> HIDE DEF a, c, U, N
    <3>2. AddsUp(U, N, c, a)
      BY <3>1, ChainLink
    <3> QED
      BY <3>2, Zenon DEF AddsUp
  <2>9. /\ FullBelow(k, n, t) => a = U - 1 /\ r[i] = 0
        /\ ~FullBelow(k, n, t) => r[i] = a + 1
    BY <2>2
  <2>10. r[i] \in Int
    BY <1>1, <1>5, <2>1
  <2>11. s[k] \in 0 .. u[k + 1] - 1
    BY <2>4, <2>5, <2>8, Zenon
  <2>12. CASE FullBelow(k, n, t)
    <3>1. r[k] = 0 + StepUp(c, N) * U /\ a = U - 1
      BY <2>5, <2>6, <2>9, <2>12, Zenon
    <3>2. c = N - 1 => s[k] = u[k + 1] - 1 /\ r[k] = 0
      BY <2>4, <2>5, <2>8, <3>1, Zenon
    <3>3. c # N - 1 => r[k] = s[k] + 1
      BY <2>5, <2>8, <3>1, Zenon
    <3> HIDE DEF a, c, U, N, k
    <3> QED
      BY <2>7, <2>11, <2>12, <3>2, <3>3, Zenon DEF k
  <2>13. CASE ~FullBelow(k, n, t)
    <3>1. r[k] = (a + 1) + c * U
      BY <2>5, <2>6, <2>9, <2>13, Zenon
    <3>2. c * U \in Int
      BY <2>3
    <3>3. r[k] = s[k] + 1
      <4> DEFINE p == c * U
      <4> HIDE DEF p, a
      <4>1. r[k] = (a + 1) + p /\ s[k] = a + p /\ a \in Int /\ p \in Int
        BY <2>3, <2>5, <3>1, <3>2 DEF p
      <4> QED
        BY <4>1
    <3> QED
      BY <2>7, <2>11, <2>13, <3>3, Zenon
  <2> QED
    BY <2>12, <2>13, Zenon
<1>8. Below(L)
  <2>1. Nat \subseteq X
    <3> HIDE DEF X
    <3> QED
      BY <1>6, <1>7, NumbersFromZero
  <2>2. L \in X /\ L <= L
    BY <1>1, <2>1
  <2> HIDE DEF Below
  <2> QED
    BY <2>2
<1>9. u[L + 1] \in Nat \ {0} /\ s[L] \in Int /\ r[L] \in Int
  BY <1>1, <1>2, <1>4, <1>5
<1>10. r[L] = s[L] + 1 \/ r[L] = (s[L] + 1) - u[L + 1]
  BY <1>8, <1>9
<1> QED
  BY <1>4, <1>5, <1>9, <1>10, Zenon

\* Counting down is counting up read backwards: a counter of the chain moves
\* down where those below it stood at zero, and they have moved to their ends.
LEMMA DownIsUpBackwards ==
  ASSUME NEW L, NEW n, NEW u, NEW t, NEW t2, IsChain(L, n, u),
         InRange(L, n, t), InRange(L, n, t2), CountsDown(L, n, t, t2)
  PROVE  CountsUp(L, n, t2, t)
<1>1. /\ L \in Nat
      /\ \A i \in 1 .. L : /\ n[i] \in Nat \ {0} /\ t[i] \in Nat /\ t2[i] \in Nat
                           /\ t[i] < n[i] /\ t2[i] < n[i]
  BY DEF IsChain, InRange
<1>2. \A i \in 1 .. L :
        t2[i] = IF EmptyBelow(i, t) THEN StepDown(t[i], n[i]) ELSE t[i]
  BY DEF CountsDown
<1>3. ASSUME NEW i \in 1 .. L PROVE EmptyBelow(i, t) <=> FullBelow(i, n, t2)
  <2>1. ASSUME EmptyBelow(i, t) PROVE FullBelow(i, n, t2)
    <3> SUFFICES ASSUME NEW j \in 1 .. i - 1 PROVE t2[j] = n[j] - 1
      BY DEF FullBelow
    <3>1. j \in 1 .. L /\ t[j] = 0
      BY <1>1, <2>1 DEF EmptyBelow
    <3>2. EmptyBelow(j, t)
      <4>1. \A k \in 1 .. j - 1 : k \in 1 .. i - 1
        BY <1>1
      <4> QED
        BY <2>1, <4>1, Zenon DEF EmptyBelow
    <3> QED
      BY <1>2, <3>1, <3>2 DEF StepDown
  <2>2. ASSUME ~EmptyBelow(i, t) PROVE ~FullBelow(i, n, t2)
    <3> DEFINE Y == {j \in 1 .. i - 1 : t[j] # 0}
    <3>1. Y \subseteq Nat /\ Y # {}
      BY <1>1, <2>2 DEF EmptyBelow
    <3>2. PICK m \in Y : \A k \in Y : m <= k
      <4> HIDE DEF Y
      <4> QED
        BY <3>1, LeastNumber
    <3>3. m \in 1 .. i - 1 /\ m \in 1 .. L /\ t[m] # 0
      BY <1>1
    <3>4. EmptyBelow(m, t)
      <4> SUFFICES ASSUME NEW j \in 1 .. m - 1, t[j] # 0 PROVE FALSE
        BY DEF EmptyBelow
      <4>1. j \in 1 .. i - 1 /\ ~(m <= j)
        BY <1>1, <3>3
      <4> QED
        BY <3>2, <4>1
    <3>5. t2[m] = t[m] - 1
      BY <1>2, <3>3, <3>4 DEF StepDown
    <3>6. t2[m] # n[m] - 1
      BY <1>1, <3>3, <3>5
    <3> QED
      BY <3>3, <3>6, Zenon DEF FullBelow
  <2> QED
    BY <2>1, <2>2, Zenon
<1>4. ASSUME NEW i \in 1 .. L
      PROVE  t[i] = IF FullBelow(i, n, t2) THEN StepUp(t2[i], n[i]) ELSE t2[i]
  <2> DEFINE N == n[i]
             c == t[i]
             c2 == t2[i]
  <2>1. N \in Nat \ {0} /\ c \in Nat /\ c2 \in Nat /\ c < N /\ c2 < N
    BY <1>1
  <2>2. c2 = IF EmptyBelow(i, t) THEN StepDown(c, N) ELSE c
    BY <1>2, Zenon
  <2> HIDE DEF N, c, c2
  <2>3. StepDown(c, N) = c2 => c = StepUp(c2, N)
    BY <2>1 DEF StepDown, StepUp
  <2>4. c = IF FullBelow(i, n, t2) THEN StepUp(c2, N) ELSE c2
    BY <1>3, <2>2, <2>3, Zenon
  <2> QED
    BY <2>4 DEF N, c, c2
<1> QED
  BY <1>4, Zenon DEF CountsUp

\* A tick down moves the number of the chain one down, or from zero to its
\* last value.
LEMMA ChainDown ==
  ASSUME NEW L, NEW n, NEW u, NEW t, NEW t2, IsChain(L, n, u),
         InRange(L, n, t), InRange(L, n, t2), CountsDown(L, n, t, t2)
  PROVE  /\ Hundredths(t, u) \in Int /\ Hundredths(t2, u) \in Int
         /\ \/ Hundredths(t2, u) = Hundredths(t, u) - 1
            \/ Hundredths(t2, u) = (Hundredths(t, u) - 1) + u[L + 1]
<1>1. CountsUp(L, n, t2, t)
  BY DownIsUpBackwards
<1>2. t \in [1 .. L -> Nat]
  BY DEF InRange
<1> DEFINE h == Hundredths(t, u)
           h2 == Hundredths(t2, u)
           M == u[L + 1]
<1>3. h2 \in Int /\ h \in Int /\ (h = h2 + 1 \/ h = (h2 + 1) - M)
  BY <1>1, <1>2, ChainUp
<1>4. M \in Nat \ {0}
  BY DEF IsChain
<1> HIDE DEF h, h2, M
<1>5. h2 = h - 1 \/ h2 = (h - 1) + M
  BY <1>3, <1>4
<1> QED
  BY <1>3, <1>5 DEF h, h2, M

\* A number goes on by k, or a turn of M away from there.
GoesOnBy(k, M, h, h2) == h2 \in {h + k, (h + k) - M, (h + k) + M}

\* What a chain shows before and after a clock.
ShowsTime(L, n, u, t, t2) ==
  /\ Hundredths(t, u) \in Int /\ Hundredths(t2, u) \in Int
  /\ u[L + 1] \in Nat \ {0}
  /\ CountsUp(L, n, t, t2) =>
       GoesOnBy(1, u[L + 1], Hundredths(t, u), Hundredths(t2, u))
  /\ CountsDown(L, n, t, t2) =>
       GoesOnBy(-1, u[L + 1], Hundredths(t, u), Hundredths(t2, u))

\* The number a chain shows, and where a tick takes it.
LEMMA ChainMoves ==
  ASSUME NEW L, NEW n, NEW u, NEW t, NEW t2,
         IsChain(L, n, u), InRange(L, n, t), InRange(L, n, t2)
  PROVE  ShowsTime(L, n, u, t, t2)
<1> DEFINE M == u[L + 1]
           h == Hundredths(t, u)
           h2 == Hundredths(t2, u)
<1>1. ASSUME NEW x, InRange(L, n, x)
      PROVE  Hundredths(x, u) \in Int
  <2>1. L \in Nat /\ x \in [1 .. L -> Nat] /\ \A i \in 1 .. L : u[i] \in Nat
    <3>1. /\ L \in Nat /\ x \in [1 .. L -> Nat]
          /\ \A i \in 1 .. L + 1 : u[i] \in Nat \ {0}
      BY <1>1, Zenon DEF IsChain, InRange
    <3> QED
      BY <3>1
  <2>2. PICK s : PartialSums(s, L, x, u) /\ Hundredths(x, u) = s[L]
    BY <2>1, HundredthsIs, Zenon
  <2>3. s \in [0 .. L -> Int] /\ L \in 0 .. L
    BY <2>1, <2>2 DEF PartialSums
  <2> QED
    BY <2>2, <2>3
<1>2. h \in Int /\ h2 \in Int
  BY <1>1
<1>3. M \in Nat \ {0}
  BY DEF IsChain
<1>4. t2 \in [1 .. L -> Nat]
  BY DEF InRange
<1>5. ASSUME CountsUp(L, n, t, t2) PROVE GoesOnBy(1, M, h, h2)
  <2>1. h2 = h + 1 \/ h2 = (h + 1) - M
    BY <1>4, <1>5, ChainUp
  <2> QED
    BY <2>1, Zenon DEF GoesOnBy
<1>6. ASSUME CountsDown(L, n, t, t2) PROVE GoesOnBy(-1, M, h, h2)
  <2>1. h2 = h - 1 \/ h2 = (h - 1) + M
    BY <1>6, ChainDown
  <2> HIDE DEF h, h2, M
  <2>2. h - 1 = h + (-1)
    BY <1>2
  <2> QED
    BY <2>1, <2>2, Zenon DEF GoesOnBy
<1> QED
  BY <1>2, <1>3, <1>5, <1>6, Zenon DEF ShowsTime

\* A time of H units of F clocks and e more, of which M units are a turn.
Clocks(F, M, H, e) == (F * H + e) % (F * M)

\* What is left beside the units goes on by d clocks less k units.
RestGoesOn(F, k, d, e, e2) == e2 + F * k = e + d

\* When the units go on by k and the rest accounts for the others, the time
\* goes on by d clocks.
LEMMA ClocksGoOn ==
  ASSUME NEW F \in Nat \ {0}, NEW M \in Nat \ {0}, NEW H \in Int, NEW H2 \in Int,
         NEW e \in Int, NEW e2 \in Int, NEW k \in Int, NEW d \in Int,
         GoesOnBy(k, M, H, H2), RestGoesOn(F, k, d, e, e2)
  PROVE  Clocks(F, M, H2, e2) = (Clocks(F, M, H, e) + d) % (F * M)
<1> DEFINE T == F * M
           x == F * H + e
           x2 == F * H2 + e2
<1>1. T \in Nat \ {0} /\ F * H \in Int /\ F * H2 \in Int /\ F * k \in Int
  OBVIOUS
<1>2. x \in Int /\ x2 \in Int
  BY <1>1
<1>3. F * (H + k) = F * H + F * k
  OBVIOUS
<1>4. x2 \in {x + d, (x + d) - T, (x + d) + T}
  <2> USE DEF RestGoesOn
  <2>1. CASE H2 = H + k
    <3>1. F * H2 = F * H + F * k
      BY <1>3, <2>1
    <3> QED
      BY <1>1, <3>1
  <2>2. CASE H2 = (H + k) - M
    <3>1. F * H2 = F * (H + k) - F * M
      BY <2>2
    <3> QED
      BY <1>1, <1>3, <3>1
  <2>3. CASE H2 = (H + k) + M
    <3>1. F * H2 = F * (H + k) + F * M
      BY <2>3
    <3> QED
      BY <1>1, <1>3, <3>1
  <2> QED
    BY <2>1, <2>2, <2>3 DEF GoesOnBy
<1> HIDE DEF T, x, x2
<1>5. x + d \in Int
  BY <1>2
<1>6. x2 % T = (x + d) % T
  BY <1>1, <1>4, <1>5, TurnsDoNotShow, Zenon
<1>7. ((x % T) + d) % T = (x + d) % T
  <2>1. x \in Int /\ d \in Int
    BY <1>2
  <2>2. \A a \in Int : \A t \in Nat \ {0} : ((x % t) + a) % t = (x + a) % t
    BY <2>1, AddThenTurn, Zenon
  <2>3. \A t \in Nat \ {0} : ((x % t) + d) % t = (x + d) % t
    BY <2>1, <2>2, Zenon
  <2> QED
    BY <1>1, <2>3, Zenon
<1>8. x2 % T = ((x % T) + d) % T
  BY <1>6, <1>7, Zenon
<1> QED
  BY <1>8, Zenon DEF Clocks, T, x, x2

\* One clock of the divider: what leaves it is in the tick register.
LEMMA DividerStep ==
  ASSUME NEW c \in 0 .. F_COUNT - 1
  PROVE  F_COUNT * Pending(c = F_COUNT - 1) + ((c + 1) % F_COUNT) = c + 1
<1>1. F_COUNT \in Nat \ {0}
  BY TimeAssumption
<1>2. CASE c = F_COUNT - 1
  <2>1. c + 1 = F_COUNT /\ F_COUNT % F_COUNT = 0
    BY <1>1, <1>2
  <2>2. Pending(c = F_COUNT - 1) = 1
    BY <1>2, Zenon DEF Pending
  <2> QED
    BY <1>1, <2>1, <2>2
<1>3. CASE c # F_COUNT - 1
  <2>1. (c + 1) % F_COUNT = c + 1
    BY <1>1, <1>3
  <2>2. Pending(c = F_COUNT - 1) = 0
    BY <1>3, Zenon DEF Pending
  <2>3. F_COUNT * Pending(c = F_COUNT - 1) = F_COUNT * 0
    BY <2>2, Zenon
  <2>4. F_COUNT * 0 = 0
    BY <1>1
  <2> QED
    BY <2>1, <2>3, <2>4
<1> QED
  BY <1>2, <1>3

\* The stopwatch and the watch are chains.
LEMMA TimesAreChains ==
  /\ IsChain(Len(SW_TIMES), SW_TIMES, SwUnits)
  /\ IsChain(Len(WT_TIMES), WT_TIMES, WtUnits)
  /\ WtCounter = 1 .. Len(WT_TIMES)
<1>1. ASSUME NEW times \in Seq(Nat \ {0})
      PROVE  IsChain(Len(times), times, Units(times))
  <2>1. Len(times) \in Nat /\ \A i \in 1 .. Len(times) : times[i] \in Nat \ {0}
    OBVIOUS
  <2> QED
    BY <2>1, UnitsAre DEF IsChain
<1>2. SW_TIMES \in Seq(Nat \ {0})
  BY TimeAssumption
<1>3. WT_TIMES \in Seq(Nat \ {0}) /\ Len(WT_TIMES) = 6
  <2>1. WT_TIMES \in [1 .. 6 -> Nat \ {0}]
    BY TimeAssumption DEF WtCounter
  <2>2. Len(WT_TIMES) = 6
    BY <2>1
  <2>3. WT_TIMES \in Seq(Nat \ {0})
    <3>1. /\ WT_TIMES = [i \in 1 .. 6 |-> WT_TIMES[i]]
          /\ \A i \in 1 .. 6 : WT_TIMES[i] \in Nat \ {0}
          /\ 6 \in Nat
      BY <2>1
    <3> QED
      BY <3>1, SMT
  <2> QED
    BY <2>2, <2>3
<1> QED
  BY <1>1, <1>2, <1>3, Zenon DEF SwUnits, WtUnits, WtCounter

\* Outside the setting states the watch's digits are a chain that counts up.
LEMMA WatchCountsUp ==
  ASSUME TimeInv, NEW btn \in SUBSET Buttons, Watch(btn), ~Setting
  PROVE  /\ InRange(Len(WT_TIMES), WT_TIMES, wt_time)
         /\ InRange(Len(WT_TIMES), WT_TIMES, wt_time')
         /\ wt_tick => CountsUp(Len(WT_TIMES), WT_TIMES, wt_time, wt_time')
         /\ ~wt_tick => wt_time' = wt_time
<1>1. TimeTypeOK
  BY DEF TimeInv
<1>2. WtCounter = 1 .. Len(WT_TIMES)
  BY TimesAreChains
<1>3. InRange(Len(WT_TIMES), WT_TIMES, wt_time)
  BY <1>1, <1>2, Zenon DEF TimeTypeOK, InRange
<1>4. InRange(Len(WT_TIMES), WT_TIMES, wt_time')
  BY <1>1, <1>2, WatchInRange, Zenon DEF InRange
<1>5. \A i \in WtCounter :
        wt_time'[i] = IF WtTicks(i) THEN StepUp(wt_time[i], WT_TIMES[i]) ELSE wt_time[i]
  <2> SUFFICES ASSUME NEW i \in WtCounter
               PROVE  wt_time'[i] = IF WtTicks(i) THEN StepUp(wt_time[i], WT_TIMES[i])
                                    ELSE wt_time[i]
    BY Zenon
  <2>1. wt_time'[i] = WtNext(i, btn)
    BY Zenon DEF Watch
  <2>2. ~Edited(i)
    BY Zenon DEF Edited
  <2> QED
    BY <2>1, <2>2 DEF WtNext
<1>6. ASSUME wt_tick PROVE CountsUp(Len(WT_TIMES), WT_TIMES, wt_time, wt_time')
  BY <1>2, <1>5, <1>6, Zenon DEF CountsUp, FullBelow, WtTicks, WtCarry
<1>7. ASSUME ~wt_tick PROVE wt_time' = wt_time
  <2>1. \A i \in WtCounter : wt_time'[i] = wt_time[i]
    BY <1>5, <1>7, Zenon DEF WtTicks
  <2>2. wt_time \in [WtCounter -> Nat] /\ wt_time' \in [WtCounter -> Nat]
    BY <1>1, WatchInRange DEF TimeTypeOK
  <2> QED
    BY <2>1, <2>2
<1> QED
  BY <1>3, <1>4, <1>6, <1>7, Zenon

\* The stopwatch's counters are a chain that counts in the direction of
\* mode_reg, except that a clear empties it.
LEMMA StopwatchCounts ==
  ASSUME TimeInv, Stopwatch, current_state # "SW_CLEAR"
  PROVE  /\ InRange(Len(SW_TIMES), SW_TIMES, sw_time)
         /\ InRange(Len(SW_TIMES), SW_TIMES, sw_time')
         /\ sw_tick /\ ~mode_reg => CountsUp(Len(SW_TIMES), SW_TIMES, sw_time, sw_time')
         /\ sw_tick /\ mode_reg => CountsDown(Len(SW_TIMES), SW_TIMES, sw_time, sw_time')
         /\ ~sw_tick => sw_time' = sw_time
<1>1. TimeTypeOK
  BY DEF TimeInv
<1>2. InRange(Len(SW_TIMES), SW_TIMES, sw_time)
  BY <1>1, Zenon DEF TimeTypeOK, InRange, SwCounter
<1>3. InRange(Len(SW_TIMES), SW_TIMES, sw_time')
  BY <1>1, StopwatchInRange, Zenon DEF InRange, SwCounter
<1>4. ASSUME NEW i \in SwCounter
      PROVE  /\ SwTicks(i) /\ mode_reg => sw_time'[i] = StepDown(sw_time[i], SW_TIMES[i])
             /\ SwTicks(i) /\ ~mode_reg => sw_time'[i] = StepUp(sw_time[i], SW_TIMES[i])
             /\ ~SwTicks(i) => sw_time'[i] = sw_time[i]
  <2>1. sw_time'[i] = SwNext(i)
    BY Zenon DEF Stopwatch
  <2>2. mode_reg \in BOOLEAN
    BY <1>1 DEF TimeTypeOK
  <2>3. CASE SwTicks(i) /\ mode_reg
    BY <2>1, <2>3 DEF SwNext
  <2>4. CASE SwTicks(i) /\ ~mode_reg
    BY <2>1, <2>4 DEF SwNext
  <2>5. CASE ~SwTicks(i)
    BY <2>1, <2>5 DEF SwNext
  <2> QED
    BY <2>3, <2>4, <2>5, Zenon
<1>5. ASSUME sw_tick, ~mode_reg
      PROVE  CountsUp(Len(SW_TIMES), SW_TIMES, sw_time, sw_time')
  <2>1. \A i : SwTicks(i) <=> FullBelow(i, SW_TIMES, sw_time)
    BY <1>5, Zenon DEF SwTicks, SwCarry, FullBelow
  <2> QED
    BY <1>4, <1>5, <2>1, Zenon DEF CountsUp, SwCounter
<1>6. ASSUME sw_tick, mode_reg
      PROVE  CountsDown(Len(SW_TIMES), SW_TIMES, sw_time, sw_time')
  <2>1. \A i : SwTicks(i) <=> EmptyBelow(i, sw_time)
    BY <1>6, Zenon DEF SwTicks, SwCarry, EmptyBelow
  <2> QED
    BY <1>4, <1>6, <2>1, Zenon DEF CountsDown, SwCounter
<1>7. ASSUME ~sw_tick PROVE sw_time' = sw_time
  <2>1. \A i \in SwCounter : sw_time'[i] = sw_time[i]
    BY <1>4, <1>7, Zenon DEF SwTicks
  <2>2. sw_time \in [SwCounter -> Nat] /\ sw_time' \in [SwCounter -> Nat]
    BY <1>1, StopwatchInRange DEF TimeTypeOK
  <2> QED
    BY <2>1, <2>2
<1> QED
  BY <1>2, <1>3, <1>5, <1>6, <1>7, Zenon

\* Outside the setting states the watch goes on by one clock.
LEMMA WatchClockStep ==
  ASSUME TimeInv, NEW btn \in SUBSET Buttons, Watch(btn), ~Setting
  PROVE  WatchClocks' = (WatchClocks + 1) % WtTurn
<1> DEFINE L == Len(WT_TIMES)
           M == WtUnits[L + 1]
           H == Hundredths(wt_time, WtUnits)
           H2 == Hundredths(wt_time', WtUnits)
           b == Pending(wt_tick)
           b2 == Pending(wt_tick')
           e == F_COUNT * b + wt_count
           e2 == F_COUNT * b2 + wt_count'
<1>1. F_COUNT \in Nat \ {0} /\ wt_count \in 0 .. F_COUNT - 1 /\ wt_tick \in BOOLEAN
  BY TimeAssumption DEF TimeInv, TimeTypeOK
<1>2. /\ H \in Int /\ H2 \in Int /\ M \in Nat \ {0}
      /\ wt_tick => GoesOnBy(1, M, H, H2)
      /\ ~wt_tick => H2 = H
  <2> HIDE DEF L
  <2>1. IsChain(L, WT_TIMES, WtUnits)
    BY TimesAreChains DEF L
  <2>2. /\ InRange(L, WT_TIMES, wt_time) /\ InRange(L, WT_TIMES, wt_time')
        /\ wt_tick => CountsUp(L, WT_TIMES, wt_time, wt_time')
        /\ ~wt_tick => wt_time' = wt_time
    BY WatchCountsUp DEF L
  <2>3. ShowsTime(L, WT_TIMES, WtUnits, wt_time, wt_time')
    BY <2>1, <2>2, ChainMoves
  <2> QED
    BY <2>2, <2>3, Zenon DEF ShowsTime
<1>3. wt_count' = (wt_count + 1) % F_COUNT /\ wt_tick' = (wt_count = F_COUNT - 1)
  BY Zenon DEF Watch
<1>4. b \in {0, 1} /\ b2 \in {0, 1} /\ (wt_tick => b = 1) /\ (~wt_tick => b = 0)
  BY Zenon DEF Pending
<1>5. e2 = wt_count + 1
  BY <1>1, <1>3, DividerStep, Zenon
<1> HIDE DEF M, H, H2, b, b2
<1>6. e \in Int /\ e2 \in Int
  BY <1>1, <1>4, <1>5
<1>7. GoesOnBy(b, M, H, H2)
  <2>1. CASE wt_tick
    BY <1>2, <1>4, <2>1, Zenon
  <2>2. CASE ~wt_tick
    <3>1. H2 = H /\ b = 0
      BY <1>2, <1>4, <2>2, Zenon
    <3> QED
      BY <1>2, <3>1 DEF GoesOnBy
  <2> QED
    BY <2>1, <2>2
<1>8. RestGoesOn(F_COUNT, b, 1, e, e2)
  <2>1. F_COUNT * b \in Int
    BY <1>1, <1>4
  <2>2. e2 + F_COUNT * b = e + 1
    BY <1>1, <1>5, <2>1
  <2> QED
    BY <2>2, Zenon DEF RestGoesOn
<1> HIDE DEF e, e2
<1>9. Clocks(F_COUNT, M, H2, e2) = (Clocks(F_COUNT, M, H, e) + 1) % (F_COUNT * M)
  <2>1. b \in Int /\ 1 \in Int
    BY <1>4
  <2> QED
    BY <1>1, <1>2, <1>6, <1>7, <1>8, <2>1, ClocksGoOn
<1>10. WtTurn = F_COUNT * M
  BY Zenon DEF WtTurn, M
<1>11. WatchClocks = Clocks(F_COUNT, M, H, e)
  <2>1. F_COUNT * (H + b) + wt_count = F_COUNT * H + (F_COUNT * b + wt_count)
    BY <1>1, <1>2, <1>4
  <2>2. WatchClocks = (F_COUNT * (H + b) + wt_count) % (F_COUNT * M)
    BY <1>10, Zenon DEF WatchClocks, H, b
  <2> QED
    BY <2>1, <2>2, Zenon DEF Clocks, e
<1>12. WatchClocks' = Clocks(F_COUNT, M, H2, e2)
  <2>1. F_COUNT * (H2 + b2) + wt_count' = F_COUNT * H2 + (F_COUNT * b2 + wt_count')
    <3>1. wt_count' \in Int
      BY <1>1, <1>3
    <3> QED
      BY <1>1, <1>2, <1>4, <3>1
  <2>2. WatchClocks' = (F_COUNT * (H2 + b2) + wt_count') % (F_COUNT * M)
    BY <1>10, Zenon DEF WatchClocks, H2, b2
  <2> QED
    BY <2>1, <2>2, Zenon DEF Clocks, e2
<1> QED
  BY <1>9, <1>10, <1>11, <1>12, Zenon

\* What a clock adds to the stopwatch.
StopwatchAdds ==
  CASE current_state # "SW_RUN" -> 0
    [] current_state = "SW_RUN" /\ mode_reg -> -1
    [] OTHER -> 1

\* In its running and resting states the stopwatch goes one up, one down or
\* stands still, with what is in its divider and tick register counted in.
LEMMA StopwatchClockStep ==
  ASSUME TimeInv, Stopwatch, mode_reg' = mode_reg, current_state # "SW_CLEAR"
  PROVE  StopwatchClocks' = (StopwatchClocks + StopwatchAdds) % SwTurn
<1> DEFINE L == Len(SW_TIMES)
           M == SwUnits[L + 1]
           H == Hundredths(sw_time, SwUnits)
           H2 == Hundredths(sw_time', SwUnits)
           b == Pending(sw_tick)
           b2 == Pending(sw_tick')
           a == F_COUNT * b + sw_count
           a2 == F_COUNT * b2 + sw_count'
           e == IF mode_reg THEN -a ELSE a
           e2 == IF mode_reg THEN -a2 ELSE a2
           k == IF mode_reg THEN 0 - b ELSE b
           d == StopwatchAdds
<1>1. /\ F_COUNT \in Nat \ {0} /\ sw_count \in 0 .. F_COUNT - 1
      /\ sw_tick \in BOOLEAN /\ mode_reg \in BOOLEAN
  BY TimeAssumption DEF TimeInv, TimeTypeOK
<1>2. /\ H \in Int /\ H2 \in Int /\ M \in Nat \ {0}
      /\ sw_tick /\ ~mode_reg => GoesOnBy(1, M, H, H2)
      /\ sw_tick /\ mode_reg => GoesOnBy(-1, M, H, H2)
      /\ ~sw_tick => H2 = H
  <2> HIDE DEF L
  <2>1. IsChain(L, SW_TIMES, SwUnits)
    BY TimesAreChains DEF L
  <2>2. /\ InRange(L, SW_TIMES, sw_time) /\ InRange(L, SW_TIMES, sw_time')
        /\ sw_tick /\ ~mode_reg => CountsUp(L, SW_TIMES, sw_time, sw_time')
        /\ sw_tick /\ mode_reg => CountsDown(L, SW_TIMES, sw_time, sw_time')
        /\ ~sw_tick => sw_time' = sw_time
    BY StopwatchCounts DEF L
  <2>3. ShowsTime(L, SW_TIMES, SwUnits, sw_time, sw_time')
    BY <2>1, <2>2, ChainMoves
  <2> QED
    BY <2>2, <2>3, Zenon DEF ShowsTime
<1>3. b \in {0, 1} /\ b2 \in {0, 1} /\ (sw_tick => b = 1) /\ (~sw_tick => b = 0)
  BY Zenon DEF Pending
<1>4. current_state = "SW_RUN" => a2 = sw_count + 1
  <2> SUFFICES ASSUME current_state = "SW_RUN" PROVE a2 = sw_count + 1
    OBVIOUS
  <2>1. sw_count' = (sw_count + 1) % F_COUNT /\ sw_tick' = (sw_count = F_COUNT - 1)
    BY DEF Stopwatch
  <2> QED
    BY <1>1, <2>1, DividerStep, Zenon
<1>5. current_state # "SW_RUN" => a2 = sw_count
  <2> SUFFICES ASSUME current_state # "SW_RUN" PROVE a2 = sw_count
    OBVIOUS
  <2>1. sw_count' = sw_count /\ sw_tick' = FALSE
    BY DEF Stopwatch
  <2>2. b2 = 0
    BY <2>1, Zenon DEF Pending
  <2> QED
    BY <1>1, <2>1, <2>2
<1>6. /\ current_state # "SW_RUN" => d = 0
      /\ current_state = "SW_RUN" /\ mode_reg => d = -1
      /\ current_state = "SW_RUN" /\ ~mode_reg => d = 1
  BY DEF StopwatchAdds
<1> HIDE DEF M, H, H2, b, b2, d
<1>7. a \in Int /\ a2 \in Int /\ b \in Int /\ d \in Int /\ F_COUNT * b \in Int
  <2>1. a2 = sw_count \/ a2 = sw_count + 1
    BY <1>4, <1>5
  <2>2. d = 0 \/ d = -1 \/ d = 1
    BY <1>1, <1>6
  <2> QED
    BY <1>1, <1>3, <2>1, <2>2
<1> HIDE DEF a2
<1>8. RestGoesOn(F_COUNT, k, d, e, e2)
  <2>1. CASE mode_reg
    <3>1. F_COUNT * (0 - b) = -(F_COUNT * b)
      BY <1>1, <1>7
    <3>2. e2 = -a2 /\ e = -a /\ k = 0 - b
      BY <2>1
    <3>3. (-a2) - F_COUNT * b = (-a) + d
      BY <1>1, <1>4, <1>5, <1>6, <1>7, <2>1
    <3>4. e2 + F_COUNT * k = e + d
      <4> HIDE DEF e, e2, k, a
      <4> QED
        BY <1>7, <3>1, <3>2, <3>3
    <3> QED
      BY <3>4, Zenon DEF RestGoesOn
  <2>2. CASE ~mode_reg
    <3>1. e2 = a2 /\ e = a /\ k = b
      BY <2>2
    <3>2. a2 + F_COUNT * b = a + d
      BY <1>1, <1>4, <1>5, <1>6, <1>7, <2>2
    <3> QED
      BY <3>1, <3>2, Zenon DEF RestGoesOn
  <2> QED
    BY <1>1, <2>1, <2>2
<1>9. GoesOnBy(k, M, H, H2)
  <2>1. CASE ~sw_tick
    <3>1. H2 = H /\ b = 0
      BY <1>2, <1>3, <2>1, Zenon
    <3>2. 0 - 0 = 0
      OBVIOUS
    <3>3. k = 0
      BY <3>1, <3>2, Zenon
    <3> QED
      BY <1>2, <3>1, <3>3 DEF GoesOnBy
  <2>2. CASE sw_tick /\ mode_reg
    <3>1. k = -1
      BY <1>3, <2>2
    <3> QED
      BY <1>2, <2>2, <3>1, Zenon
  <2>3. CASE sw_tick /\ ~mode_reg
    <3>1. k = 1
      BY <1>3, <2>3
    <3> QED
      BY <1>2, <2>3, <3>1, Zenon
  <2> QED
    BY <1>1, <2>1, <2>2, <2>3
<1>10. e \in Int /\ e2 \in Int /\ k \in Int
  BY <1>7
<1> HIDE DEF a, e, e2, k
<1>11. Clocks(F_COUNT, M, H2, e2) = (Clocks(F_COUNT, M, H, e) + d) % (F_COUNT * M)
  BY <1>1, <1>2, <1>7, <1>8, <1>9, <1>10, ClocksGoOn
<1>12. SwTurn = F_COUNT * M
  BY Zenon DEF SwTurn, M
<1>13. StopwatchClocks = Clocks(F_COUNT, M, H, e)
  <2>1. StopwatchClocks = (IF mode_reg THEN F_COUNT * H - a ELSE F_COUNT * H + a)
                            % (F_COUNT * M)
    BY <1>12, Zenon DEF StopwatchClocks, H, a, b
  <2>2. (IF mode_reg THEN F_COUNT * H - a ELSE F_COUNT * H + a) = F_COUNT * H + e
    BY <1>1, <1>2, <1>7 DEF e
  <2> QED
    BY <2>1, <2>2, Zenon DEF Clocks
<1>14. StopwatchClocks' = Clocks(F_COUNT, M, H2, e2)
  <2>1. StopwatchClocks' = (IF mode_reg THEN F_COUNT * H2 - a2 ELSE F_COUNT * H2 + a2)
                             % (F_COUNT * M)
    BY <1>12, Zenon DEF StopwatchClocks, H2, a2, b2
  <2>2. (IF mode_reg THEN F_COUNT * H2 - a2 ELSE F_COUNT * H2 + a2) = F_COUNT * H2 + e2
    BY <1>1, <1>2, <1>7 DEF e2
  <2> QED
    BY <2>1, <2>2, Zenon DEF Clocks
<1> QED
  BY <1>11, <1>12, <1>13, <1>14, Zenon DEF d

\* The watch loses no clock outside the setting states, for every divider and
\* every modulus of its digits.
THEOREM WatchAlwaysCounts == SpecTime => WatchCountsClocks
<1>1. TimeInv /\ [NextTime]_time_vars =>
        [\/ InitTime'
         \/ Setting
         \/ WatchClocks' = (WatchClocks + 1) % WtTurn]_time_vars
  <2> SUFFICES ASSUME TimeInv, NextTime, ~Setting
               PROVE  InitTime' \/ WatchClocks' = (WatchClocks + 1) % WtTurn
    BY Zenon
  <2>1. CASE ResetTime
    BY <2>1 DEF ResetTime, InitTime
  <2>2. ASSUME NEW btn \in Presses, Watch(btn)
        PROVE  WatchClocks' = (WatchClocks + 1) % WtTurn
    <3>1. btn \in SUBSET Buttons
      BY TimeAssumption
    <3> QED
      BY <2>2, <3>1, WatchClockStep
  <2> QED
    BY <2>1, <2>2, Zenon DEF NextTime, Clock
<1> QED BY <1>1, TimeInvariant, PTL DEF SpecTime, WatchCountsClocks

\* In a setting state a clock is a tick of the whole chain, with the digit on
\* display standing at x, and then an edit of that digit, which happens only if
\* the tick left it alone.
LEMMA SettingClockStep ==
  ASSUME TimeInv, NEW btn \in SUBSET Buttons, Watch(btn), Setting,
         NEW d, d = SetDigit[current_state]
  PROVE  \E x \in 0 .. WT_TIMES[d] - 1, k \in {-1, 0, 1} :
           /\ ShowsTicked([wt_time' EXCEPT ![d] = x])
           /\ wt_time'[d] = (x + k) % WT_TIMES[d]
           /\ k # 0 => x = wt_time[d]
<1> DEFINE c == wt_time[d]
           n == WT_TIMES[d]
           x == IF WtTicks(d) THEN StepUp(c, n) ELSE c
           t2 == [wt_time' EXCEPT ![d] = x]
           L == Len(WT_TIMES)
           M == WtUnits[L + 1]
           H == Hundredths(wt_time, WtUnits)
           H2 == Hundredths(t2, WtUnits)
           b == Pending(wt_tick)
<1>1. TimeTypeOK /\ wt_tick \in BOOLEAN
  BY DEF TimeInv, TimeTypeOK
<1>2. d \in WtCounter
  BY StateSets DEF SetDigit, WtCounter, Setting
<1>3. n \in Nat \ {0} /\ c \in Nat /\ c < n
  BY <1>1, <1>2, TimeAssumption DEF TimeTypeOK
<1>4. x \in Nat /\ x < n
  <2> HIDE DEF c, n
  <2> QED
    BY <1>3, StepInRange
<1>5. WtCounter = 1 .. L /\ IsChain(L, WT_TIMES, WtUnits)
  BY TimesAreChains
<1>6. /\ wt_time' \in [WtCounter -> Nat]
      /\ \A i \in WtCounter : wt_time'[i] < WT_TIMES[i]
  BY <1>1, WatchInRange
<1>7. \A i \in WtCounter \ {d} :
        wt_time'[i] = IF WtTicks(i) THEN StepUp(wt_time[i], WT_TIMES[i]) ELSE wt_time[i]
  <2> SUFFICES ASSUME NEW i \in WtCounter \ {d}
               PROVE  wt_time'[i] = IF WtTicks(i) THEN StepUp(wt_time[i], WT_TIMES[i])
                                    ELSE wt_time[i]
    BY Zenon
  <2>1. wt_time'[i] = WtNext(i, btn)
    BY Zenon DEF Watch
  <2>2. ~Edited(i)
    BY Zenon DEF Edited
  <2> QED
    BY <2>1, <2>2 DEF WtNext
<1>8. \E k \in {-1, 0, 1} : wt_time'[d] = (x + k) % n /\ (k # 0 => x = c)
  <2>1. wt_time'[d] = WtNext(d, btn)
    BY <1>2, Zenon DEF Watch
  <2>2. CASE WtTicks(d)
    <3>1. wt_time'[d] = x
      BY <2>1, <2>2 DEF WtNext
    <3> HIDE DEF x, n
    <3>2. wt_time'[d] = (x + 0) % n
      BY <1>3, <1>4, <3>1, StepIsModulo
    <3> QED
      BY <3>2
  <2>3. CASE ~WtTicks(d)
    <3>1. x = c
      BY <2>3
    <3>2. wt_time'[d] \in {StepUp(c, n), StepDown(c, n), c}
      BY <2>1, <2>3 DEF WtNext
    <3> HIDE DEF x, c, n
    <3>3. \E k \in {-1, 0, 1} : wt_time'[d] = (c + k) % n
      BY <1>3, <3>2, StepIsModulo
    <3> QED
      BY <3>1, <3>3
  <2> QED
    BY <2>2, <2>3
<1>9. t2 \in [WtCounter -> Nat]
  <2> HIDE DEF x
  <2> QED
    BY <1>4, <1>6
<1>10. \A i \in WtCounter :
         t2[i] = IF WtTicks(i) THEN StepUp(wt_time[i], WT_TIMES[i]) ELSE wt_time[i]
  <2> SUFFICES ASSUME NEW i \in WtCounter
               PROVE  t2[i] = IF WtTicks(i) THEN StepUp(wt_time[i], WT_TIMES[i])
                              ELSE wt_time[i]
    BY Zenon
  <2>1. CASE i = d
    <3>1. t2[d] = x
      BY <1>2, <1>6, Zenon
    <3> QED
      BY <2>1, <3>1, Zenon
  <2>2. CASE i # d
    <3>1. t2[i] = wt_time'[i]
      BY <1>6, <2>2, Zenon
    <3> QED
      BY <1>7, <2>2, <3>1, Zenon
  <2> QED
    BY <2>1, <2>2, Zenon
<1>11. InRange(L, WT_TIMES, wt_time)
  BY <1>1, <1>5, Zenon DEF TimeTypeOK, InRange
<1>12. InRange(L, WT_TIMES, t2)
  <2>1. \A i \in WtCounter : t2[i] < WT_TIMES[i]
    <3> SUFFICES ASSUME NEW i \in WtCounter PROVE t2[i] < WT_TIMES[i]
      BY Zenon
    <3>1. WT_TIMES[i] \in Nat \ {0} /\ wt_time[i] \in Nat /\ wt_time[i] < WT_TIMES[i]
      BY <1>1, TimeAssumption DEF TimeTypeOK
    <3>2. StepUp(wt_time[i], WT_TIMES[i]) < WT_TIMES[i]
      BY <3>1, StepInRange
    <3> HIDE DEF t2
    <3> QED
      BY <1>10, <3>1, <3>2
  <2> QED
    BY <1>5, <1>9, <2>1, Zenon DEF InRange
<1> HIDE DEF t2, x
<1>13. ASSUME wt_tick PROVE CountsUp(L, WT_TIMES, wt_time, t2)
  BY <1>5, <1>10, <1>13, Zenon DEF CountsUp, FullBelow, WtTicks, WtCarry
<1>14. ASSUME ~wt_tick PROVE t2 = wt_time
  <2>1. \A i \in WtCounter : t2[i] = wt_time[i]
    BY <1>10, <1>14, Zenon DEF WtTicks
  <2>2. wt_time \in [WtCounter -> Nat]
    BY <1>1 DEF TimeTypeOK
  <2> QED
    BY <1>9, <2>1, <2>2
<1>15. ShowsTime(L, WT_TIMES, WtUnits, wt_time, t2)
  <2> HIDE DEF L
  <2> QED
    BY <1>5, <1>11, <1>12, ChainMoves
<1>16. /\ H \in Int /\ H2 \in Int /\ M \in Nat \ {0}
       /\ wt_tick => GoesOnBy(1, M, H, H2)
       /\ ~wt_tick => H2 = H
  BY <1>13, <1>14, <1>15, Zenon DEF ShowsTime
<1>17. (wt_tick => b = 1) /\ (~wt_tick => b = 0)
  BY Zenon DEF Pending
<1>18. H2 % M = (H + b) % M
  <2> HIDE DEF H, H2, M, b
  <2>1. CASE wt_tick
    <3>1. H2 \in {H + 1, (H + 1) - M, (H + 1) + M} /\ b = 1
      BY <1>16, <1>17, <2>1, Zenon DEF GoesOnBy
    <3>2. /\ ((H + 1) + M) % M = (H + 1) % M
          /\ ((H + 1) - M) % M = (H + 1) % M
      <4>1. H + 1 \in Int
        BY <1>16
      <4> QED
        BY <1>16, <4>1, TurnsDoNotShow
    <3> QED
      BY <3>1, <3>2, Zenon
  <2>2. CASE ~wt_tick
    <3>1. H2 = H /\ b = 0
      BY <1>16, <1>17, <2>2, Zenon
    <3>2. H + 0 = H
      BY <1>16
    <3> QED
      BY <3>1, <3>2, Zenon
  <2> QED
    BY <2>1, <2>2, Zenon
<1>19. ShowsTicked(t2)
  BY <1>18, Zenon DEF ShowsTicked
<1>20. x \in 0 .. n - 1
  <2> HIDE DEF n
  <2> QED
    BY <1>3, <1>4
<1> QED
  BY <1>8, <1>19, <1>20, Zenon DEF t2

\* While the watch is set, time stands still, the tick that was on its way goes
\* through all the digits, and only the digit on display takes an edit, and
\* only where that tick leaves it alone: for every divider and every modulus.
THEOREM SettingAlwaysExact == SpecTime => SettingIsExact
<1> DEFINE Exact ==
             \/ InitTime'
             \/ /\ UNCHANGED wt_count /\ ~wt_tick'
                /\ LET d == SetDigit[current_state]
                   IN  \E x \in 0 .. WT_TIMES[d] - 1, k \in {-1, 0, 1} :
                         /\ ShowsTicked([wt_time' EXCEPT ![d] = x])
                         /\ wt_time'[d] = (x + k) % WT_TIMES[d]
                         /\ k # 0 => x = wt_time[d]
<1>1. TimeInv /\ [NextTime]_time_vars => [Setting => Exact]_time_vars
  <2> SUFFICES ASSUME TimeInv, NextTime, Setting PROVE Exact
    BY Zenon
  <2>1. CASE ResetTime
    <3>1. InitTime'
      BY <2>1 DEF ResetTime, InitTime
    <3> QED
      BY <3>1, Zenon
  <2>2. ASSUME NEW btn \in Presses, Watch(btn) PROVE Exact
    <3>1. btn \in SUBSET Buttons
      BY TimeAssumption
    <3>2. UNCHANGED wt_count /\ ~wt_tick'
      BY <2>2 DEF Watch
    <3>3. \E x \in 0 .. WT_TIMES[SetDigit[current_state]] - 1, k \in {-1, 0, 1} :
            /\ ShowsTicked([wt_time' EXCEPT ![SetDigit[current_state]] = x])
            /\ wt_time'[SetDigit[current_state]]
                 = (x + k) % WT_TIMES[SetDigit[current_state]]
            /\ k # 0 => x = wt_time[SetDigit[current_state]]
      BY <2>2, <3>1, SettingClockStep
    <3> QED
      BY <3>2, <3>3, Zenon
  <2> QED
    BY <2>1, <2>2, Zenon DEF NextTime, Clock
<1> QED BY <1>1, TimeInvariant, PTL DEF SpecTime, SettingIsExact

\* The stopwatch's divider, tick register and counters are one number of
\* clocks in both directions, for every divider and every chain of counters.
THEOREM StopwatchAlwaysCounts == SpecTime => StopwatchCountsClocks
<1> DEFINE Counted ==
             \/ InitTime'
             \/ current_state = "SW_CLEAR"
             \/ current_state = "SW_MODE" /\ UNCHANGED stopwatch
             \/ /\ current_state # "SW_MODE"
                /\ StopwatchClocks' =
                     (StopwatchClocks
                       + (CASE current_state # "SW_RUN" -> 0
                            [] current_state = "SW_RUN" /\ mode_reg -> -1
                            [] OTHER -> 1)) % SwTurn
<1>1. TimeInv /\ [NextTime]_time_vars => [Counted]_time_vars
  <2> SUFFICES ASSUME TimeInv, NextTime, current_state # "SW_CLEAR" PROVE Counted
    BY Zenon
  <2>1. CASE ResetTime
    <3>1. InitTime'
      BY <2>1 DEF ResetTime, InitTime
    <3> QED
      BY <3>1, Zenon
  <2>2. ASSUME NEW f, NEW set, NEW btn, Control(f, set, btn), Stopwatch
        PROVE  Counted
    <3>1. CASE current_state = "SW_MODE"
      <4>1. ~sw_tick
        BY <3>1 DEF TimeInv, NoTickInPulse
      <4>2. sw_time' = sw_time
        BY <2>2, <4>1, StopwatchCounts
      <4>3. sw_count' = sw_count /\ sw_tick' = FALSE
        BY <2>2, <3>1 DEF Stopwatch
      <4>4. sw_tick = FALSE
        BY <4>1 DEF TimeInv, TimeTypeOK
      <4> QED
        BY <3>1, <4>2, <4>3, <4>4, Zenon DEF stopwatch
    <3>2. CASE current_state # "SW_MODE"
      <4>1. mode_reg' = mode_reg
        BY <2>2, <3>2, Zenon DEF Control
      <4>2. StopwatchClocks' = (StopwatchClocks + StopwatchAdds) % SwTurn
        BY <2>2, <4>1, StopwatchClockStep
      <4> QED
        BY <3>2, <4>2, Zenon DEF StopwatchAdds
    <3> QED
      BY <3>1, <3>2, Zenon
  <2> QED
    BY <2>1, <2>2, Zenon DEF NextTime, Clock
<1> QED BY <1>1, TimeInvariant, PTL DEF SpecTime, StopwatchCountsClocks
-----------------------------------------------------------------------------
(* The two FIFOs of the command path.                                      *)

RxProofs == INSTANCE FifoProofs WITH DEPTH <- DEPTH_RX, Char <- Chars, fifo <- fifo_rx
TxProofs == INSTANCE FifoProofs WITH DEPTH <- DEPTH_TX, Char <- Chars, fifo <- fifo_tx

\* A clock of FIFO_RX keeps its invariant and is a step of a queue.
LEMMA RxStep ==
  ASSUME Rx!FifoInv, NEW push \in BOOLEAN, NEW pop \in BOOLEAN, NEW data \in Chars,
         Rx!Clock(push, pop, data)
  PROVE  /\ Rx!FifoInv'
         /\ Rx!Contents' = Rx!QueueAfter(Rx!Contents, push, pop, data)
<1>1. RxProofs!DepthOK
  BY PathAssumption DEF RxProofs!DepthOK
<1>2. RxProofs!FifoInv
  BY DEF Rx!FifoInv, Rx!Fifos, Rx!Place,
         RxProofs!FifoInv, RxProofs!Fifos, RxProofs!Place
<1>3. RxProofs!Clock(push, pop, data)
  BY DEF Rx!Clock, Rx!Control, Rx!Pushed, Rx!Popped, Rx!Succ,
         RxProofs!Clock, RxProofs!Control, RxProofs!Pushed, RxProofs!Popped,
         RxProofs!Succ
<1>4. /\ RxProofs!FifoInv'
      /\ RxProofs!Contents' = RxProofs!QueueAfter(RxProofs!Contents, push, pop, data)
  BY <1>1, <1>2, <1>3, RxProofs!FifoIsQueue
<1> QED
  BY <1>4
  DEF Rx!FifoInv, Rx!Fifos, Rx!Place, Rx!Contents, Rx!QueueAfter, Rx!Count, Rx!PlaceOf,
      RxProofs!FifoInv, RxProofs!Fifos, RxProofs!Place, RxProofs!Contents,
      RxProofs!QueueAfter, RxProofs!Count, RxProofs!PlaceOf

\* So is a clock of FIFO_TX.
LEMMA TxStep ==
  ASSUME Tx!FifoInv, NEW push \in BOOLEAN, NEW pop \in BOOLEAN, NEW data \in Chars,
         Tx!Clock(push, pop, data)
  PROVE  /\ Tx!FifoInv'
         /\ Tx!Contents' = Tx!QueueAfter(Tx!Contents, push, pop, data)
<1>1. TxProofs!DepthOK
  BY PathAssumption DEF TxProofs!DepthOK
<1>2. TxProofs!FifoInv
  BY DEF Tx!FifoInv, Tx!Fifos, Tx!Place,
         TxProofs!FifoInv, TxProofs!Fifos, TxProofs!Place
<1>3. TxProofs!Clock(push, pop, data)
  BY DEF Tx!Clock, Tx!Control, Tx!Pushed, Tx!Popped, Tx!Succ,
         TxProofs!Clock, TxProofs!Control, TxProofs!Pushed, TxProofs!Popped,
         TxProofs!Succ
<1>4. /\ TxProofs!FifoInv'
      /\ TxProofs!Contents' = TxProofs!QueueAfter(TxProofs!Contents, push, pop, data)
  BY <1>1, <1>2, <1>3, TxProofs!FifoIsQueue
<1> QED
  BY <1>4
  DEF Tx!FifoInv, Tx!Fifos, Tx!Place, Tx!Contents, Tx!QueueAfter, Tx!Count, Tx!PlaceOf,
      TxProofs!FifoInv, TxProofs!Fifos, TxProofs!Place, TxProofs!Contents,
      TxProofs!QueueAfter, TxProofs!Count, TxProofs!PlaceOf

\* The head of a FIFO is a character even when it is empty.
LEMMA PopTypes ==
  ASSUME Rx!FifoInv, Tx!FifoInv
  PROVE  Rx!PopData \in Chars /\ Tx!PopData \in Chars
BY DEF Rx!FifoInv, Rx!Fifos, Rx!PopData, Tx!FifoInv, Tx!Fifos, Tx!PopData

\* A reset leaves both FIFOs well-formed.
LEMMA ResetsEmpty ==
  ASSUME Rx!FifoInv, Tx!FifoInv, Rx!Reset, Tx!Reset
  PROVE  Rx!FifoInv' /\ Tx!FifoInv'
<1>1. 0 \in Rx!Place /\ 0 \in Tx!Place
  BY PathAssumption DEF Rx!Place, Tx!Place
<1>2. fifo_rx.mem \in [Rx!Place -> Chars] /\ fifo_tx.mem \in [Tx!Place -> Chars]
  BY DEF Rx!FifoInv, Rx!Fifos, Tx!FifoInv, Tx!Fifos
<1>3. /\ fifo_rx' = [mem |-> fifo_rx.mem, wptr |-> 0, rptr |-> 0,
                     full |-> FALSE, empty |-> TRUE]
      /\ fifo_tx' = [mem |-> fifo_tx.mem, wptr |-> 0, rptr |-> 0,
                     full |-> FALSE, empty |-> TRUE]
  BY DEF Rx!Reset, Rx!Fresh, Tx!Reset, Tx!Fresh
<1>4. Rx!FifoInv'
  BY <1>1, <1>2, <1>3 DEF Rx!FifoInv, Rx!Fifos
<1>5. Tx!FifoInv'
  BY <1>1, <1>2, <1>3 DEF Tx!FifoInv, Tx!Fifos
<1> QED
  BY <1>4, <1>5

-----------------------------------------------------------------------------
(* The UART's registers.                                                   *)

\* The divider of the ticks keeps its range.
LEMMA TickType ==
  ASSUME NEW t \in Ticks
  PROVE  TickNext(t) \in Ticks
BY UartAssumption DEF Ticks, TickNext

\* A shift register keeps its width.
LEMMA ShiftedType ==
  ASSUME NEW bits \in [1 .. DATA_BIT + 1 -> Bit], NEW b \in Bit
  PROVE  Shifted(bits, b) \in [1 .. DATA_BIT + 1 -> Bit]
<1>1. bits \in Seq(Bit) /\ Len(bits) = DATA_BIT + 1
  BY UartAssumption
<1>2. Tail(bits) \in Seq(Bit) /\ Len(Tail(bits)) = DATA_BIT
  BY <1>1, UartAssumption
<1>3. Append(Tail(bits), b) \in Seq(Bit) /\ Len(Append(Tail(bits), b)) = DATA_BIT + 1
  BY <1>2
<1> QED
  BY <1>3, LenProperties DEF Shifted

\* A character with a bit behind it fills the register.
LEMMA MarkedType ==
  ASSUME NEW c \in Chars, NEW b \in Bit
  PROVE  Append(c, b) \in [1 .. DATA_BIT + 1 -> Bit]
<1>1. c \in Seq(Bit) /\ Len(c) = DATA_BIT
  BY UartAssumption DEF Chars
<1>2. Append(c, b) \in Seq(Bit) /\ Len(Append(c, b)) = DATA_BIT + 1
  BY <1>1, UartAssumption
<1> QED
  BY <1>2, LenProperties

\* What a reset leaves in the receiver, and what it counts on from.
LEMMA RxResetType == RxReset \in Receivers /\ RxReset.counter_reg = HALF
                     /\ HALF + 1 \in 0 .. OVERSAMPLE - 1
                     /\ RxReset.data_buf \in [1 .. DATA_BIT + 1 -> Bit]
<1>1. HALF \in 0 .. OVERSAMPLE - 1 /\ HALF + 1 \in 0 .. OVERSAMPLE - 1
  BY UartAssumption DEF HALF
<1>2. Ones(DATA_BIT + 1) \in [1 .. DATA_BIT + 1 -> Bit]
  BY DEF Ones, Bit
<1> QED
  BY <1>1, <1>2 DEF RxReset, Receivers

\* Waiting, it goes back to half a bit; counting, it stays below a whole one.
LEMMA RxType ==
  ASSUME NEW r \in Receivers, r.b_state = "IDLE" => r.counter_reg = HALF,
         NEW bps \in BOOLEAN, NEW b \in Bit
  PROVE  /\ RxNext(r, bps, b) \in Receivers
         /\ RxNext(r, bps, b).b_state = "IDLE" => RxNext(r, bps, b).counter_reg = HALF
<1> DEFINE s == RxNext(r, bps, b)
<1>1. /\ r.b_state \in {"IDLE", "DATA"} /\ r.counter_reg \in 0 .. OVERSAMPLE - 1
      /\ r.data_buf \in [1 .. DATA_BIT + 1 -> Bit] /\ r.rx_done \in BOOLEAN
  BY DEF Receivers
<1>2. CASE r.b_state = "IDLE" /\ bps /\ b = 0
  <2>1. s = [RxReset EXCEPT !.b_state = "DATA", !.counter_reg = r.counter_reg + 1]
    BY <1>2 DEF RxNext
  <2> QED
    BY <1>2, <2>1, RxResetType, ZenonT(40) DEF Receivers
<1>3. CASE r.b_state = "IDLE" /\ ~(bps /\ b = 0)
  <2>1. s = [RxReset EXCEPT !.counter_reg = r.counter_reg]
    BY <1>3 DEF RxNext
  <2> QED
    BY <1>1, <1>3, <2>1, RxResetType DEF Receivers
<1>4. CASE r.b_state = "DATA" /\ bps /\ r.counter_reg >= OVERSAMPLE - 1
  <2>0. ~(r.counter_reg < OVERSAMPLE - 1)
    BY <1>1, <1>4, UartAssumption
  <2>1. s = RxSample(r, b)
    BY <1>4, <2>0 DEF RxNext
  <2>2. Shifted(r.data_buf, b) \in [1 .. DATA_BIT + 1 -> Bit]
    BY <1>1, ShiftedType
  <2>3. HALF \in 0 .. OVERSAMPLE - 1 /\ 0 \in 0 .. OVERSAMPLE - 1
    BY UartAssumption DEF HALF
  <2> QED
    BY <2>1, <2>2, <2>3 DEF RxSample, Receivers
<1>5. CASE r.b_state = "DATA" /\ bps /\ ~(r.counter_reg >= OVERSAMPLE - 1)
  <2>1. r.counter_reg < OVERSAMPLE - 1 /\ r.counter_reg + 1 \in 0 .. OVERSAMPLE - 1
    BY <1>1, <1>5, UartAssumption
  <2>2. s = [r EXCEPT !.counter_reg = @ + 1, !.rx_done = FALSE]
    BY <1>5, <2>1 DEF RxNext
  <2> QED
    BY <1>1, <1>5, <2>1, <2>2 DEF Receivers
<1>6. CASE r.b_state = "DATA" /\ ~bps
  <2>1. s = [r EXCEPT !.rx_done = FALSE]
    BY <1>6 DEF RxNext
  <2> QED
    BY <1>1, <1>6, <2>1 DEF Receivers
<1> QED
  BY <1>1, <1>2, <1>3, <1>4, <1>5, <1>6

\* What a reset leaves in the transmitter.
LEMMA TxResetType ==
  ASSUME NEW c \in Chars
  PROVE  TxReset(c) \in Transmitters
<1>1. Append(c, 1) \in [1 .. DATA_BIT + 1 -> Bit]
  BY MarkedType DEF Bit
<1>2. 0 \in 0 .. OVERSAMPLE - 1
  BY UartAssumption
<1> QED
  BY <1>1, <1>2 DEF TxReset, Transmitters, Bit

\* A clock keeps the ranges of the transmitter.
LEMMA TxType ==
  ASSUME NEW t \in Transmitters, NEW bps \in BOOLEAN, NEW start \in BOOLEAN,
         NEW c \in Chars
  PROVE  TxNext(t, bps, start, c) \in Transmitters
<1> DEFINE u == [t EXCEPT !.bps_count = TxCount(t, bps)]
           over == bps /\ t.bps_count >= OVERSAMPLE - 1
           s == TxNext(t, bps, start, c)
<1>1. /\ t.state \in {"IDLE", "START", "S0"} /\ t.bps_count \in 0 .. OVERSAMPLE - 1
      /\ t.data_reg \in [1 .. DATA_BIT + 1 -> Bit] /\ t.tx \in Bit
      /\ t.tx_busy \in BOOLEAN
  BY DEF Transmitters
<1>2. u \in Transmitters /\ u.data_reg = t.data_reg /\ u.tx = t.tx /\ u.state = t.state
  <2>1. TxCount(t, bps) \in 0 .. OVERSAMPLE - 1
    BY <1>1, UartAssumption DEF TxCount
  <2> QED
    BY <1>1, <2>1 DEF Transmitters
<1>3. /\ Append(c, 0) \in [1 .. DATA_BIT + 1 -> Bit]
      /\ Append(c, 1) \in [1 .. DATA_BIT + 1 -> Bit]
      /\ 0 \in Bit /\ 1 \in Bit
  BY MarkedType DEF Bit
<1>4. CASE t.state = "IDLE"
  <2>1. s = [u EXCEPT !.state = IF start THEN "START" ELSE "IDLE", !.tx = 1,
                      !.tx_busy = start, !.data_reg = Append(c, 0)]
    BY <1>4 DEF TxNext
  <2> HIDE DEF u
  <2> QED
    BY <1>2, <1>3, <2>1 DEF Transmitters
<1>5. CASE t.state = "START"
  <2>1. s = [u EXCEPT !.state = IF over THEN "S0" ELSE "START",
                      !.tx = IF over THEN 0 ELSE 1, !.tx_busy = TRUE]
    BY <1>5 DEF TxNext
  <2> HIDE DEF u, over
  <2> QED
    BY <1>2, <1>3, <2>1 DEF Transmitters
<1>6. CASE t.state = "S0" /\ over /\ ~AllSent(t.data_reg)
  <2>1. s = [u EXCEPT !.tx = t.data_reg[1], !.data_reg = Shifted(@, 1),
                      !.tx_busy = TRUE]
    BY <1>6 DEF TxNext
  <2>2. t.data_reg[1] \in Bit /\ Shifted(t.data_reg, 1) \in [1 .. DATA_BIT + 1 -> Bit]
    BY <1>1, ShiftedType, UartAssumption DEF Bit
  <2> HIDE DEF u
  <2> QED
    BY <1>2, <2>1, <2>2 DEF Transmitters
<1>7. CASE t.state = "S0" /\ over /\ AllSent(t.data_reg)
  <2>1. s = [u EXCEPT !.state = "IDLE", !.tx = 1, !.tx_busy = FALSE,
                      !.data_reg = Append(c, 1)]
    BY <1>7 DEF TxNext
  <2> HIDE DEF u
  <2> QED
    BY <1>2, <1>3, <2>1 DEF Transmitters
<1>8. CASE t.state = "S0" /\ ~over
  <2>1. s = [u EXCEPT !.tx_busy = TRUE]
    BY <1>8 DEF TxNext
  <2> HIDE DEF u
  <2> QED
    BY <1>2, <2>1 DEF Transmitters
<1> QED
  BY <1>1, <1>4, <1>5, <1>6, <1>7, <1>8

-----------------------------------------------------------------------------
(* The PC and the rest of the board.                                       *)

PcTypeOK == {host, reader} \subseteq [bits : Seq(Bit), left : Nat]

\* The line carries a bit.
LEMMA LineType ==
  ASSUME PcTypeOK
  PROVE  Line \in Bit
<1>1. host.bits \in Seq(Bit)
  BY DEF PcTypeOK
<1> QED
  BY <1>1 DEF Line, Bit

\* A character that the PC begins is bits and a time.
LEMMA BeginningType ==
  ASSUME NEW h \in Beginning
  PROVE  h \in [bits : Seq(Bit), left : Nat]
<1>1. PICK c \in Sent, slip \in 0 .. 2 :
        h = [bits |-> <<0>> \o c \o <<1>>, left |-> BIT_CLOCKS + slip - 1]
  BY DEF Beginning
<1>2. c \in Seq(Bit) /\ <<0>> \in Seq(Bit) /\ <<1>> \in Seq(Bit)
  BY PathAssumption, UartAssumption DEF Chars, Bit
<1>3. <<0>> \o c \in Seq(Bit)
  BY <1>2
<1>4. <<0>> \o c \o <<1>> \in Seq(Bit)
  BY <1>2, <1>3
<1>5. BIT_CLOCKS \in Nat /\ BIT_CLOCKS >= 1
  BY UartAssumption, SMTT(30) DEF BIT_CLOCKS
<1>6. BIT_CLOCKS + slip - 1 \in Nat
  BY <1>5
<1> QED
  BY <1>1, <1>4, <1>6

\* The PC's two directions keep their ranges.
LEMMA PcType ==
  ASSUME PcTypeOK, tx.tx \in Bit, PcClock
  PROVE  PcTypeOK'
<1>1. /\ host \in [bits : Seq(Bit), left : Nat]
      /\ reader \in [bits : Seq(Bit), left : Nat]
  BY DEF PcTypeOK
<1>2. BIT_CLOCKS \in Nat
  BY UartAssumption, SMTT(30) DEF BIT_CLOCKS
<1>3. Idle \in [bits : Seq(Bit), left : Nat]
  BY DEF Idle
<1>4. host' \in [bits : Seq(Bit), left : Nat]
  <2>1. CASE host.left > 1
    <3>1. host' = [host EXCEPT !.left = @ - 1]
      BY <2>1 DEF PcClock, HostNext
    <3> QED
      BY <1>1, <2>1, <3>1, SMTT(40)
  <2>2. CASE ~(host.left > 1) /\ Len(host.bits) > 1
    <3>1. host' = [bits |-> Tail(host.bits), left |-> BIT_CLOCKS]
      BY <2>2 DEF PcClock, HostNext
    <3>2. Tail(host.bits) \in Seq(Bit)
      BY <1>1, <2>2
    <3> QED
      BY <1>2, <3>1, <3>2
  <2>3. CASE ~(host.left > 1) /\ ~(Len(host.bits) > 1)
    <3>1. host' = Idle \/ host' \in Beginning
      BY <2>3 DEF PcClock, HostNext
    <3> QED
      BY <1>3, <3>1, BeginningType
  <2> QED
    BY <2>1, <2>2, <2>3
<1>5. reader' \in [bits : Seq(Bit), left : Nat]
  <2>1. CASE reader.left = 0
    <3>1. reader' = IF tx.tx = 1 THEN Idle
                    ELSE [bits |-> <<>>, left |-> BIT_CLOCKS + BIT_CLOCKS \div 2 - 1]
      BY <2>1 DEF PcClock, ReaderNext
    <3>2. BIT_CLOCKS + BIT_CLOCKS \div 2 - 1 \in Nat
      <4>1. BIT_CLOCKS >= 1
        BY UartAssumption, SMTT(30) DEF BIT_CLOCKS
      <4> QED
        BY <1>2, <4>1
    <3>3. <<>> \in Seq(Bit)
      OBVIOUS
    <3> QED
      BY <1>3, <3>1, <3>2, <3>3
  <2>2. CASE reader.left > 1
    <3>1. reader.left # 0 /\ reader.left # 1
      BY <1>1, <2>2
    <3>2. reader' = [reader EXCEPT !.left = @ - 1]
      BY <2>2, <3>1 DEF PcClock, ReaderNext
    <3> QED
      BY <1>1, <2>2, <3>2
  <2>3. CASE reader.left = 1
    <3>1. ~(reader.left > 1) /\ reader.left # 0
      BY <2>3
    <3>2. reader' = IF Reads THEN Idle
                    ELSE [bits |-> Append(reader.bits, tx.tx), left |-> BIT_CLOCKS]
      BY <2>3, <3>1 DEF PcClock, ReaderNext
    <3>3. Append(reader.bits, tx.tx) \in Seq(Bit)
      BY <1>1
    <3> QED
      BY <1>2, <1>3, <3>2, <3>3
  <2> QED
    BY <1>1, <2>1, <2>2, <2>3
<1> QED
  BY <1>4, <1>5 DEF PcTypeOK

DecoderTypeOK == /\ decoder \in [state : {"IDLE", "DATA"}, UART_DATA_buf : Chars]
                 /\ button \in Commands
SenderTypeOK  == sender \in [state : {"IDLE", "DATA"}, run : BOOLEAN,
                             digit_sel : 0 .. REPORT_LENGTH - 1]

\* What a reset leaves in the decoder and in the sender.
LEMMA ResetTypes ==
  /\ DecoderReset \in [state : {"IDLE", "DATA"}, UART_DATA_buf : Chars]
  /\ "none" \in Commands
  /\ SenderReset \in [state : {"IDLE", "DATA"}, run : BOOLEAN,
                      digit_sel : 0 .. REPORT_LENGTH - 1]
<1>1. [i \in 1 .. DATA_BIT |-> 0] \in Chars
  BY DEF Chars, Bit
<1>2. 0 \in 0 .. REPORT_LENGTH - 1
  BY PathAssumption
<1> QED
  BY <1>1, <1>2, PathAssumption DEF DecoderReset, SenderReset

\* A clock keeps the ranges of the decoder and of its button.
LEMMA DecoderType ==
  ASSUME DecoderTypeOK, Rx!PopData \in Chars, AsciiDecoder
  PROVE  DecoderTypeOK'
<1>1. decoder.UART_DATA_buf \in Chars /\ decoder.state \in {"IDLE", "DATA"}
  BY DEF DecoderTypeOK
<1>2. CommandOf[decoder.UART_DATA_buf] \in Commands /\ "none" \in Commands
  BY <1>1, PathAssumption
<1>3. button' \in Commands
  BY <1>2 DEF AsciiDecoder
<1>4. CASE decoder.state = "DATA"
  <2>1. decoder' = [decoder EXCEPT !.state = "IDLE"]
    BY <1>4 DEF AsciiDecoder
  <2> QED
    BY <1>3, <2>1 DEF DecoderTypeOK
<1>5. CASE decoder.state # "DATA"
  <2>1. decoder' = [state |-> IF fifo_rx.empty THEN "IDLE" ELSE "DATA",
                    UART_DATA_buf |-> Rx!PopData]
    BY <1>5 DEF AsciiDecoder
  <2> QED
    BY <1>3, <2>1 DEF DecoderTypeOK
<1> QED
  BY <1>4, <1>5

\* A clock keeps the ranges of the sender.
LEMMA SenderType ==
  ASSUME SenderTypeOK, NEW on \in BOOLEAN, sender' = SenderNext(on)
  PROVE  SenderTypeOK'
<1>1. /\ sender.state \in {"IDLE", "DATA"} /\ sender.run \in BOOLEAN
      /\ sender.digit_sel \in 0 .. REPORT_LENGTH - 1
  BY DEF SenderTypeOK
<1>2. CASE sender.state = "IDLE" /\ on
  <2>1. sender' = [sender EXCEPT !.state = "DATA", !.run = TRUE]
    BY <1>2 DEF SenderNext
  <2> QED
    BY <2>1 DEF SenderTypeOK
<1>3. CASE sender.state = "IDLE" /\ ~on
  <2>1. sender' = [sender EXCEPT !.run = FALSE]
    BY <1>3 DEF SenderNext
  <2> QED
    BY <2>1 DEF SenderTypeOK
<1>4. CASE sender.state = "DATA" /\ sender.digit_sel >= REPORT_LENGTH - 1
  <2>1. ~(sender.digit_sel < REPORT_LENGTH - 1)
    BY <1>1, <1>4, PathAssumption
  <2>2. sender' = SenderReset
    BY <1>4, <2>1 DEF SenderNext
  <2> QED
    BY <2>2, ResetTypes DEF SenderTypeOK
<1>5. CASE sender.state = "DATA" /\ ~(sender.digit_sel >= REPORT_LENGTH - 1)
  <2>1. /\ sender.digit_sel < REPORT_LENGTH - 1
        /\ sender.digit_sel + 1 \in 0 .. REPORT_LENGTH - 1
    BY <1>1, <1>5, PathAssumption
  <2>2. sender' = [sender EXCEPT !.digit_sel = @ + 1]
    BY <1>5, <2>1 DEF SenderNext
  <2> QED
    BY <2>1, <2>2 DEF SenderTypeOK
<1> QED
  BY <1>1, <1>2, <1>3, <1>4, <1>5

-----------------------------------------------------------------------------
(* The whole board.                                                        *)

\* The type invariant, part by part.
LEMMA TypeParts ==
  PathTypeOK <=> /\ tick \in Ticks /\ rx \in Receivers /\ tx \in Transmitters
                 /\ rx.b_state = "IDLE" => rx.counter_reg = HALF
                 /\ Rx!FifoInv /\ Tx!FifoInv
                 /\ DecoderTypeOK /\ SenderTypeOK /\ PcTypeOK
BY DEF PathTypeOK, DecoderTypeOK, SenderTypeOK, PcTypeOK

\* A reset keeps all ranges.
LEMMA ResetBoardTypes ==
  ASSUME PathTypeOK, ResetBoard, PcClock
  PROVE  PathTypeOK'
<1>1. /\ Rx!FifoInv /\ Tx!FifoInv /\ PcTypeOK /\ tx \in Transmitters
  BY TypeParts
<1>2. /\ tick' = TickReset /\ rx' = RxReset /\ Rx!Reset /\ Tx!Reset
      /\ decoder' = DecoderReset /\ button' = "none" /\ sender' = SenderReset
      /\ tx' = TxReset(Tx!PopData')
  BY DEF ResetBoard
<1>3. Rx!FifoInv' /\ Tx!FifoInv'
  BY <1>1, <1>2, ResetsEmpty
<1>4. Tx!PopData' \in Chars
  BY <1>3 DEF Tx!FifoInv, Tx!Fifos, Tx!PopData
<1>5. tx' \in Transmitters
  BY <1>2, <1>4, TxResetType
<1>6. tick' \in Ticks
  BY <1>2, UartAssumption DEF TickReset, Ticks
<1>7. rx' \in Receivers /\ (rx'.b_state = "IDLE" => rx'.counter_reg = HALF)
  BY <1>2, RxResetType
<1>8. DecoderTypeOK' /\ SenderTypeOK'
  BY <1>2, ResetTypes DEF DecoderTypeOK, SenderTypeOK
<1>9. PcTypeOK'
  BY <1>1, PcType DEF Transmitters
<1> QED
  BY <1>3, <1>5, <1>6, <1>7, <1>8, <1>9
  DEF PathTypeOK, DecoderTypeOK, SenderTypeOK, PcTypeOK

\* A clock edge keeps the types, and moves both FIFOs like queues.
LEMMA ClockEdgeTypes ==
  ASSUME PathTypeOK, ClockEdge
  PROVE  /\ PathTypeOK'
         /\ Rx!Contents' = Rx!QueueAfter(Rx!Contents, rx.rx_done, ~fifo_rx.empty, RxData(rx))
         /\ \E c \in OutData :
              Tx!Contents' = Tx!QueueAfter(Tx!Contents, sender.run, TxPop, c)
<1>1. /\ tick \in Ticks /\ rx \in Receivers /\ tx \in Transmitters
      /\ rx.b_state = "IDLE" => rx.counter_reg = HALF
      /\ Rx!FifoInv /\ Tx!FifoInv
      /\ DecoderTypeOK /\ SenderTypeOK /\ PcTypeOK
  BY TypeParts
<1>2. /\ PcClock /\ AsciiDecoder
      /\ tick' = TickNext(tick)
      /\ rx' = RxNext(rx, tick.o_bps_tick, Line)
      /\ Rx!Clock(rx.rx_done, ~fifo_rx.empty, RxData(rx))
      /\ sender' = SenderNext(button = "S")
      /\ tx' = TxNext(tx, tick.o_bps_tick, ~fifo_tx.empty, Tx!PopData)
  BY DEF ClockEdge
<1>3. PICK c \in OutData : Tx!Clock(sender.run, TxPop, c)
  BY DEF ClockEdge
<1>4. Rx!PopData \in Chars /\ Tx!PopData \in Chars
  BY <1>1, PopTypes
<1>5. /\ tick.o_bps_tick \in BOOLEAN /\ rx.rx_done \in BOOLEAN
      /\ sender.run \in BOOLEAN /\ TxPop \in BOOLEAN
      /\ sender.digit_sel \in 0 .. REPORT_LENGTH - 1
  BY <1>1 DEF Ticks, Receivers, SenderTypeOK, TxPop
<1>6. RxData(rx) \in Chars
  <2>1. rx.data_buf \in [1 .. DATA_BIT + 1 -> Bit]
    BY <1>1 DEF Receivers
  <2>2. rx.data_buf \in Seq(Bit) /\ Len(rx.data_buf) = DATA_BIT + 1
    BY <2>1, UartAssumption
  <2>3. SubSeq(rx.data_buf, 1, DATA_BIT) \in Seq(Bit)
        /\ Len(SubSeq(rx.data_buf, 1, DATA_BIT)) = DATA_BIT
    BY <2>2, UartAssumption
  <2> QED
    BY <2>3, LenProperties DEF RxData, Chars
<1>7. c \in Chars
  BY <1>5, PathAssumption DEF OutData
<1>8. /\ Rx!FifoInv'
      /\ Rx!Contents' = Rx!QueueAfter(Rx!Contents, rx.rx_done, ~fifo_rx.empty, RxData(rx))
  BY <1>1, <1>2, <1>5, <1>6, RxStep
<1>9. /\ Tx!FifoInv'
      /\ Tx!Contents' = Tx!QueueAfter(Tx!Contents, sender.run, TxPop, c)
  BY <1>1, <1>3, <1>5, <1>7, TxStep
<1>10. tick' \in Ticks
  BY <1>1, <1>2, TickType
<1>11. rx' \in Receivers /\ (rx'.b_state = "IDLE" => rx'.counter_reg = HALF)
  BY <1>1, <1>2, <1>5, LineType, RxType
<1>12. tx' \in Transmitters
  BY <1>1, <1>2, <1>4, <1>5, TxType
<1>13. DecoderTypeOK'
  BY <1>1, <1>2, <1>4, DecoderType
<1>14. SenderTypeOK'
  BY <1>1, <1>2, SenderType
<1>15. PcTypeOK'
  BY <1>1, <1>2, PcType DEF Transmitters
<1>16. PathTypeOK'
  BY <1>8, <1>9, <1>10, <1>11, <1>12, <1>13, <1>14, <1>15
  DEF PathTypeOK, DecoderTypeOK, SenderTypeOK, PcTypeOK
<1> QED
  BY <1>8, <1>9, <1>16

\* The ranges hold when the board is switched on.
LEMMA InitTypes == Init => PathTypeOK
<1> SUFFICES ASSUME Init PROVE PathTypeOK
  OBVIOUS
<1>1. 0 \in Rx!Place /\ 0 \in Tx!Place
  BY PathAssumption DEF Rx!Place, Tx!Place
<1>2. DecoderReset.UART_DATA_buf \in Chars
  BY ResetTypes
<1>3. /\ fifo_rx = [mem |-> [i \in Rx!Place |-> DecoderReset.UART_DATA_buf],
                    wptr |-> 0, rptr |-> 0, full |-> FALSE, empty |-> TRUE]
      /\ fifo_tx = [mem |-> [i \in Tx!Place |-> DecoderReset.UART_DATA_buf],
                    wptr |-> 0, rptr |-> 0, full |-> FALSE, empty |-> TRUE]
  BY DEF Init, Rx!Fresh, Tx!Fresh
<1>4. Rx!FifoInv
  BY <1>1, <1>2, <1>3 DEF Rx!FifoInv, Rx!Fifos
<1>5. Tx!FifoInv
  BY <1>1, <1>2, <1>3 DEF Tx!FifoInv, Tx!Fifos
<1>6. tx \in Transmitters
  BY <1>2, TxResetType DEF Init
<1>7. tick \in Ticks
  BY UartAssumption DEF Init, TickReset, Ticks
<1>8. rx \in Receivers /\ (rx.b_state = "IDLE" => rx.counter_reg = HALF)
  BY RxResetType DEF Init
<1>9. DecoderTypeOK /\ SenderTypeOK
  BY ResetTypes DEF Init, DecoderTypeOK, SenderTypeOK
<1>10. PcTypeOK
  BY DEF Init, Idle, PcTypeOK
<1> QED
  BY <1>4, <1>5, <1>6, <1>7, <1>8, <1>9, <1>10, TypeParts

\* No register leaves its range, and a FIFO's pointers meet only when it is full
\* or empty, for every width, speed and depth.
THEOREM PathTypeCorrect == Spec => []PathTypeOK
<1>1. PathTypeOK /\ [Next]_path_vars => PathTypeOK'
  <2> SUFFICES ASSUME PathTypeOK, [Next]_path_vars
               PROVE  PathTypeOK'
    OBVIOUS
  <2>1. CASE ClockEdge
    BY <2>1, ClockEdgeTypes
  <2>2. CASE ResetByCommand
    BY <2>2, ResetBoardTypes DEF ResetByCommand
  <2>3. CASE Reset
    BY <2>3, ResetBoardTypes DEF Reset
  <2>4. CASE UNCHANGED path_vars
    BY <2>4 DEF path_vars, board, pc, PathTypeOK, Rx!FifoInv, Tx!FifoInv
  <2> QED
    BY <2>1, <2>2, <2>3, <2>4 DEF Next
<1> QED
  BY <1>1, InitTypes, PTL DEF Spec

\* In every run of the board both FIFOs are queues: what the receiver pushes the
\* decoder gets, and what the sender pushes the transmitter gets, once and in
\* order.
THEOREM FifosAlwaysQueues == Spec => FifosAreQueues
<1>1. PathTypeOK /\ [Next]_path_vars =>
        [\/ ResetBoard
         \/ /\ Rx!Contents' = Rx!QueueAfter(Rx!Contents, rx.rx_done, ~fifo_rx.empty, RxData(rx))
            /\ \E c \in OutData :
                 Tx!Contents' = Tx!QueueAfter(Tx!Contents, sender.run, TxPop, c)]_path_vars
  BY ClockEdgeTypes DEF Next, Reset, ResetByCommand
<1> QED
  BY <1>1, PathTypeCorrect, PTL DEF Spec, FifosAreQueues

-----------------------------------------------------------------------------
(* Time on the two lines, counted down in clocks.                          *)

\* Clocks until the next tick, and until a counter of ticks wraps: the receiver
\* samples then, and the transmitter goes on to its next bit.
UntilTick(t) == IF t.count_reg = 0 THEN 0 ELSE B_VALUE - t.count_reg
Until(t, c)  == (OVERSAMPLE - 1 - c) * B_VALUE + UntilTick(t)

\* The middle of a bit for the reader; and for the receiver, which starts its
\* counter half a bit on.
HALF_BIT     == BIT_CLOCKS \div 2
FIRST_SAMPLE == (OVERSAMPLE - 1 - HALF) * B_VALUE
MIN_LAG      == HALF * B_VALUE

\* A clock of a counter of ticks.
NextCount(t, c) ==
  IF ~t.o_bps_tick THEN c ELSE IF c >= OVERSAMPLE - 1 THEN 0 ELSE c + 1

TickInv(t) == t \in Ticks /\ (t.o_bps_tick <=> t.count_reg = 0)

\* The parts of a bit: half of its ticks, the rest but one, and one tick more.
LEMMA BitParts ==
  /\ HALF \in Nat /\ HALF >= 1 /\ HALF + 1 \in 0 .. OVERSAMPLE - 1
  /\ MIN_LAG \in Nat /\ MIN_LAG >= B_VALUE
  /\ FIRST_SAMPLE \in Nat /\ FIRST_SAMPLE >= B_VALUE
  /\ BIT_CLOCKS \in Nat /\ BIT_CLOCKS = MIN_LAG + B_VALUE + FIRST_SAMPLE
  /\ HALF_BIT \in Nat /\ 1 <= HALF_BIT /\ HALF_BIT < BIT_CLOCKS
  /\ HALF_BIT <= FIRST_SAMPLE + B_VALUE
  /\ HALF_BIT <= BIT_CLOCKS - B_VALUE
<1>1. /\ HALF \in Nat /\ HALF >= 1 /\ HALF + 1 <= OVERSAMPLE - 1
      /\ 2 * HALF <= OVERSAMPLE /\ OVERSAMPLE <= 2 * HALF + 1
  BY UartAssumption DEF HALF
<1> DEFINE h == HALF
           r == OVERSAMPLE - 1 - HALF
           b == B_VALUE
<1>2. h \in Nat /\ r \in Nat /\ b \in Nat /\ h >= 1 /\ r >= 1 /\ b >= 1
      /\ OVERSAMPLE = h + 1 + r /\ (r = h \/ r + 1 = h)
  BY <1>1, UartAssumption
<1>3. /\ MIN_LAG = h * b /\ FIRST_SAMPLE = r * b /\ BIT_CLOCKS = (h + 1 + r) * b
  BY <1>2, Zenon DEF MIN_LAG, FIRST_SAMPLE, BIT_CLOCKS
<1> HIDE DEF h, r, b
<1> DEFINE x == h * b
           y == r * b
<1>4. x \in Nat /\ y \in Nat /\ x >= b /\ y >= b
  <2>1. \A m \in Nat : m >= 1 => m * b \in Nat /\ m * b >= b
    <3>1. \A m \in Nat : m * b \in Nat
      BY <1>2
    <3>2. \A m \in Nat : m >= 1 => m * b = (m - 1) * b + b
      BY <1>2, SMTT(30)
    <3>3. \A m \in Nat : m >= 1 => m - 1 \in Nat
      OBVIOUS
    <3> QED
      BY <1>2, <3>1, <3>2, <3>3
  <2> QED
    BY <1>2, <2>1
<1>5. (h + 1 + r) * b = x + b + y
  BY <1>2
<1>6. y = x \/ y + b = x
  <2>1. CASE r = h
    BY <2>1
  <2>2. CASE r + 1 = h
    <3>1. (r + 1) * b = r * b + b
      BY <1>2
    <3> QED
      BY <2>2, <3>1
  <2> QED
    BY <1>2, <2>1, <2>2
<1> HIDE DEF x, y
<1>7. BIT_CLOCKS = x + b + y /\ MIN_LAG = x /\ FIRST_SAMPLE = y /\ B_VALUE = b
  BY <1>3, <1>5 DEF x, y, b
<1>8. HALF_BIT \in Nat /\ 2 * HALF_BIT <= BIT_CLOCKS /\ BIT_CLOCKS <= 2 * HALF_BIT + 1
  BY <1>2, <1>4, <1>7 DEF HALF_BIT
<1> QED
  BY <1>1, <1>2, <1>4, <1>6, <1>7, <1>8

\* On every clock the time until a counter wraps goes down by one, and from
\* zero to that of a whole bit.
LEMMA UntilStep ==
  ASSUME NEW t, TickInv(t), NEW c \in 0 .. OVERSAMPLE - 1
  PROVE  /\ TickInv(TickNext(t))
         /\ UntilTick(t) \in Nat /\ UntilTick(t) < B_VALUE
         /\ UntilTick(t) = 0 <=> t.o_bps_tick
         /\ UntilTick(TickNext(t)) =
              IF UntilTick(t) = 0 THEN B_VALUE - 1 ELSE UntilTick(t) - 1
         /\ Until(t, c) \in Nat /\ Until(t, c) < BIT_CLOCKS
         /\ Until(t, c) >= UntilTick(t)
         /\ Until(t, c) = 0 <=> t.o_bps_tick /\ c >= OVERSAMPLE - 1
         /\ NextCount(t, c) \in 0 .. OVERSAMPLE - 1
         /\ Until(TickNext(t), NextCount(t, c)) =
              IF Until(t, c) = 0 THEN BIT_CLOCKS - 1 ELSE Until(t, c) - 1
<1> DEFINE g == t.count_reg
           g2 == TickNext(t).count_reg
           u == UntilTick(t)
           u2 == UntilTick(TickNext(t))
           d == OVERSAMPLE - 1 - c
           c2 == NextCount(t, c)
           d2 == OVERSAMPLE - 1 - c2
           b == B_VALUE
<1>1. g \in 0 .. b - 1 /\ b \in Nat /\ b >= 1 /\ t.o_bps_tick \in BOOLEAN
  BY UartAssumption DEF TickInv, Ticks
<1>2. /\ g2 = IF g >= b - 1 THEN 0 ELSE g + 1
      /\ TickNext(t).o_bps_tick = (g >= b - 1)
  BY DEF TickNext
<1>3. TickInv(TickNext(t))
  <2>1. TickNext(t) \in Ticks
    BY TickType DEF TickInv
  <2>2. (g >= b - 1) <=> g2 = 0
    BY <1>1, <1>2
  <2> QED
    BY <1>2, <2>1, <2>2, Zenon DEF TickInv
<1>4. /\ u = IF g = 0 THEN 0 ELSE b - g
      /\ u2 = IF g2 = 0 THEN 0 ELSE b - g2
  BY DEF UntilTick
<1>5. t.o_bps_tick <=> g = 0
  BY DEF TickInv
<1> HIDE DEF g, g2, u, u2, b
<1>6. /\ u \in Nat /\ u < b /\ (u = 0 <=> g = 0)
      /\ u2 = IF u = 0 THEN b - 1 ELSE u - 1
  BY <1>1, <1>2, <1>4
<1>7. u = 0 <=> t.o_bps_tick
  BY <1>5, <1>6, Zenon
<1>8. /\ d \in Nat /\ (d = 0 <=> c >= OVERSAMPLE - 1)
      /\ d <= OVERSAMPLE - 1
  BY UartAssumption
<1>9. /\ u # 0 => c2 = c
      /\ u = 0 /\ d = 0 => c2 = 0
      /\ u = 0 /\ d # 0 => c2 = c + 1
  BY <1>7, <1>8, Zenon DEF NextCount
<1>10. c2 \in 0 .. OVERSAMPLE - 1
  <2> HIDE DEF c2
  <2> QED
    BY <1>6, <1>8, <1>9, UartAssumption
<1>11. /\ Until(t, c) = d * b + u /\ Until(TickNext(t), c2) = d2 * b + u2
       /\ BIT_CLOCKS = OVERSAMPLE * b
  BY Zenon DEF Until, BIT_CLOCKS, u, u2, b
<1>12. /\ d * b \in Nat /\ (d = 0 => d * b = 0) /\ (d # 0 => d * b >= b)
       /\ d # 0 => (d - 1) * b = d * b - b
       /\ (OVERSAMPLE - 1) * b = OVERSAMPLE * b - b /\ OVERSAMPLE * b \in Nat
       /\ d * b <= (OVERSAMPLE - 1) * b
  <2>1. \A m \in Nat : m * b \in Nat
    BY <1>1
  <2>2. \A m \in Nat : m # 0 => (m - 1) * b = m * b - b /\ m - 1 \in Nat
    BY <1>1, SMTT(30)
  <2>3. \A m \in Nat : m # 0 => m * b >= b
    BY <1>1, <2>1, <2>2
  <2>4. \A m, n \in Nat : (m + n) * b = m * b + n * b
    BY <1>1, SMTT(30)
  <2>5. OVERSAMPLE - 1 - d \in Nat /\ OVERSAMPLE \in Nat /\ OVERSAMPLE # 0
    BY <1>8, UartAssumption
  <2>6. (OVERSAMPLE - 1) * b = d * b + (OVERSAMPLE - 1 - d) * b
    <3>1. d + (OVERSAMPLE - 1 - d) = OVERSAMPLE - 1
      BY <1>8, UartAssumption
    <3> QED
      BY <1>8, <2>4, <2>5, <3>1
  <2>7. (OVERSAMPLE - 1 - d) * b \in Nat
    BY <2>1, <2>5, Zenon
  <2>8. d = 0 => d * b = 0
    BY <1>1
  <2>9. d * b \in Nat
    BY <2>1, <1>8, Zenon
  <2>10. (OVERSAMPLE - 1) * b = OVERSAMPLE * b - b /\ OVERSAMPLE * b \in Nat
    BY <2>1, <2>2, <2>5
  <2>11. d * b <= (OVERSAMPLE - 1) * b
    <3> DEFINE p == d * b
               q == (OVERSAMPLE - 1 - d) * b
               s == (OVERSAMPLE - 1) * b
    <3>1. p \in Nat /\ q \in Nat /\ s = p + q
      BY <2>6, <2>7, <2>9
    <3> HIDE DEF p, q, s
    <3>2. p <= s
      BY <3>1
    <3> QED
      BY <3>2 DEF p, s
  <2> QED
    BY <1>8, <2>2, <2>3, <2>8, <2>9, <2>10, <2>11
<1>13. /\ u # 0 => d2 * b = d * b
       /\ u = 0 /\ d = 0 => d2 * b = OVERSAMPLE * b - b
       /\ u = 0 /\ d # 0 => d2 * b = d * b - b
  <2>1. /\ u # 0 => d2 = d
        /\ u = 0 /\ d = 0 => d2 = OVERSAMPLE - 1
        /\ u = 0 /\ d # 0 => d2 = d - 1
    <3> HIDE DEF c2
    <3> QED
      BY <1>8, <1>9, <1>10, UartAssumption
  <2> HIDE DEF d, d2
  <2> QED
    BY <1>12, <2>1, Zenon
<1> DEFINE x == d * b
           x2 == d2 * b
           w == OVERSAMPLE * b
<1>14. /\ x \in Nat /\ w \in Nat /\ x <= w - b /\ (d = 0 <=> x = 0) /\ (x = 0 \/ x >= b)
       /\ u # 0 => x2 = x
       /\ u = 0 /\ x = 0 => x2 = w - b
       /\ u = 0 /\ x # 0 => x2 = x - b
  <2>1. b # 0
    BY <1>1
  <2>2. d = 0 <=> x = 0
    <3>1. d # 0 => x # 0
      <4> DEFINE y == d * b
      <4>1. y \in Nat /\ (d # 0 => y >= b)
        BY <1>12
      <4> HIDE DEF y
      <4>2. d # 0 => y # 0
        BY <1>1, <4>1
      <4> QED
        BY <4>2 DEF y
    <3> QED
      BY <1>12, <3>1
  <2> HIDE DEF d, d2
  <2> QED
    BY <1>12, <1>13, <2>2
<1>15. Until(t, c) = x + u /\ Until(TickNext(t), c2) = x2 + u2 /\ BIT_CLOCKS = w
  BY <1>11
<1>16. x = 0 <=> c >= OVERSAMPLE - 1
  BY <1>8, <1>14
<1> HIDE DEF x, x2, w, c2, d, d2
<1> DEFINE n == Until(t, c)
           n2 == Until(TickNext(t), c2)
<1>17. n = x + u /\ n2 = x2 + u2
  BY <1>15
<1> HIDE DEF n, n2
<1>18. /\ n \in Nat /\ n < BIT_CLOCKS /\ n >= u
       /\ n = 0 <=> u = 0 /\ x = 0
       /\ n2 = IF n = 0 THEN BIT_CLOCKS - 1 ELSE n - 1
  BY <1>1, <1>6, <1>14, <1>15, <1>17
<1>19. n = 0 <=> t.o_bps_tick /\ c >= OVERSAMPLE - 1
  BY <1>7, <1>16, <1>18, Zenon
<1> QED
  BY <1>3, <1>6, <1>7, <1>10, <1>18, <1>19, Zenon DEF n, n2, u, u2, b, c2

-----------------------------------------------------------------------------
(* The receiver, the transmitter and the PC, as what a clock does.         *)

\* A queue of one.
LEMMA OneItem ==
  ASSUME NEW S, NEW q \in Seq(S), Len(q) = 1
  PROVE  q # <<>> /\ Tail(q) = <<>> /\ q = <<q[1]>>
<1>1. q # <<>>
  OBVIOUS
<1>2. Tail(q) \in Seq(S) /\ Len(Tail(q)) = 0
  BY <1>1
<1>3. Tail(q) = <<>>
  BY <1>2, EmptySeq
<1>4. q = <<q[1]>>
  OBVIOUS
<1> QED
  BY <1>1, <1>3, <1>4

\* What a FIFO that is well formed holds.
LEMMA RxHolds ==
  ASSUME Rx!FifoInv
  PROVE  /\ Rx!Contents \in Seq(Chars) /\ Len(Rx!Contents) = Rx!Count
         /\ Len(Rx!Contents) \in 0 .. DEPTH_RX
         /\ fifo_rx.empty <=> Rx!Contents = <<>>
         /\ fifo_rx.full <=> Len(Rx!Contents) = DEPTH_RX
         /\ Rx!Contents # <<>> => Rx!PopData = Rx!Contents[1]
<1>1. RxProofs!DepthOK
  BY PathAssumption DEF RxProofs!DepthOK
<1>2. RxProofs!FifoInv
  BY DEF Rx!FifoInv, Rx!Fifos, Rx!Place,
         RxProofs!FifoInv, RxProofs!Fifos, RxProofs!Place
<1>3. /\ RxProofs!Contents \in Seq(Chars) /\ Len(RxProofs!Contents) = RxProofs!Count
      /\ Len(RxProofs!Contents) \in 0 .. DEPTH_RX
      /\ fifo_rx.empty <=> RxProofs!Contents = <<>>
      /\ fifo_rx.full <=> Len(RxProofs!Contents) = DEPTH_RX
      /\ RxProofs!Contents # <<>> => RxProofs!PopData = RxProofs!Contents[1]
  BY <1>1, <1>2, RxProofs!FlagsTell
<1> QED
  BY <1>3
  DEF Rx!Contents, Rx!Count, Rx!PlaceOf, Rx!PopData,
      RxProofs!Contents, RxProofs!Count, RxProofs!PlaceOf, RxProofs!PopData

\* The same of the other one.
LEMMA TxHolds ==
  ASSUME Tx!FifoInv
  PROVE  /\ Tx!Contents \in Seq(Chars) /\ Len(Tx!Contents) = Tx!Count
         /\ Len(Tx!Contents) \in 0 .. DEPTH_TX
         /\ fifo_tx.empty <=> Tx!Contents = <<>>
         /\ fifo_tx.full <=> Len(Tx!Contents) = DEPTH_TX
         /\ Tx!Contents # <<>> => Tx!PopData = Tx!Contents[1]
<1>1. TxProofs!DepthOK
  BY PathAssumption DEF TxProofs!DepthOK
<1>2. TxProofs!FifoInv
  BY DEF Tx!FifoInv, Tx!Fifos, Tx!Place,
         TxProofs!FifoInv, TxProofs!Fifos, TxProofs!Place
<1>3. /\ TxProofs!Contents \in Seq(Chars) /\ Len(TxProofs!Contents) = TxProofs!Count
      /\ Len(TxProofs!Contents) \in 0 .. DEPTH_TX
      /\ fifo_tx.empty <=> TxProofs!Contents = <<>>
      /\ fifo_tx.full <=> Len(TxProofs!Contents) = DEPTH_TX
      /\ TxProofs!Contents # <<>> => TxProofs!PopData = TxProofs!Contents[1]
  BY <1>1, <1>2, TxProofs!FlagsTell
<1> QED
  BY <1>3
  DEF Tx!Contents, Tx!Count, Tx!PlaceOf, Tx!PopData,
      TxProofs!Contents, TxProofs!Count, TxProofs!PlaceOf, TxProofs!PopData

\* The flag of FIFO_RX, in a form that also speaks of the next state.
LEMMA RxHoldsAlways == Rx!FifoInv => (fifo_rx.empty <=> Rx!Contents = <<>>)
BY RxHolds

\* A shift register, bit by bit.
LEMMA ShiftedBits ==
  ASSUME NEW bits \in [1 .. DATA_BIT + 1 -> Bit], NEW b \in Bit
  PROVE  /\ \A i \in 1 .. DATA_BIT : Shifted(bits, b)[i] = bits[i + 1]
         /\ Shifted(bits, b)[DATA_BIT + 1] = b
<1> DEFINE r == Tail(bits)
<1>1. bits \in Seq(Bit) /\ Len(bits) = DATA_BIT + 1 /\ bits # <<>>
  BY UartAssumption
<1>2. /\ r \in Seq(Bit) /\ Len(r) = DATA_BIT
      /\ \A i \in 1 .. DATA_BIT : r[i] = bits[i + 1]
  BY <1>1, UartAssumption
<1> HIDE DEF r
<1>3. /\ \A i \in 1 .. DATA_BIT : Append(r, b)[i] = r[i]
      /\ Append(r, b)[DATA_BIT + 1] = b
  BY <1>2
<1> QED
  BY <1>2, <1>3 DEF Shifted, r

\* A character with a bit above it.
LEMMA MarkedBits ==
  ASSUME NEW c \in Chars, NEW b \in Bit
  PROVE  /\ \A i \in 1 .. DATA_BIT : Append(c, b)[i] = c[i]
         /\ Append(c, b)[DATA_BIT + 1] = b
<1>1. c \in Seq(Bit) /\ Len(c) = DATA_BIT
  BY UartAssumption DEF Chars
<1> QED
  BY <1>1, UartAssumption

\* What a clock does to the receiver: waiting, it starts on a tick that meets a
\* zero; counting, it only counts until a sample is due; and the sample is the
\* last one when a zero comes out of its register.
ReceiverWaits(r, r2) == r2.b_state = "IDLE" /\ ~r2.rx_done

ReceiverStarts(r, r2) ==
  /\ r2.b_state = "DATA" /\ ~r2.rx_done /\ r2.counter_reg = HALF + 1
  /\ \A i \in 1 .. DATA_BIT + 1 : r2.data_buf[i] = 1

ReceiverCounts(r, r2, t) ==
  /\ r2.b_state = "DATA" /\ ~r2.rx_done /\ r2.data_buf = r.data_buf
  /\ Until(TickNext(t), r2.counter_reg) = Until(t, r.counter_reg) - 1

ReceiverSamples(r, r2, b) ==
  /\ \A i \in 1 .. DATA_BIT : r2.data_buf[i] = r.data_buf[i + 1]
  /\ r2.data_buf[DATA_BIT + 1] = b

\* The four cases of a clock of the receiver, told by the clocks until its
\* next sample.
LEMMA ReceiverClock ==
  ASSUME NEW t, TickInv(t), NEW r \in Receivers, NEW b \in Bit,
         r.b_state = "IDLE" => r.counter_reg = HALF
  PROVE  LET r2 == RxNext(r, t.o_bps_tick, b)
         IN /\ r.b_state = "IDLE" /\ ~(t.o_bps_tick /\ b = 0) => ReceiverWaits(r, r2)
            /\ r.b_state = "IDLE" /\ t.o_bps_tick /\ b = 0 => ReceiverStarts(r, r2)
            /\ r.b_state = "DATA" /\ Until(t, r.counter_reg) # 0 => ReceiverCounts(r, r2, t)
            /\ r.b_state = "DATA" /\ Until(t, r.counter_reg) = 0 =>
                 /\ ReceiverSamples(r, r2, b)
                 /\ r.data_buf[1] = 1 =>
                      /\ r2.b_state = "DATA" /\ ~r2.rx_done
                      /\ Until(TickNext(t), r2.counter_reg) = BIT_CLOCKS - 1
                 /\ r.data_buf[1] # 1 => r2.b_state = "IDLE" /\ r2.rx_done
<1> DEFINE r2 == RxNext(r, t.o_bps_tick, b)
           bps == t.o_bps_tick
           full == r.counter_reg >= OVERSAMPLE - 1
           n == NextCount(t, r.counter_reg)
<1>1. /\ r.b_state \in {"IDLE", "DATA"} /\ r.counter_reg \in 0 .. OVERSAMPLE - 1
      /\ r.data_buf \in [1 .. DATA_BIT + 1 -> Bit] /\ r.rx_done \in BOOLEAN
      /\ bps \in BOOLEAN
  BY DEF Receivers, TickInv, Ticks
<1>2. /\ Until(t, r.counter_reg) = 0 <=> bps /\ full
      /\ Until(TickNext(t), n) =
           IF Until(t, r.counter_reg) = 0 THEN BIT_CLOCKS - 1
                                          ELSE Until(t, r.counter_reg) - 1
  BY <1>1, UntilStep
<1>3. ASSUME r.b_state = "IDLE", ~(bps /\ b = 0)
      PROVE  ReceiverWaits(r, r2)
  <2>1. r2 = [RxReset EXCEPT !.counter_reg = r.counter_reg]
    BY <1>3 DEF RxNext
  <2> QED
    BY <2>1, Zenon DEF RxReset, ReceiverWaits
<1>4. ASSUME r.b_state = "IDLE", bps, b = 0
      PROVE  ReceiverStarts(r, r2)
  <2>1. r2 = [RxReset EXCEPT !.b_state = "DATA", !.counter_reg = r.counter_reg + 1]
    BY <1>4 DEF RxNext
  <2>2. /\ r2.b_state = "DATA" /\ r2.rx_done = FALSE
        /\ r2.counter_reg = HALF + 1 /\ r2.data_buf = Ones(DATA_BIT + 1)
    BY <1>4, <2>1, Zenon DEF RxReset
  <2> QED
    BY <2>2 DEF ReceiverStarts, Ones
<1>5. ASSUME r.b_state = "DATA", Until(t, r.counter_reg) # 0
      PROVE  ReceiverCounts(r, r2, t)
  <2>1. CASE bps
    <3>1. ~full /\ r.counter_reg < OVERSAMPLE - 1
      BY <1>1, <1>2, <1>5, <2>1, UartAssumption
    <3>2. r2 = [r EXCEPT !.counter_reg = @ + 1, !.rx_done = FALSE]
      BY <1>5, <2>1, <3>1 DEF RxNext
    <3>3. n = r.counter_reg + 1
      BY <2>1, <3>1, Zenon DEF NextCount
    <3>4. /\ r2.b_state = "DATA" /\ r2.rx_done = FALSE
          /\ r2.counter_reg = n /\ r2.data_buf = r.data_buf
      BY <1>5, <3>2, <3>3, Zenon DEF Receivers
    <3> QED
      BY <1>2, <1>5, <3>4, Zenon DEF ReceiverCounts
  <2>2. CASE ~bps
    <3>1. r2 = [r EXCEPT !.rx_done = FALSE]
      BY <1>5, <2>2 DEF RxNext
    <3>2. n = r.counter_reg
      BY <2>2, Zenon DEF NextCount
    <3>3. /\ r2.b_state = "DATA" /\ r2.rx_done = FALSE
          /\ r2.counter_reg = n /\ r2.data_buf = r.data_buf
      BY <1>5, <3>1, <3>2, Zenon DEF Receivers
    <3> QED
      BY <1>2, <1>5, <3>3, Zenon DEF ReceiverCounts
  <2> QED
    BY <2>1, <2>2
<1>6. ASSUME r.b_state = "DATA", Until(t, r.counter_reg) = 0
      PROVE  /\ ReceiverSamples(r, r2, b)
             /\ r.data_buf[1] = 1 =>
                  /\ r2.b_state = "DATA" /\ ~r2.rx_done
                  /\ Until(TickNext(t), r2.counter_reg) = BIT_CLOCKS - 1
             /\ r.data_buf[1] # 1 => r2.b_state = "IDLE" /\ r2.rx_done
  <2>1. bps /\ full
    BY <1>2, <1>6, Zenon
  <2>2. ~(r.counter_reg < OVERSAMPLE - 1)
    BY <1>1, <2>1, UartAssumption
  <2>3. r2 = RxSample(r, b)
    BY <1>6, <2>1, <2>2 DEF RxNext
  <2>4. /\ r2.b_state = IF r.data_buf[1] = 1 THEN "DATA" ELSE "IDLE"
        /\ r2.counter_reg = IF r.data_buf[1] = 1 THEN 0 ELSE HALF
        /\ r2.data_buf = Shifted(r.data_buf, b)
        /\ r2.rx_done = ~(r.data_buf[1] = 1)
    BY <2>3 DEF RxSample
  <2>5. n = 0
    BY <2>1, Zenon DEF NextCount
  <2>6. ReceiverSamples(r, r2, b)
    BY <1>1, <2>4, ShiftedBits DEF ReceiverSamples
  <2> QED
    BY <1>2, <1>6, <2>4, <2>5, <2>6, Zenon
<1> QED
  BY <1>3, <1>4, <1>5, <1>6, Zenon

\* And to the transmitter: its counter always runs; it takes the head of the
\* FIFO while it waits, begins the start bit when its counter wraps, and shifts
\* out one bit after the other until only the marker is left.
LEMMA TransmitterClock ==
  ASSUME NEW t, TickInv(t), NEW r \in Transmitters, NEW go \in BOOLEAN, NEW c \in Chars
  PROVE  LET r2   == TxNext(r, t.o_bps_tick, go, c)
             over == Until(t, r.bps_count) = 0
         IN /\ Until(TickNext(t), r2.bps_count) =
                 IF over THEN BIT_CLOCKS - 1 ELSE Until(t, r.bps_count) - 1
            /\ r.state = "IDLE" =>
                 /\ r2.state = (IF go THEN "START" ELSE "IDLE")
                 /\ r2.tx = 1 /\ r2.tx_busy = go /\ r2.data_reg = Append(c, 0)
            /\ r.state = "START" =>
                 /\ r2.state = (IF over THEN "S0" ELSE "START")
                 /\ r2.tx = (IF over THEN 0 ELSE 1) /\ r2.tx_busy
                 /\ r2.data_reg = r.data_reg
            /\ r.state = "S0" /\ over /\ ~AllSent(r.data_reg) =>
                 /\ r2.state = "S0" /\ r2.tx = r.data_reg[1] /\ r2.tx_busy
                 /\ r2.data_reg = Shifted(r.data_reg, 1)
            /\ r.state = "S0" /\ over /\ AllSent(r.data_reg) =>
                 r2.state = "IDLE" /\ r2.tx = 1 /\ ~r2.tx_busy
            /\ r.state = "S0" /\ ~over =>
                 /\ r2.state = "S0" /\ r2.tx = r.tx /\ r2.tx_busy
                 /\ r2.data_reg = r.data_reg
<1> DEFINE bps == t.o_bps_tick
           full == r.bps_count >= OVERSAMPLE - 1
           n == NextCount(t, r.bps_count)
           u == [r EXCEPT !.bps_count = TxCount(r, bps)]
           over == Until(t, r.bps_count) = 0
           r2 == TxNext(r, t.o_bps_tick, go, c)
<1>1. /\ r.state \in {"IDLE", "START", "S0"} /\ r.bps_count \in 0 .. OVERSAMPLE - 1
      /\ r.data_reg \in [1 .. DATA_BIT + 1 -> Bit] /\ bps \in BOOLEAN
      /\ r.tx_busy \in BOOLEAN
  BY DEF Transmitters, TickInv, Ticks
<1>2. /\ over <=> bps /\ full
      /\ Until(TickNext(t), n) =
           IF over THEN BIT_CLOCKS - 1 ELSE Until(t, r.bps_count) - 1
  BY <1>1, UntilStep
<1>3. TxCount(r, bps) = n
  BY Zenon DEF TxCount, NextCount
<1>4. /\ u.bps_count = n /\ u.data_reg = r.data_reg /\ u.tx = r.tx /\ u.state = r.state
      /\ DOMAIN u = {"state", "bps_count", "data_reg", "tx", "tx_busy"}
  BY <1>3, Zenon DEF Transmitters
<1> HIDE DEF n, over, full
<1>5. bps /\ full <=> over
  BY <1>2, Zenon
<1>6. CASE r.state = "IDLE"
  <2>1. r2 = [u EXCEPT !.state = IF go THEN "START" ELSE "IDLE", !.tx = 1,
                       !.tx_busy = go, !.data_reg = Append(c, 0)]
    BY <1>6 DEF TxNext
  <2> HIDE DEF u, r2
  <2>2. /\ r2.bps_count = n /\ r2.state = (IF go THEN "START" ELSE "IDLE")
        /\ r2.tx = 1 /\ r2.tx_busy = go /\ r2.data_reg = Append(c, 0)
    BY <1>4, <2>1, Zenon
  <2> QED
    BY <1>2, <1>6, <2>2, Zenon DEF r2, over
<1>7. CASE r.state = "START"
  <2>1. r2 = [u EXCEPT !.state = IF bps /\ full THEN "S0" ELSE "START",
                       !.tx = IF bps /\ full THEN 0 ELSE 1, !.tx_busy = TRUE]
    BY <1>7 DEF TxNext, full
  <2> HIDE DEF u, r2
  <2>2. /\ r2.bps_count = n /\ r2.state = (IF over THEN "S0" ELSE "START")
        /\ r2.tx = (IF over THEN 0 ELSE 1) /\ r2.tx_busy = TRUE
        /\ r2.data_reg = r.data_reg
    BY <1>4, <1>5, <2>1, Zenon
  <2> QED
    BY <1>2, <1>7, <2>2, Zenon DEF r2, over
<1>8. CASE r.state = "S0" /\ over /\ ~AllSent(r.data_reg)
  <2>1. r2 = [u EXCEPT !.tx = r.data_reg[1], !.data_reg = Shifted(@, 1),
                       !.tx_busy = TRUE]
    BY <1>5, <1>8 DEF TxNext, full
  <2> HIDE DEF u, r2
  <2>2. /\ r2.bps_count = n /\ r2.state = "S0" /\ r2.tx = r.data_reg[1]
        /\ r2.tx_busy = TRUE /\ r2.data_reg = Shifted(r.data_reg, 1)
    BY <1>4, <1>8, <2>1, Zenon
  <2> QED
    BY <1>2, <1>8, <2>2, Zenon DEF r2, over
<1>9. CASE r.state = "S0" /\ over /\ AllSent(r.data_reg)
  <2>1. r2 = [u EXCEPT !.state = "IDLE", !.tx = 1, !.tx_busy = FALSE,
                       !.data_reg = Append(c, 1)]
    BY <1>5, <1>9 DEF TxNext, full
  <2> HIDE DEF u, r2
  <2>2. /\ r2.bps_count = n /\ r2.state = "IDLE" /\ r2.tx = 1 /\ r2.tx_busy = FALSE
    BY <1>4, <1>9, <2>1, Zenon
  <2> QED
    BY <1>2, <1>9, <2>2, Zenon DEF r2, over
<1>10. CASE r.state = "S0" /\ ~over
  <2>1. r2 = [u EXCEPT !.tx_busy = TRUE]
    BY <1>5, <1>10 DEF TxNext, full
  <2> HIDE DEF u, r2
  <2>2. /\ r2.bps_count = n /\ r2.state = "S0" /\ r2.tx = r.tx /\ r2.tx_busy = TRUE
        /\ r2.data_reg = r.data_reg
    BY <1>4, <1>10, <2>1, Zenon
  <2> QED
    BY <1>2, <1>10, <2>2, Zenon DEF r2, over
<1> QED
  BY <1>1, <1>6, <1>7, <1>8, <1>9, <1>10, Zenon

\* The i-th bit of a character on the line, its start and stop bits included;
\* and a line on which only the last n of them are left to send.
FrameBit(c, i) == IF i = 1 THEN 0 ELSE IF i = DATA_BIT + 2 THEN 1 ELSE c[i - 1]

Sending(h, c, n) ==
  /\ Len(h.bits) = n
  /\ \A i \in 1 .. n : h.bits[i] = FrameBit(c, DATA_BIT + 2 - n + i)

\* The frame of a character: start bit, its bits, stop bit.
LEMMA FrameBits ==
  ASSUME NEW c \in Chars
  PROVE  LET f == <<0>> \o c \o <<1>>
         IN /\ f \in Seq(Bit) /\ Len(f) = DATA_BIT + 2
            /\ \A i \in 1 .. DATA_BIT + 2 : f[i] = FrameBit(c, i)
            /\ SubSeq(f, 2, DATA_BIT + 1) = c
<1> DEFINE e == <<0>> \o c
           f == e \o <<1>>
<1>1. /\ c \in Seq(Bit) /\ Len(c) = DATA_BIT /\ <<0>> \in Seq(Bit) /\ <<1>> \in Seq(Bit)
      /\ Len(<<0>>) = 1 /\ Len(<<1>>) = 1 /\ <<0>>[1] = 0 /\ <<1>>[1] = 1
  BY UartAssumption DEF Chars, Bit
<1>2. /\ e \in Seq(Bit) /\ Len(e) = DATA_BIT + 1
      /\ e[1] = 0 /\ \A i \in 2 .. DATA_BIT + 1 : e[i] = c[i - 1]
  BY <1>1, UartAssumption
<1> HIDE DEF e
<1>3. /\ f \in Seq(Bit) /\ Len(f) = DATA_BIT + 2
      /\ \A i \in 1 .. DATA_BIT + 1 : f[i] = e[i]
      /\ f[DATA_BIT + 2] = 1
  BY <1>1, <1>2, UartAssumption
<1> HIDE DEF f
<1>4. \A i \in 1 .. DATA_BIT + 2 : f[i] = FrameBit(c, i)
  BY <1>2, <1>3, UartAssumption DEF FrameBit
<1> DEFINE s == SubSeq(f, 2, DATA_BIT + 1)
<1>5. s = [i \in 1 .. DATA_BIT |-> f[i + 1]]
  <2>1. s \in Seq(Bit) /\ Len(s) = DATA_BIT /\ \A i \in 1 .. DATA_BIT : s[i] = f[2 + i - 1]
    BY <1>3, UartAssumption
  <2> HIDE DEF s
  <2>2. s = [i \in 1 .. DATA_BIT |-> s[i]]
    BY <2>1, UartAssumption
  <2> QED
    BY <2>1, <2>2, UartAssumption
<1>6. c = [i \in 1 .. DATA_BIT |-> f[i + 1]]
  BY <1>2, <1>3, UartAssumption DEF Chars
<1> QED
  BY <1>3, <1>4, <1>5, <1>6 DEF f, e, s

\* The line is high when nothing is sent and in every stop bit.
HostOK(h) ==
  \/ h = Idle
  \/ /\ h \in [bits : Seq(Bit), left : Nat \ {0}]
     /\ Len(h.bits) \in 1 .. DATA_BIT + 2 /\ h.bits[Len(h.bits)] = 1

HostGoesOn  == host'.bits = host.bits /\ host'.left = host.left - 1 /\ ~Begins
HostNextBit ==
  /\ Len(host'.bits) = Len(host.bits) - 1
  /\ \A i \in 1 .. Len(host.bits) - 1 : host'.bits[i] = host.bits[i + 1]
  /\ host'.left = BIT_CLOCKS /\ ~Begins
HostStops   == host' = Idle /\ ~Begins
HostBegins(c) ==
  /\ Begins /\ Sending(host', c, DATA_BIT + 2)
  /\ SubSeq(host'.bits, 2, DATA_BIT + 1) = c
  /\ host'.left \in Nat /\ host'.left >= BIT_CLOCKS - 1 /\ host'.left <= BIT_CLOCKS + 1

\* What the PC begins is the frame of a character, one clock off at most.
LEMMA BeginningIs ==
  ASSUME NEW h \in Beginning
  PROVE  \E c \in Chars : /\ Sending(h, c, DATA_BIT + 2)
                          /\ SubSeq(h.bits, 2, DATA_BIT + 1) = c
                          /\ h.left \in Nat \ {0}
                          /\ h.left >= BIT_CLOCKS - 1 /\ h.left <= BIT_CLOCKS + 1
                          /\ HostOK(h) /\ h # Idle
<1>1. PICK c \in Sent, slip \in 0 .. 2 :
        h = [bits |-> <<0>> \o c \o <<1>>, left |-> BIT_CLOCKS + slip - 1]
  BY DEF Beginning
<1> DEFINE f == <<0>> \o c \o <<1>>
<1>2. c \in Chars
  BY PathAssumption
<1>3. /\ f \in Seq(Bit) /\ Len(f) = DATA_BIT + 2
      /\ \A i \in 1 .. DATA_BIT + 2 : f[i] = FrameBit(c, i)
      /\ SubSeq(f, 2, DATA_BIT + 1) = c
  BY <1>2, FrameBits
<1> HIDE DEF f
<1>4. h.bits = f /\ h.left = BIT_CLOCKS + slip - 1 /\ h = [bits |-> f, left |-> h.left]
  BY <1>1 DEF f
<1>5. BIT_CLOCKS \in Nat /\ BIT_CLOCKS >= 2
  BY BitParts, UartAssumption
<1>6. h.left \in Nat \ {0} /\ h.left >= BIT_CLOCKS - 1 /\ h.left <= BIT_CLOCKS + 1
  BY <1>4, <1>5
<1>7. Sending(h, c, DATA_BIT + 2)
  <2>1. \A i \in 1 .. DATA_BIT + 2 : DATA_BIT + 2 - (DATA_BIT + 2) + i = i
    BY UartAssumption
  <2> QED
    BY <1>3, <1>4, <2>1 DEF Sending
<1>8. f[DATA_BIT + 2] = 1
  BY <1>3, UartAssumption DEF FrameBit
<1>9. Len(f) \in 1 .. DATA_BIT + 2
  BY <1>3, UartAssumption
<1>10. HostOK(h)
  BY <1>3, <1>4, <1>6, <1>8, <1>9 DEF HostOK
<1>11. h # Idle
  <2>1. Idle.left = 0
    BY DEF Idle
  <2> QED
    BY <1>6, <2>1
<1> QED
  BY <1>2, <1>3, <1>4, <1>6, <1>7, <1>10, <1>11

\* The PC's next clock.
LEMMA HostClock ==
  ASSUME HostOK(host), host' \in HostNext
  PROVE  /\ HostOK(host')
         /\ host.left > 1 => HostGoesOn
         /\ host.left <= 1 /\ Len(host.bits) > 1 => HostNextBit
         /\ host.left <= 1 /\ Len(host.bits) <= 1 =>
              HostStops \/ (inStep /\ \E c \in Chars : HostBegins(c))
<1>1. /\ host = Idle => host.left = 0 /\ host.bits = <<>> /\ Len(host.bits) = 0
      /\ host.left \in Nat /\ host.bits \in Seq(Bit) /\ Len(host.bits) \in Nat
      /\ host \in [bits : Seq(Bit), left : Nat]
  <2>1. CASE host = Idle
    BY <2>1 DEF Idle
  <2>2. CASE host # Idle
    BY <2>2 DEF HostOK
  <2> QED
    BY <2>1, <2>2
<1>2. ASSUME host.left > 1
      PROVE  HostGoesOn /\ HostOK(host')
  <2>1. host' = [host EXCEPT !.left = @ - 1]
    BY <1>2 DEF HostNext
  <2>2. host'.bits = host.bits /\ host'.left = host.left - 1
        /\ host' = [bits |-> host.bits, left |-> host.left - 1]
    BY <1>1, <2>1
  <2>3. ~Begins
    BY <1>1, <1>2 DEF Begins
  <2>4. host.left - 1 \in Nat \ {0} /\ host # Idle
    BY <1>1, <1>2
  <2> QED
    BY <1>1, <2>2, <2>3, <2>4 DEF HostOK, HostGoesOn
<1>3. ASSUME host.left <= 1, Len(host.bits) > 1
      PROVE  HostNextBit /\ HostOK(host')
  <2> DEFINE b == host.bits
             n == Len(host.bits)
             r == Tail(host.bits)
  <2>1. host' = [bits |-> r, left |-> BIT_CLOCKS]
    BY <1>1, <1>3 DEF HostNext
  <2>2. n \in 2 .. DATA_BIT + 2 /\ b[n] = 1 /\ b \in Seq(Bit) /\ b # <<>>
    BY <1>1, <1>3, UartAssumption DEF HostOK
  <2>3. /\ r \in Seq(Bit) /\ Len(r) = n - 1
        /\ \A i \in 1 .. n - 1 : r[i] = b[i + 1]
    BY <2>2
  <2> HIDE DEF r, b, n
  <2>4. ~Begins
    BY <1>1, <1>3 DEF Begins
  <2>5. BIT_CLOCKS \in Nat \ {0}
    BY BitParts, UartAssumption
  <2>6. r[Len(r)] = 1 /\ Len(r) \in 1 .. DATA_BIT + 2
    BY <2>2, <2>3, UartAssumption
  <2> QED
    BY <2>1, <2>3, <2>4, <2>5, <2>6 DEF HostOK, HostNextBit, n, b
<1>4. ASSUME host.left <= 1, Len(host.bits) <= 1
      PROVE  /\ HostStops \/ (inStep /\ \E c \in Chars : HostBegins(c))
             /\ HostOK(host')
  <2>1. host' = Idle \/ (inStep /\ host' \in Beginning)
    BY <1>1, <1>4 DEF HostNext
  <2>2. CASE host' = Idle
    <3>1. ~Begins
      BY <2>2, BeginningIs DEF Begins
    <3> QED
      BY <2>2, <3>1 DEF HostStops, HostOK
  <2>3. CASE inStep /\ host' \in Beginning
    <3>1. Begins
      BY <1>4, <2>3 DEF Begins
    <3>2. PICK c \in Chars : /\ Sending(host', c, DATA_BIT + 2)
                             /\ SubSeq(host'.bits, 2, DATA_BIT + 1) = c
                             /\ host'.left \in Nat \ {0}
                             /\ host'.left >= BIT_CLOCKS - 1 /\ host'.left <= BIT_CLOCKS + 1
                             /\ HostOK(host') /\ host' # Idle
      BY <2>3, BeginningIs
    <3>3. HostBegins(c)
      BY <3>1, <3>2 DEF HostBegins
    <3> QED
      BY <2>3, <3>2, <3>3
  <2> QED
    BY <2>1, <2>2, <2>3
<1> QED
  <2>1. (host.left > 1 \/ host.left <= 1) /\ (Len(host.bits) > 1 \/ Len(host.bits) <= 1)
    BY <1>1
  <2> QED
    BY <1>2, <1>3, <1>4, <2>1, Zenon

\* The line is low only while a character that is not yet at its stop bit is
\* sent.
LEMMA LineIs ==
  ASSUME HostOK(host)
  PROVE  /\ Line \in Bit /\ Len(host.bits) \in Nat /\ host.left \in Nat
         /\ Len(host.bits) <= 1 => Line = 1
         /\ Len(host.bits) >= 1 => Line = host.bits[1] /\ host.left >= 1
         /\ Len(host.bits) = 0 => host = Idle
<1>1. CASE host = Idle
  BY <1>1 DEF Idle, Line, Bit
<1>2. CASE host # Idle
  <2>1. /\ host.bits \in Seq(Bit) /\ Len(host.bits) >= 1 /\ host.left \in Nat \ {0}
        /\ host.bits[Len(host.bits)] = 1 /\ host.bits # <<>> /\ Len(host.bits) \in Nat
    BY <1>2 DEF HostOK
  <2>2. Line = host.bits[1] /\ host.bits[1] \in Bit
    BY <2>1 DEF Line
  <2> QED
    BY <2>1, <2>2
<1> QED
  BY <1>1, <1>2

-----------------------------------------------------------------------------
(* From the line to the button.                                            *)

\* What a clock edge does on the way in.
LEMMA EdgeIn ==
  ASSUME PathTypeOK, TickInv(tick), HostOK(host), ClockEdge
  PROVE  /\ PathTypeOK' /\ TickInv(tick') /\ HostOK(host')
         /\ tick' = TickNext(tick) /\ rx' = RxNext(rx, tick.o_bps_tick, Line)
         /\ host' \in HostNext
         /\ decoder.state = "DATA" =>
              /\ decoder'.state = "IDLE" /\ button' = CommandOf[decoder.UART_DATA_buf]
         /\ decoder.state = "IDLE" => button' = "none"
         /\ decoder.state = "IDLE" /\ fifo_rx.empty => decoder'.state = "IDLE"
         /\ decoder.state = "IDLE" /\ ~fifo_rx.empty =>
              /\ decoder'.state = "DATA" /\ decoder'.UART_DATA_buf = Rx!Contents[1]
         /\ fifo_rx.empty /\ ~rx.rx_done => fifo_rx'.empty
         /\ fifo_rx.empty /\ rx.rx_done => ~fifo_rx'.empty /\ Rx!Contents' = <<RxData(rx)>>
         /\ Len(Rx!Contents) = 1 /\ ~rx.rx_done => fifo_rx'.empty
<1> DEFINE q  == Rx!Contents
           q2 == Rx!Contents'
<1>1. /\ PathTypeOK'
      /\ q2 = Rx!QueueAfter(q, rx.rx_done, ~fifo_rx.empty, RxData(rx))
  BY ClockEdgeTypes
<1>2. /\ Rx!FifoInv /\ Rx!FifoInv'
      /\ decoder \in [state : {"IDLE", "DATA"}, UART_DATA_buf : Chars]
      /\ rx.rx_done \in BOOLEAN /\ RxData(rx) = RxData(rx)
  BY <1>1 DEF PathTypeOK, Receivers
<1>3. /\ q \in Seq(Chars) /\ Len(q) \in 0 .. DEPTH_RX
      /\ fifo_rx.empty <=> q = <<>>
      /\ q # <<>> => Rx!PopData = q[1]
  BY <1>2, RxHolds
<1>4. fifo_rx'.empty <=> q2 = <<>>
  <2>1. (Rx!FifoInv => (fifo_rx.empty <=> Rx!Contents = <<>>))'
    BY <1>2, RxHoldsAlways, PTL
  <2> QED
    BY <1>2, <2>1
<1>5. /\ tick' = TickNext(tick) /\ rx' = RxNext(rx, tick.o_bps_tick, Line)
      /\ host' \in HostNext /\ AsciiDecoder
  BY DEF ClockEdge, PcClock
<1>6. TickInv(tick') /\ HostOK(host')
  <2>1. 0 \in 0 .. OVERSAMPLE - 1
    BY UartAssumption
  <2> QED
    BY <1>5, <2>1, UntilStep, HostClock
<1>7. /\ decoder.state = "DATA" =>
              /\ decoder'.state = "IDLE" /\ button' = CommandOf[decoder.UART_DATA_buf]
      /\ decoder.state = "IDLE" => button' = "none"
      /\ decoder.state = "IDLE" /\ fifo_rx.empty => decoder'.state = "IDLE"
      /\ decoder.state = "IDLE" /\ ~fifo_rx.empty =>
           /\ decoder'.state = "DATA" /\ decoder'.UART_DATA_buf = Rx!PopData
  BY <1>2, <1>5, Zenon DEF AsciiDecoder
<1> HIDE DEF q, q2
<1>8. /\ q = <<>> /\ ~rx.rx_done => q2 = <<>>
      /\ q = <<>> /\ rx.rx_done => q2 = <<RxData(rx)>>
      /\ Len(q) = 1 /\ ~rx.rx_done => q2 = <<>>
  <2>1. Len(<<>>) < DEPTH_RX
    BY PathAssumption
  <2>2. Append(<<>>, RxData(rx)) = <<RxData(rx)>>
    OBVIOUS
  <2>3. CASE q = <<>>
    BY <1>1, <1>3, <2>1, <2>2, <2>3, Zenon DEF Rx!QueueAfter
  <2>4. CASE Len(q) = 1 /\ ~rx.rx_done
    <3>1. q # <<>> /\ Tail(q) = <<>>
      BY <1>3, <2>4, OneItem
    <3>2. q2 = Tail(q)
      BY <1>1, <1>3, <2>4, <3>1, Zenon DEF Rx!QueueAfter
    <3> QED
      BY <2>4, <3>1, <3>2
  <2> QED
    BY <2>3, <2>4, Zenon
<1>9. <<RxData(rx)>> # <<>>
  OBVIOUS
<1>10. decoder.state = "IDLE" /\ ~fifo_rx.empty => decoder'.UART_DATA_buf = q[1]
  BY <1>3, <1>7, Zenon
<1>11. /\ fifo_rx.empty /\ ~rx.rx_done => fifo_rx'.empty
       /\ fifo_rx.empty /\ rx.rx_done => ~fifo_rx'.empty /\ q2 = <<RxData(rx)>>
       /\ Len(q) = 1 /\ ~rx.rx_done => fifo_rx'.empty
  BY <1>3, <1>4, <1>8, <1>9, Zenon
<1> QED
  BY <1>1, <1>5, <1>6, <1>7, <1>10, <1>11, Zenon DEF q, q2

Waiting  == rx.b_state = "IDLE"
NoneDone == ~rx.rx_done /\ fifo_rx.empty /\ decoder.state = "IDLE"

\* A character that has been received is decoded before the receiver can have
\* another one, whatever is on the line: its register has to fill first.
SpacedInv ==
  /\ rx.rx_done => /\ Waiting /\ fifo_rx.empty /\ decoder.state = "IDLE"
                   /\ button = "none"
  /\ ~fifo_rx.empty => /\ decoder.state = "IDLE" /\ Len(Rx!Contents) = 1
                       /\ Waiting \/ \A i \in 1 .. DATA_BIT + 1 : rx.data_buf[i] = 1
                       /\ button = "none"
  /\ decoder.state = "DATA" => /\ fifo_rx.empty
                               /\ Waiting \/ rx.data_buf[1] = 1
                               /\ button = "none"

\* What a clock makes of the receiver, without the times.
LEMMA ReceiverEdge ==
  ASSUME PathTypeOK, TickInv(tick), HostOK(host), ClockEdge
  PROVE  /\ Waiting => /\ ~rx'.rx_done
                       /\ Waiting' \/ \A i \in 1 .. DATA_BIT + 1 : rx'.data_buf[i] = 1
         /\ ~Waiting =>
              \/ /\ rx'.data_buf = rx.data_buf /\ ~rx'.rx_done /\ ~Waiting'
              \/ /\ \A i \in 1 .. DATA_BIT : rx'.data_buf[i] = rx.data_buf[i + 1]
                 /\ rx.data_buf[1] = 1 => ~rx'.rx_done /\ ~Waiting'
                 /\ rx.data_buf[1] # 1 => rx'.rx_done /\ Waiting'
         /\ Waiting <=> rx.b_state # "DATA"
         /\ Waiting' <=> rx'.b_state # "DATA"
<1>1. /\ rx \in Receivers /\ rx.b_state \in {"IDLE", "DATA"}
      /\ rx.b_state = "IDLE" => rx.counter_reg = HALF
      /\ tick.o_bps_tick \in BOOLEAN
  BY DEF PathTypeOK, Receivers, Ticks
<1>2. rx' = RxNext(rx, tick.o_bps_tick, Line) /\ Line \in Bit
  BY EdgeIn, LineIs
<1>3. (rx.b_state \in {"IDLE", "DATA"})'
  BY EdgeIn DEF PathTypeOK, Receivers
<1>4. /\ rx.b_state = "IDLE" /\ ~(tick.o_bps_tick /\ Line = 0) => ReceiverWaits(rx, rx')
      /\ rx.b_state = "IDLE" /\ tick.o_bps_tick /\ Line = 0 => ReceiverStarts(rx, rx')
      /\ rx.b_state = "DATA" /\ Until(tick, rx.counter_reg) # 0 => ReceiverCounts(rx, rx', tick)
      /\ rx.b_state = "DATA" /\ Until(tick, rx.counter_reg) = 0 =>
           /\ ReceiverSamples(rx, rx', Line)
           /\ rx.data_buf[1] = 1 => rx'.b_state = "DATA" /\ ~rx'.rx_done
           /\ rx.data_buf[1] # 1 => rx'.b_state = "IDLE" /\ rx'.rx_done
  BY <1>1, <1>2, ReceiverClock, Zenon
<1> QED
  BY <1>1, <1>3, <1>4, Zenon
  DEF Waiting, ReceiverWaits, ReceiverStarts, ReceiverCounts, ReceiverSamples

\* A clock keeps characters apart, whatever is on the line.
LEMMA SpacedStep ==
  ASSUME PathTypeOK, TickInv(tick), HostOK(host), SpacedInv, ClockEdge
  PROVE  SpacedInv'
<1>1. /\ decoder.state = "DATA" => decoder'.state = "IDLE"
      /\ decoder.state = "IDLE" => button' = "none"
      /\ decoder.state = "IDLE" /\ fifo_rx.empty => decoder'.state = "IDLE"
      /\ fifo_rx.empty /\ ~rx.rx_done => fifo_rx'.empty
      /\ fifo_rx.empty /\ rx.rx_done => ~fifo_rx'.empty /\ Rx!Contents' = <<RxData(rx)>>
      /\ Len(Rx!Contents) = 1 /\ ~rx.rx_done => fifo_rx'.empty
      /\ decoder.state \in {"IDLE", "DATA"}
  BY EdgeIn DEF PathTypeOK
<1>2. Len(<<RxData(rx)>>) = 1
  OBVIOUS
<1>3. 1 \in 1 .. DATA_BIT + 1 /\ 1 \in 1 .. DATA_BIT /\ 1 + 1 \in 1 .. DATA_BIT + 1
  BY UartAssumption
<1>4. CASE rx.rx_done
  <2>1. /\ Waiting /\ fifo_rx.empty /\ decoder.state = "IDLE" /\ button = "none"
    BY <1>4 DEF SpacedInv
  <2>2. /\ ~rx'.rx_done /\ (Waiting' \/ \A i \in 1 .. DATA_BIT + 1 : rx'.data_buf[i] = 1)
    BY <2>1, ReceiverEdge
  <2>3. decoder'.state = "IDLE" /\ button' = "none" /\ Rx!Contents' = <<RxData(rx)>>
    BY <1>1, <1>4, <2>1
  <2> QED
    BY <1>2, <2>2, <2>3 DEF SpacedInv, Waiting
<1>5. CASE ~fifo_rx.empty
  <2>1. /\ decoder.state = "IDLE" /\ Len(Rx!Contents) = 1 /\ ~rx.rx_done
        /\ Waiting \/ \A i \in 1 .. DATA_BIT + 1 : rx.data_buf[i] = 1
    BY <1>5 DEF SpacedInv
  <2>2. fifo_rx'.empty /\ button' = "none"
    BY <1>1, <2>1
  <2>3. ~rx'.rx_done /\ (Waiting' \/ rx'.data_buf[1] = 1)
    <3>1. CASE Waiting
      BY <1>3, <3>1, ReceiverEdge
    <3>2. CASE ~Waiting
      <4>1. rx.data_buf[1] = 1 /\ rx.data_buf[1 + 1] = 1
        BY <1>3, <2>1, <3>2
      <4> QED
        BY <1>3, <3>2, <4>1, ReceiverEdge
    <3> QED
      BY <3>1, <3>2
  <2> QED
    BY <2>2, <2>3 DEF SpacedInv, Waiting
<1>6. CASE decoder.state = "DATA"
  <2>1. fifo_rx.empty /\ (Waiting \/ rx.data_buf[1] = 1) /\ ~rx.rx_done
    BY <1>6 DEF SpacedInv
  <2>2. fifo_rx'.empty /\ decoder'.state = "IDLE" /\ ~rx'.rx_done
    BY <1>1, <1>6, <2>1, ReceiverEdge
  <2> QED
    BY <2>2 DEF SpacedInv
<1>7. CASE NoneDone
  <2>1. fifo_rx'.empty /\ decoder'.state = "IDLE" /\ button' = "none"
    BY <1>1, <1>7 DEF NoneDone
  <2>2. rx'.rx_done => Waiting'
    BY ReceiverEdge
  <2> QED
    BY <2>1, <2>2 DEF SpacedInv, Waiting
<1> QED
  BY <1>1, <1>4, <1>5, <1>6, <1>7 DEF NoneDone

\* What the hardware needs of the line: a tick is longer than a clock, and half
\* a bit is longer than a character's way through FIFO_RX and the decoder.
SlowLine == B_VALUE > 1 /\ MIN_LAG >= 4

StopBit(l) == Len(host.bits) = 1 /\ host.left >= l

\* A character's stages: nothing on its way; begun and not yet noticed;
\* k bits sampled; received; in the FIFO; in the decoder.
Quiet == Waiting /\ NoneDone /\ due_in = <<>> /\ Len(host.bits) <= 1

Started(c) ==
  /\ Waiting /\ NoneDone /\ due_in = <<c>>
  /\ Sending(host, c, DATA_BIT + 2)
  /\ host.left - UntilTick(tick) >= BIT_CLOCKS - B_VALUE
  /\ host.left <= BIT_CLOCKS + 1
  /\ button # "none" => host.left >= BIT_CLOCKS - 1

Sampled(c, k) ==
  \A i \in 1 .. DATA_BIT + 1 :
    rx.data_buf[i] = IF i <= DATA_BIT + 1 - k THEN 1
                                              ELSE FrameBit(c, i + k - (DATA_BIT + 1))

\* When the next sample is due, lag clocks will be left of the bit that it is
\* to meet.
Lagging(lag, c, m) ==
  LET t == Until(tick, rx.counter_reg) + lag
  IN  IF t <= BIT_CLOCKS THEN host.left = t /\ Sending(host, c, m)
                         ELSE host.left = t - BIT_CLOCKS /\ Sending(host, c, m + 1)

Receiving(c, k, lag) ==
  /\ ~Waiting /\ NoneDone /\ due_in = <<c>> /\ button = "none"
  /\ Sampled(c, k) /\ Lagging(lag, c, DATA_BIT + 2 - k)

Received(c) ==
  /\ Waiting /\ rx.rx_done /\ fifo_rx.empty /\ decoder.state = "IDLE"
  /\ due_in = <<c>> /\ button = "none" /\ RxData(rx) = c /\ StopBit(3)

Queued(c) ==
  /\ Waiting /\ ~rx.rx_done /\ decoder.state = "IDLE"
  /\ ~fifo_rx.empty /\ Rx!Contents = <<c>>
  /\ due_in = <<c>> /\ button = "none" /\ StopBit(2)

Taken(c) ==
  /\ Waiting /\ ~rx.rx_done /\ fifo_rx.empty
  /\ decoder.state = "DATA" /\ decoder.UART_DATA_buf = c
  /\ due_in = <<c>> /\ button = "none" /\ StopBit(1)

Lags == MIN_LAG .. MIN_LAG + B_VALUE + 1

Stage == \/ Quiet
         \/ \E c \in Chars :
              \/ Started(c) \/ Received(c) \/ Queued(c) \/ Taken(c)
              \/ \E k \in 0 .. DATA_BIT + 1, lag \in Lags : Receiving(c, k, lag)

InStepInv == (inStep => Stage) /\ (~inStep => due_in = <<>>)

\* A character is owed from the clock on which it begins.
LEMMA Owes ==
  ASSUME NEW due, Owe(due), inStep'
  PROVE  /\ ~Begins => due_in' = due
         /\ \A c \in Chars : HostBegins(c) => due_in' = Append(due, c)
BY DEF Owe, HostBegins

\* When nothing is on its way and the stop bit, if there is one, may end, the
\* board stays quiet or the next character begins.
LEMMA QuietOrStarted ==
  ASSUME HostOK(host), host' \in HostNext, TickInv(tick'), inStep', Owe(<<>>),
         Waiting', NoneDone', Len(host.bits) <= 1
  PROVE  Stage'
<1>1. /\ UntilTick(tick') \in Nat /\ UntilTick(tick') < B_VALUE
      /\ B_VALUE \in Nat /\ BIT_CLOCKS \in Nat
  <2>1. 0 \in 0 .. OVERSAMPLE - 1
    BY UartAssumption
  <2> QED
    BY <2>1, UntilStep, BitParts, UartAssumption
<1>2. host.left \in Nat /\ Len(host.bits) \in Nat
  BY LineIs
<1>3. CASE host.left > 1
  <2>1. HostGoesOn
    BY <1>3, HostClock
  <2>2. due_in' = <<>> /\ Len(host'.bits) <= 1
    BY <2>1, Owes DEF HostGoesOn
  <2> QED
    BY <2>2 DEF Stage, Quiet
<1>4. CASE ~(host.left > 1)
  <2>1. HostStops \/ \E c \in Chars : HostBegins(c)
    BY <1>2, <1>4, HostClock
  <2>2. CASE HostStops
    <3>1. due_in' = <<>> /\ Len(host'.bits) <= 1
      BY <2>2, Owes DEF HostStops, Idle
    <3> QED
      BY <3>1 DEF Stage, Quiet
  <2>3. ASSUME NEW c \in Chars, HostBegins(c)
        PROVE  Stage'
    <3>1. due_in' = <<c>>
      <4>1. Append(<<>>, c) = <<c>>
        OBVIOUS
      <4> QED
        BY <2>3, <4>1, Owes
    <3>2. /\ Sending(host', c, DATA_BIT + 2)
          /\ host'.left \in Nat /\ host'.left >= BIT_CLOCKS - 1
          /\ host'.left <= BIT_CLOCKS + 1
      BY <2>3 DEF HostBegins
    <3>3. host'.left - UntilTick(tick') >= BIT_CLOCKS - B_VALUE
      BY <1>1, <3>2
    <3>4. Started(c)'
      BY <3>1, <3>2, <3>3 DEF Started
    <3> QED
      BY <3>4 DEF Stage
  <2> QED
    BY <2>1, <2>2, <2>3
<1> QED
  BY <1>3, <1>4

\* The clock edge as the stages see it.
LEMMA StageEdge ==
  ASSUME PathTypeOK, TickInv(tick), HostOK(host), ClockEdge, inStep
  PROVE  /\ inStep' /\ HostOK(host') /\ TickInv(tick') /\ host' \in HostNext
         /\ \A c : due_in = <<c>> =>
              /\ decoder.state = "DATA" => Owe(<<>>)
              /\ decoder.state # "DATA" => Owe(<<c>>)
         /\ due_in = <<>> => Owe(<<>>)
         /\ Waiting /\ ~(tick.o_bps_tick /\ Line = 0) => Waiting' /\ ~rx'.rx_done
         /\ NoneDone => fifo_rx'.empty /\ decoder'.state = "IDLE" /\ button' = "none"
<1>1. /\ inStep' = (inStep \/ LineQuiet)
      /\ Owe(IF decoder.state = "DATA" /\ due_in # <<>> THEN Tail(due_in) ELSE due_in)
  BY DEF ClockEdge
<1>2. /\ HostOK(host') /\ TickInv(tick') /\ host' \in HostNext
      /\ rx' = RxNext(rx, tick.o_bps_tick, Line)
      /\ NoneDone => fifo_rx'.empty /\ decoder'.state = "IDLE" /\ button' = "none"
  BY EdgeIn DEF NoneDone
<1>3. \A c : <<c>> # <<>> /\ Tail(<<c>>) = <<>>
  OBVIOUS
<1>4. Waiting /\ ~(tick.o_bps_tick /\ Line = 0) => Waiting' /\ ~rx'.rx_done
  <2>1. Waiting /\ ~(tick.o_bps_tick /\ Line = 0) => ReceiverWaits(rx, rx')
    <3>1. rx \in Receivers /\ (rx.b_state = "IDLE" => rx.counter_reg = HALF) /\ Line \in Bit
      BY LineIs DEF PathTypeOK
    <3> QED
      BY <1>2, <3>1, ReceiverClock, Zenon DEF Waiting
  <2> QED
    BY <2>1 DEF ReceiverWaits, Waiting
<1> QED
  BY <1>1, <1>2, <1>3, <1>4

\* The stages follow one another.  Quiet, the board stays quiet or the next
\* character begins.
LEMMA QuietStep ==
  ASSUME PathTypeOK, TickInv(tick), HostOK(host), ClockEdge, inStep, Quiet
  PROVE  Stage'
<1>1. Waiting /\ NoneDone /\ due_in = <<>> /\ Len(host.bits) <= 1
  BY DEF Quiet
<1>2. Line # 0
  BY <1>1, LineIs
<1>3. /\ Waiting' /\ ~rx'.rx_done /\ fifo_rx'.empty /\ decoder'.state = "IDLE"
      /\ inStep' /\ TickInv(tick') /\ host' \in HostNext /\ Owe(<<>>)
  BY <1>1, <1>2, StageEdge
<1> QED
  BY <1>1, <1>3, QuietOrStarted DEF NoneDone

\* The character that was taken presses its button.
LEMMA TakenStep ==
  ASSUME PathTypeOK, TickInv(tick), HostOK(host), ClockEdge, inStep,
         NEW c \in Chars, Taken(c)
  PROVE  Stage' /\ button' = CommandOf[c]
<1>1. /\ Waiting /\ ~rx.rx_done /\ fifo_rx.empty /\ decoder.state = "DATA"
      /\ decoder.UART_DATA_buf = c /\ due_in = <<c>> /\ Len(host.bits) = 1
  BY DEF Taken, StopBit
<1>2. Line # 0
  BY <1>1, LineIs
<1>3. /\ Waiting' /\ ~rx'.rx_done
      /\ inStep' /\ TickInv(tick') /\ host' \in HostNext /\ Owe(<<>>)
  BY <1>1, <1>2, StageEdge
<1>4. fifo_rx'.empty /\ decoder'.state = "IDLE" /\ button' = CommandOf[c]
  BY <1>1, EdgeIn
<1> QED
  BY <1>1, <1>3, <1>4, QuietOrStarted DEF NoneDone

\* The decoder takes the character out of the FIFO.
LEMMA QueuedStep ==
  ASSUME PathTypeOK, TickInv(tick), HostOK(host), ClockEdge, inStep,
         NEW c \in Chars, Queued(c)
  PROVE  Stage'
<1>1. /\ Waiting /\ ~rx.rx_done /\ ~fifo_rx.empty /\ decoder.state = "IDLE"
      /\ Rx!Contents = <<c>> /\ due_in = <<c>> /\ Len(host.bits) = 1 /\ host.left >= 2
  BY DEF Queued, StopBit
<1>2. Line # 0 /\ host.left \in Nat
  BY <1>1, LineIs
<1>3. /\ Waiting' /\ ~rx'.rx_done /\ inStep' /\ host' \in HostNext /\ Owe(<<c>>)
  BY <1>1, <1>2, StageEdge
<1>4. HostGoesOn
  BY <1>1, <1>2, <1>3, HostClock
<1>5. Len(host'.bits) = 1 /\ host'.left >= 1
  BY <1>1, <1>2, <1>4 DEF HostGoesOn
<1>6. due_in' = <<c>>
  BY <1>3, <1>4, Owes DEF HostGoesOn
<1>7. Len(<<c>>) = 1 /\ <<c>>[1] = c
  OBVIOUS
<1>8. /\ decoder'.state = "DATA" /\ decoder'.UART_DATA_buf = c /\ button' = "none"
      /\ fifo_rx'.empty
  BY <1>1, <1>7, EdgeIn
<1>9. Taken(c)'
  BY <1>3, <1>5, <1>6, <1>8 DEF Taken, StopBit
<1> QED
  BY <1>9 DEF Stage

\* The character that was received goes into the FIFO.
LEMMA ReceivedStep ==
  ASSUME PathTypeOK, TickInv(tick), HostOK(host), ClockEdge, inStep,
         NEW c \in Chars, Received(c)
  PROVE  Stage'
<1>1. /\ Waiting /\ rx.rx_done /\ fifo_rx.empty /\ decoder.state = "IDLE"
      /\ RxData(rx) = c /\ due_in = <<c>> /\ Len(host.bits) = 1 /\ host.left >= 3
  BY DEF Received, StopBit
<1>2. Line # 0 /\ host.left \in Nat
  BY <1>1, LineIs
<1>3. /\ Waiting' /\ ~rx'.rx_done /\ inStep' /\ host' \in HostNext /\ Owe(<<c>>)
  BY <1>1, <1>2, StageEdge
<1>4. HostGoesOn
  BY <1>1, <1>2, <1>3, HostClock
<1>5. Len(host'.bits) = 1 /\ host'.left >= 2
  BY <1>1, <1>2, <1>4 DEF HostGoesOn
<1>6. due_in' = <<c>>
  BY <1>3, <1>4, Owes DEF HostGoesOn
<1>7. /\ decoder'.state = "IDLE" /\ button' = "none"
      /\ ~fifo_rx'.empty /\ Rx!Contents' = <<c>>
  BY <1>1, EdgeIn
<1>8. Queued(c)'
  BY <1>3, <1>5, <1>6, <1>7 DEF Queued, StopBit
<1> QED
  BY <1>8 DEF Stage

\* The receiver finds the start bit on the next tick; how far it is behind the
\* line stays as it is from then on.
LEMMA StartedStep ==
  ASSUME PathTypeOK, TickInv(tick), HostOK(host), SlowLine, ClockEdge, inStep,
         NEW c \in Chars, Started(c)
  PROVE  Stage'
<1> DEFINE u == UntilTick(tick)
           u2 == UntilTick(tick')
           l == host.left
<1>1. /\ Waiting /\ NoneDone /\ due_in = <<c>>
      /\ Sending(host, c, DATA_BIT + 2)
      /\ l - u >= BIT_CLOCKS - B_VALUE /\ l <= BIT_CLOCKS + 1
      /\ decoder.state # "DATA"
  BY DEF Started, NoneDone
<1>2. /\ tick' = TickNext(tick) /\ rx' = RxNext(rx, tick.o_bps_tick, Line)
      /\ host' \in HostNext /\ inStep' /\ Owe(<<c>>)
      /\ fifo_rx'.empty /\ decoder'.state = "IDLE" /\ button' = "none"
      /\ Waiting /\ ~(tick.o_bps_tick /\ Line = 0) => Waiting' /\ ~rx'.rx_done
  <2>1. /\ tick' = TickNext(tick) /\ rx' = RxNext(rx, tick.o_bps_tick, Line)
    BY EdgeIn
  <2> QED
    BY <1>1, <2>1, StageEdge
<1>3. /\ u \in Nat /\ u < B_VALUE /\ (u = 0 <=> tick.o_bps_tick)
      /\ u2 = IF u = 0 THEN B_VALUE - 1 ELSE u - 1
  <2>1. 0 \in 0 .. OVERSAMPLE - 1
    BY UartAssumption
  <2> QED
    BY <1>2, <2>1, UntilStep
<1>4. /\ BIT_CLOCKS \in Nat /\ B_VALUE \in Nat /\ B_VALUE > 1
      /\ MIN_LAG \in Nat /\ FIRST_SAMPLE \in Nat /\ FIRST_SAMPLE >= B_VALUE
      /\ BIT_CLOCKS = MIN_LAG + B_VALUE + FIRST_SAMPLE
  BY BitParts, UartAssumption DEF SlowLine
<1>5. l \in Nat /\ l > 1
  BY <1>1, <1>3, <1>4, LineIs
<1>6. HostGoesOn
  BY <1>2, <1>5, HostClock
<1>7. /\ due_in' = <<c>> /\ host'.left = l - 1 /\ Sending(host', c, DATA_BIT + 2)
  BY <1>1, <1>2, <1>6, Owes DEF HostGoesOn, Sending
<1>8. Line = 0
  <2>1. Len(host.bits) = DATA_BIT + 2 /\ host.bits[1] = 0
    <3>1. 1 \in 1 .. DATA_BIT + 2 /\ DATA_BIT + 2 - (DATA_BIT + 2) + 1 = 1
      BY UartAssumption
    <3>2. host.bits[1] = FrameBit(c, DATA_BIT + 2 - (DATA_BIT + 2) + 1)
      BY <1>1, <3>1 DEF Sending
    <3> QED
      BY <1>1, <3>1, <3>2 DEF Sending, FrameBit
  <2> QED
    BY <2>1, LineIs, UartAssumption
<1>9. NoneDone' <=> ~rx'.rx_done
  BY <1>2 DEF NoneDone
<1>10. CASE ~tick.o_bps_tick
  <2>1. Waiting' /\ NoneDone'
    BY <1>1, <1>2, <1>9, <1>10
  <2>2. u2 = u - 1 /\ u # 0
    BY <1>3, <1>10
  <2> HIDE DEF u, u2, l
  <2>3. host'.left - u2 >= BIT_CLOCKS - B_VALUE /\ host'.left <= BIT_CLOCKS + 1
    BY <1>1, <1>3, <1>4, <1>5, <1>7, <2>2
  <2>4. Started(c)'
    BY <1>2, <1>7, <2>1, <2>3 DEF Started, u2
  <2> QED
    BY <2>4 DEF Stage
<1>11. CASE tick.o_bps_tick
  <2>1. ReceiverStarts(rx, rx')
    <3>1. rx \in Receivers /\ (rx.b_state = "IDLE" => rx.counter_reg = HALF) /\ Line \in Bit
      BY LineIs DEF PathTypeOK
    <3> QED
      BY <1>1, <1>2, <1>8, <1>11, <3>1, ReceiverClock, Zenon DEF Waiting
  <2>2. /\ rx'.b_state = "DATA" /\ ~rx'.rx_done /\ rx'.counter_reg = HALF + 1
        /\ \A i \in 1 .. DATA_BIT + 1 : rx'.data_buf[i] = 1
    BY <2>1 DEF ReceiverStarts
  <2>3. ~Waiting' /\ NoneDone'
    BY <1>9, <2>2 DEF Waiting
  <2> DEFINE n == Until(tick', rx'.counter_reg)
  <2>4. n = FIRST_SAMPLE - 1
    <3>1. n = (OVERSAMPLE - 1 - (HALF + 1)) * B_VALUE + u2
      BY <2>2 DEF Until
    <3>2. (OVERSAMPLE - 1 - (HALF + 1)) * B_VALUE = FIRST_SAMPLE - B_VALUE
      <4> DEFINE r == OVERSAMPLE - 1 - HALF
                 b == B_VALUE
      <4>1. r \in Nat /\ b \in Nat /\ r # 0 /\ OVERSAMPLE - 1 - (HALF + 1) = r - 1
        BY BitParts, UartAssumption
      <4>2. FIRST_SAMPLE = r * b
        BY DEF FIRST_SAMPLE
      <4> HIDE DEF r, b
      <4>3. (r - 1) * b = r * b - b
        BY <4>1, SMTT(30)
      <4> QED
        BY <4>1, <4>2, <4>3 DEF b
    <3>3. u2 = B_VALUE - 1
      BY <1>3, <1>11
    <3> HIDE DEF n, u2
    <3> QED
      BY <1>4, <3>1, <3>2, <3>3
  <2>5. u = 0
    BY <1>3, <1>11
  <2> HIDE DEF u, n
  <2>6. l - FIRST_SAMPLE \in Lags /\ l - 1 <= BIT_CLOCKS
    BY <1>1, <1>4, <1>5, <2>4, <2>5 DEF Lags
  <2>7. PICK lag \in Lags : lag = l - FIRST_SAMPLE
    BY <2>6
  <2>8. n + lag = l - 1 /\ l - 1 <= BIT_CLOCKS
    BY <1>4, <1>5, <2>4, <2>6, <2>7
  <2> HIDE DEF l
  <2>9. DATA_BIT + 2 - 0 = DATA_BIT + 2 /\ 0 \in 0 .. DATA_BIT + 1
    BY UartAssumption
  <2>10. Lagging(lag, c, DATA_BIT + 2 - 0)'
    <3>1. Until(tick', rx'.counter_reg) + lag = host'.left
      BY <1>7, <2>8 DEF n, l
    <3>2. host'.left <= BIT_CLOCKS
      BY <1>7, <2>8 DEF l
    <3>3. Sending(host', c, DATA_BIT + 2 - 0)
      BY <1>7, <2>9
    <3> QED
      BY <3>1, <3>2, <3>3, Zenon DEF Lagging
  <2>11. Sampled(c, 0)'
    <3>1. \A i \in 1 .. DATA_BIT + 1 : i <= DATA_BIT + 1 - 0
      BY UartAssumption
    <3> QED
      BY <2>2, <3>1 DEF Sampled
  <2>12. Receiving(c, 0, lag)'
    BY <1>2, <1>7, <2>3, <2>10, <2>11 DEF Receiving
  <2>13. \E k \in 0 .. DATA_BIT + 1, lag2 \in Lags : Receiving(c, k, lag2)'
    BY <2>8, <2>9, <2>12, Zenon
  <2> QED
    BY <2>13, Zenon DEF Stage
<1> QED
  BY <1>10, <1>11

\* Between two samples the line keeps in step with the receiver.
LEMMA CountingStep ==
  ASSUME PathTypeOK, TickInv(tick), HostOK(host), SlowLine, ClockEdge, inStep,
         NEW c \in Chars, NEW k \in 0 .. DATA_BIT + 1, NEW lag \in Lags,
         Receiving(c, k, lag), Until(tick, rx.counter_reg) # 0
  PROVE  Receiving(c, k, lag)'
<1> DEFINE n == Until(tick, rx.counter_reg)
           n2 == Until(tick', rx'.counter_reg)
           m == DATA_BIT + 2 - k
           t == n + lag
           l == host.left
<1>1. /\ ~Waiting /\ NoneDone /\ due_in = <<c>>
      /\ Sampled(c, k) /\ Lagging(lag, c, m)
      /\ decoder.state # "DATA"
  BY DEF Receiving, NoneDone
<1>2. /\ tick' = TickNext(tick) /\ rx' = RxNext(rx, tick.o_bps_tick, Line)
      /\ host' \in HostNext /\ inStep' /\ Owe(<<c>>)
      /\ fifo_rx'.empty /\ decoder'.state = "IDLE" /\ button' = "none"
  <2>1. /\ tick' = TickNext(tick) /\ rx' = RxNext(rx, tick.o_bps_tick, Line)
    BY EdgeIn
  <2> QED
    BY <1>1, <2>1, StageEdge
<1>3. /\ rx \in Receivers /\ rx.b_state = "DATA" /\ Line \in Bit
      /\ rx.counter_reg \in 0 .. OVERSAMPLE - 1
  BY <1>1, LineIs DEF PathTypeOK, Receivers, Waiting
<1>4. ReceiverCounts(rx, rx', tick)
  BY <1>2, <1>3, ReceiverClock, Zenon
<1>5. /\ rx'.b_state = "DATA" /\ ~rx'.rx_done /\ rx'.data_buf = rx.data_buf /\ n2 = n - 1
  BY <1>2, <1>4 DEF ReceiverCounts
<1>6. n \in Nat /\ n < BIT_CLOCKS
  BY <1>3, UntilStep
<1>7. ~Waiting' /\ NoneDone' /\ Sampled(c, k)'
  BY <1>1, <1>2, <1>5 DEF Waiting, NoneDone, Sampled
<1>8. /\ t <= BIT_CLOCKS => l = t /\ Sending(host, c, m)
      /\ t > BIT_CLOCKS => l = t - BIT_CLOCKS /\ Sending(host, c, m + 1)
  <2>1. t > BIT_CLOCKS => ~(t <= BIT_CLOCKS)
    BY <1>6, BitParts, UartAssumption DEF Lags
  <2> QED
    BY <1>1, <2>1, Zenon DEF Lagging
<1>9. /\ BIT_CLOCKS \in Nat /\ lag \in Nat /\ lag >= 4 /\ l \in Nat
      /\ m \in 1 .. DATA_BIT + 2
  <2>1. BIT_CLOCKS \in Nat /\ MIN_LAG \in Nat /\ MIN_LAG >= 4 /\ B_VALUE \in Nat
    BY BitParts, UartAssumption DEF SlowLine
  <2>2. lag \in Nat /\ lag >= 4
    BY <2>1 DEF Lags
  <2>3. m \in 1 .. DATA_BIT + 2
    BY UartAssumption
  <2> QED
    BY <2>1, <2>2, <2>3, LineIs, Zenon
<1>10. n # 0
  OBVIOUS
<1> HIDE DEF n, n2, m
<1>11. t \in Nat /\ t >= 5 /\ n2 + lag = t - 1
  BY <1>5, <1>6, <1>9, <1>10
<1> HIDE DEF t, l
<1>12. Lagging(lag, c, m)' /\ due_in' = <<c>>
  <2>1. CASE t <= BIT_CLOCKS
    <3>1. l = t /\ l > 1 /\ t - 1 <= BIT_CLOCKS
      BY <1>8, <1>9, <1>11, <2>1
    <3>2. HostGoesOn
      BY <1>2, <3>1, HostClock DEF l
    <3>3. /\ due_in' = <<c>> /\ host'.left = t - 1 /\ Sending(host', c, m)
      BY <1>2, <1>8, <2>1, <3>1, <3>2, Owes DEF HostGoesOn, Sending, l
    <3> QED
      BY <1>11, <3>1, <3>3, Zenon DEF Lagging, n2
  <2>2. CASE t > BIT_CLOCKS /\ l > 1
    <3>1. ~(t - 1 <= BIT_CLOCKS) /\ l - 1 = (t - 1) - BIT_CLOCKS
      BY <1>8, <1>9, <1>11, <2>2
    <3>2. HostGoesOn
      BY <1>2, <2>2, HostClock DEF l
    <3>3. /\ due_in' = <<c>> /\ host'.left = l - 1 /\ Sending(host', c, m + 1)
      BY <1>2, <1>8, <2>2, <3>2, Owes DEF HostGoesOn, Sending, l
    <3> QED
      BY <1>11, <3>1, <3>3, Zenon DEF Lagging, n2
  <2>3. CASE t > BIT_CLOCKS /\ l <= 1
    <3>1. t - 1 <= BIT_CLOCKS /\ t - 1 = BIT_CLOCKS
      BY <1>8, <1>9, <1>11, <2>3
    <3>2. /\ Len(host.bits) = m + 1
          /\ \A i \in 1 .. m + 1 : host.bits[i] = FrameBit(c, DATA_BIT + 2 - (m + 1) + i)
      BY <1>8, <2>3 DEF Sending
    <3>3. HostNextBit
      BY <1>2, <1>9, <2>3, <3>2, HostClock DEF l
    <3>4. /\ due_in' = <<c>> /\ host'.left = t - 1
          /\ Len(host'.bits) = Len(host.bits) - 1
          /\ \A i \in 1 .. Len(host.bits) - 1 : host'.bits[i] = host.bits[i + 1]
      BY <1>2, <3>1, <3>3, Owes DEF HostNextBit
    <3>5. Sending(host', c, m)
      <4>1. Len(host.bits) - 1 = m
        BY <1>9, <3>2
      <4>2. \A i \in 1 .. m : /\ i + 1 \in 1 .. m + 1
                              /\ DATA_BIT + 2 - (m + 1) + (i + 1) = DATA_BIT + 2 - m + i
        BY <1>9, UartAssumption
      <4>3. \A i \in 1 .. m : host'.bits[i] = host.bits[i + 1]
        BY <3>4, <4>1
      <4>4. \A i \in 1 .. m : host'.bits[i] = FrameBit(c, DATA_BIT + 2 - m + i)
        BY <3>2, <4>2, <4>3
      <4> QED
        BY <3>4, <4>1, <4>4 DEF Sending
    <3> QED
      BY <1>11, <3>1, <3>4, <3>5, Zenon DEF Lagging, n2
  <2> QED
    BY <1>9, <1>11, <2>1, <2>2, <2>3
<1> QED
  BY <1>2, <1>7, <1>12 DEF Receiving, m

\* A sample meets the bit that it is meant for; the last one, the stop bit.
LEMMA SamplingStep ==
  ASSUME PathTypeOK, TickInv(tick), HostOK(host), SlowLine, ClockEdge, inStep,
         NEW c \in Chars, NEW k \in 0 .. DATA_BIT + 1, NEW lag \in Lags,
         Receiving(c, k, lag), Until(tick, rx.counter_reg) = 0
  PROVE  /\ k # DATA_BIT + 1 => k + 1 \in 0 .. DATA_BIT + 1 /\ Receiving(c, k + 1, lag)'
         /\ k = DATA_BIT + 1 => Received(c)'
<1> DEFINE m == DATA_BIT + 2 - k
           l == host.left
<1>1. /\ ~Waiting /\ NoneDone /\ due_in = <<c>>
      /\ Sampled(c, k) /\ Lagging(lag, c, m)
      /\ decoder.state # "DATA"
  BY DEF Receiving, NoneDone
<1>2. /\ tick' = TickNext(tick) /\ rx' = RxNext(rx, tick.o_bps_tick, Line)
      /\ host' \in HostNext /\ inStep' /\ Owe(<<c>>)
      /\ fifo_rx'.empty /\ decoder'.state = "IDLE" /\ button' = "none"
  <2>1. /\ tick' = TickNext(tick) /\ rx' = RxNext(rx, tick.o_bps_tick, Line)
    BY EdgeIn
  <2> QED
    BY <1>1, <2>1, StageEdge
<1>3. /\ rx \in Receivers /\ rx.b_state = "DATA" /\ Line \in Bit
      /\ rx.counter_reg \in 0 .. OVERSAMPLE - 1
      /\ rx.data_buf \in [1 .. DATA_BIT + 1 -> Bit]
  BY <1>1, LineIs DEF PathTypeOK, Receivers, Waiting
<1>4. /\ ReceiverSamples(rx, rx', Line)
      /\ rx.data_buf[1] = 1 =>
           /\ rx'.b_state = "DATA" /\ ~rx'.rx_done
           /\ Until(tick', rx'.counter_reg) = BIT_CLOCKS - 1
      /\ rx.data_buf[1] # 1 => rx'.b_state = "IDLE" /\ rx'.rx_done
  BY <1>2, <1>3, ReceiverClock, Zenon
<1>5. /\ BIT_CLOCKS \in Nat /\ lag \in Nat /\ lag >= 4 /\ lag <= BIT_CLOCKS
      /\ m \in 1 .. DATA_BIT + 2
  <2>1. /\ BIT_CLOCKS \in Nat /\ MIN_LAG \in Nat /\ MIN_LAG >= 4 /\ B_VALUE \in Nat
        /\ BIT_CLOCKS = MIN_LAG + B_VALUE + FIRST_SAMPLE
        /\ FIRST_SAMPLE \in Nat /\ FIRST_SAMPLE >= B_VALUE /\ B_VALUE > 1
    BY BitParts, UartAssumption DEF SlowLine
  <2>2. lag \in Nat /\ lag >= 4 /\ lag <= BIT_CLOCKS
    BY <2>1 DEF Lags
  <2>3. m \in 1 .. DATA_BIT + 2
    BY UartAssumption
  <2> QED
    BY <2>1, <2>2, <2>3, Zenon
<1>6. l = lag /\ Sending(host, c, m)
  <2>1. Until(tick, rx.counter_reg) + lag = lag
    BY <1>5
  <2> QED
    BY <1>1, <1>5, <2>1, Zenon DEF Lagging
<1>7. HostGoesOn
  <2>1. host.left > 1
    BY <1>5, <1>6
  <2> QED
    BY <1>2, <2>1, HostClock
<1>8. due_in' = <<c>> /\ host'.left = lag - 1 /\ Sending(host', c, m)
  BY <1>2, <1>6, <1>7, Owes DEF HostGoesOn, Sending
<1>9. Line = FrameBit(c, k + 1)
  <2>1. 1 \in 1 .. m /\ DATA_BIT + 2 - m + 1 = k + 1
    BY <1>5, UartAssumption
  <2>2. host.bits[1] = FrameBit(c, k + 1) /\ Len(host.bits) = m
    BY <1>6, <2>1 DEF Sending
  <2> QED
    BY <1>5, <2>2, LineIs
<1>10. /\ \A i \in 1 .. DATA_BIT : rx'.data_buf[i] = rx.data_buf[i + 1]
       /\ rx'.data_buf[DATA_BIT + 1] = Line
  BY <1>4 DEF ReceiverSamples
<1>11. 1 \in 1 .. DATA_BIT + 1
  BY UartAssumption
<1>12. ASSUME k # DATA_BIT + 1
       PROVE  k + 1 \in 0 .. DATA_BIT + 1 /\ Receiving(c, k + 1, lag)'
  <2>1. k + 1 \in 0 .. DATA_BIT + 1 /\ 1 <= DATA_BIT + 1 - k
    BY <1>12, UartAssumption
  <2>2. rx.data_buf[1] = 1
    BY <1>1, <1>11, <2>1 DEF Sampled
  <2>3. ~Waiting' /\ NoneDone' /\ Until(tick', rx'.counter_reg) = BIT_CLOCKS - 1
    BY <1>2, <1>4, <2>2 DEF Waiting, NoneDone
  <2>4. Sampled(c, k + 1)'
    <3>1. ASSUME NEW i \in 1 .. DATA_BIT + 1
          PROVE  rx'.data_buf[i] = IF i <= DATA_BIT + 1 - (k + 1) THEN 1
                                   ELSE FrameBit(c, i + (k + 1) - (DATA_BIT + 1))
      <4>1. CASE i = DATA_BIT + 1
        <5>1. ~(i <= DATA_BIT + 1 - (k + 1)) /\ i + (k + 1) - (DATA_BIT + 1) = k + 1
          BY <4>1, UartAssumption
        <5> QED
          BY <1>9, <1>10, <4>1, <5>1, Zenon
      <4>2. CASE i # DATA_BIT + 1
        <5>1. /\ i \in 1 .. DATA_BIT /\ i + 1 \in 1 .. DATA_BIT + 1
              /\ i + 1 <= DATA_BIT + 1 - k <=> i <= DATA_BIT + 1 - (k + 1)
              /\ (i + 1) + k - (DATA_BIT + 1) = i + (k + 1) - (DATA_BIT + 1)
          BY <4>2, UartAssumption
        <5>2. rx.data_buf[i + 1] =
                IF i + 1 <= DATA_BIT + 1 - k THEN 1
                ELSE FrameBit(c, (i + 1) + k - (DATA_BIT + 1))
          BY <1>1, <5>1, Zenon DEF Sampled
        <5>3. rx'.data_buf[i] = rx.data_buf[i + 1]
          BY <1>10, <5>1, Zenon
        <5> QED
          BY <5>1, <5>2, <5>3, Zenon
      <4> QED
        BY <4>1, <4>2
    <3> QED
      BY <3>1, Zenon DEF Sampled
  <2>5. Lagging(lag, c, DATA_BIT + 2 - (k + 1))'
    <3>1. /\ ~(BIT_CLOCKS - 1 + lag <= BIT_CLOCKS)
          /\ (BIT_CLOCKS - 1 + lag) - BIT_CLOCKS = lag - 1
          /\ DATA_BIT + 2 - (k + 1) + 1 = m
      BY <1>5, UartAssumption
    <3> HIDE DEF m
    <3>2. /\ ~(Until(tick', rx'.counter_reg) + lag <= BIT_CLOCKS)
          /\ host'.left = (Until(tick', rx'.counter_reg) + lag) - BIT_CLOCKS
      BY <1>8, <2>3, <3>1, Zenon
    <3>3. Sending(host', c, DATA_BIT + 2 - (k + 1) + 1)
      BY <1>8, <3>1, Zenon
    <3> QED
      BY <3>2, <3>3, Zenon DEF Lagging
  <2> QED
    BY <1>2, <1>8, <2>1, <2>3, <2>4, <2>5 DEF Receiving
<1>13. ASSUME k = DATA_BIT + 1
       PROVE  Received(c)'
  <2>1. rx.data_buf[1] = 0
    <3>1. ~(1 <= DATA_BIT + 1 - k) /\ 1 + k - (DATA_BIT + 1) = 1
      BY <1>13, UartAssumption
    <3>2. rx.data_buf[1] = FrameBit(c, 1)
      BY <1>1, <1>11, <3>1, Zenon DEF Sampled
    <3> QED
      BY <3>2 DEF FrameBit
  <2>2. Waiting' /\ rx'.rx_done
    BY <1>4, <2>1 DEF Waiting
  <2>3. \A i \in 1 .. DATA_BIT : rx'.data_buf[i] = c[i]
    <3> SUFFICES ASSUME NEW i \in 1 .. DATA_BIT
                 PROVE  rx'.data_buf[i] = c[i]
      OBVIOUS
    <3>1. /\ i + 1 \in 1 .. DATA_BIT + 1 /\ ~(i + 1 <= DATA_BIT + 1 - k)
          /\ (i + 1) + k - (DATA_BIT + 1) = i + 1
          /\ i + 1 # 1 /\ i + 1 # DATA_BIT + 2 /\ i + 1 - 1 = i
      BY <1>13, UartAssumption
    <3>2. rx.data_buf[i + 1] = FrameBit(c, i + 1)
      BY <1>1, <3>1, Zenon DEF Sampled
    <3>3. FrameBit(c, i + 1) = c[i]
      BY <3>1, UartAssumption DEF FrameBit
    <3> QED
      BY <1>10, <3>2, <3>3
  <2>4. RxData(rx') = c
    <3>1. rx'.data_buf \in [1 .. DATA_BIT + 1 -> Bit]
      BY EdgeIn DEF PathTypeOK, Receivers
    <3> DEFINE b == rx'.data_buf
               s == SubSeq(b, 1, DATA_BIT)
    <3>2. b \in Seq(Bit) /\ Len(b) = DATA_BIT + 1
      BY <3>1, UartAssumption
    <3> HIDE DEF b
    <3>3. s \in Seq(Bit) /\ Len(s) = DATA_BIT /\ \A i \in 1 .. DATA_BIT : s[i] = b[i]
      BY <3>2, UartAssumption
    <3> HIDE DEF s
    <3>4. s = [i \in 1 .. DATA_BIT |-> s[i]] /\ c = [i \in 1 .. DATA_BIT |-> c[i]]
      BY <3>3, UartAssumption DEF Chars
    <3>5. s = c
      BY <2>3, <3>3, <3>4 DEF b
    <3> QED
      BY <3>5 DEF RxData, s, b
  <2>5. Len(host'.bits) = 1 /\ host'.left >= 3
    <3>1. m = 1 /\ lag - 1 >= 3
      BY <1>5, <1>13, UartAssumption
    <3> QED
      BY <1>8, <3>1 DEF Sending
  <2> QED
    BY <1>2, <1>8, <2>2, <2>4, <2>5 DEF Received, StopBit
<1> QED
  BY <1>12, <1>13

\* From stage to stage: no clock leaves them.
LEMMA StageStep ==
  ASSUME PathTypeOK, TickInv(tick), HostOK(host), SlowLine, ClockEdge, inStep, Stage
  PROVE  Stage'
<1>1. CASE Quiet
  BY <1>1, QuietStep
<1>2. ASSUME NEW c \in Chars, Started(c) \/ Received(c) \/ Queued(c) \/ Taken(c)
      PROVE  Stage'
  BY <1>2, StartedStep, ReceivedStep, QueuedStep, TakenStep
<1>3. ASSUME NEW c \in Chars, NEW k \in 0 .. DATA_BIT + 1, NEW lag \in Lags,
             Receiving(c, k, lag)
      PROVE  Stage'
  <2>1. CASE Until(tick, rx.counter_reg) # 0
    <3>1. Receiving(c, k, lag)'
      BY <1>3, <2>1, CountingStep
    <3> QED
      BY <3>1 DEF Stage
  <2>2. CASE Until(tick, rx.counter_reg) = 0 /\ k # DATA_BIT + 1
    <3>1. k + 1 \in 0 .. DATA_BIT + 1 /\ Receiving(c, k + 1, lag)'
      BY <1>3, <2>2, SamplingStep
    <3>2. \E j \in 0 .. DATA_BIT + 1, g \in Lags : Receiving(c, j, g)'
      BY <3>1, Zenon
    <3> QED
      BY <3>2, Zenon DEF Stage
  <2>3. CASE Until(tick, rx.counter_reg) = 0 /\ k = DATA_BIT + 1
    <3>1. Received(c)'
      BY <1>3, <2>3, SamplingStep
    <3> QED
      BY <3>1 DEF Stage
  <2> QED
    BY <2>1, <2>2, <2>3
<1> QED
  BY <1>1, <1>2, <1>3 DEF Stage

\* What a reset leaves on the way in.
LEMMA ResetIn ==
  ASSUME PathTypeOK, HostOK(host), ResetBoard, PcClock
  PROVE  /\ PathTypeOK' /\ TickInv(tick') /\ UntilTick(tick') = 0
         /\ HostOK(host') /\ host' \in HostNext
         /\ Waiting' /\ NoneDone' /\ button' = "none"
<1>1. /\ tick' = TickReset /\ rx' = RxReset /\ Rx!Reset
      /\ decoder' = DecoderReset /\ button' = "none" /\ host' \in HostNext
  BY DEF ResetBoard, PcClock
<1>2. PathTypeOK'
  BY ResetBoardTypes
<1>3. TickInv(tick') /\ UntilTick(tick') = 0
  BY <1>1, <1>2 DEF TickReset, TickInv, UntilTick, PathTypeOK
<1>4. Waiting' /\ NoneDone'
  <2>1. fifo_rx'.empty
    BY <1>1 DEF Rx!Reset, Rx!Fresh
  <2> QED
    BY <1>1, <2>1 DEF RxReset, DecoderReset, Waiting, NoneDone
<1> QED
  BY <1>1, <1>2, <1>3, <1>4, HostClock

\* A step keeps the stages, the two resets included: the command that resets
\* the board comes when its own character is done or the next one just begins.
LEMMA InStepStep ==
  ASSUME PathTypeOK, TickInv(tick), HostOK(host), SlowLine, InStepInv, Next
  PROVE  InStepInv'
<1>1. CASE ClockEdge /\ inStep
  <2>1. inStep' /\ Stage'
    BY <1>1, StageEdge, StageStep DEF InStepInv
  <2> QED
    BY <2>1 DEF InStepInv
<1>2. CASE ClockEdge /\ ~inStep
  <2>1. /\ due_in = <<>> /\ (inStep' => LineQuiet)
        /\ Owe(IF decoder.state = "DATA" /\ due_in # <<>> THEN Tail(due_in) ELSE due_in)
    BY <1>2, Zenon DEF InStepInv, ClockEdge
  <2>2. Owe(<<>>)
    BY <2>1
  <2>3. CASE ~inStep'
    BY <2>2, <2>3 DEF Owe, InStepInv
  <2>4. CASE inStep'
    <3>1. /\ host' = Idle /\ Waiting /\ ~rx.rx_done
          /\ fifo_rx.empty /\ decoder.state = "IDLE"
      BY <2>1, <2>4 DEF LineQuiet, Waiting
    <3>2. host' \in HostNext /\ fifo_rx'.empty /\ decoder'.state = "IDLE"
      BY <1>2, <3>1, EdgeIn
    <3>3. Idle.left = 0 /\ Idle.bits = <<>> /\ Len(<<>>) = 0
      BY DEF Idle
    <3>4. Len(host.bits) <= 1
      <4>1. /\ Len(host.bits) \in Nat /\ host.left \in Nat /\ BIT_CLOCKS # 0
            /\ Len(host.bits) >= 1 => host.left >= 1
        BY LineIs, BitParts, UartAssumption
      <4>2. host.left > 1 => Len(host.bits) = 0
        BY <3>1, <3>2, <3>3, HostClock DEF HostGoesOn
      <4>3. ~(host.left <= 1 /\ Len(host.bits) > 1)
        BY <3>1, <3>2, <3>3, <4>1, HostClock DEF HostNextBit
      <4> QED
        BY <4>1, <4>2, <4>3
    <3>5. Line # 0
      BY <3>4, LineIs
    <3>6. Waiting' /\ ~rx'.rx_done
      <4>1. ReceiverWaits(rx, rx')
        <5>1. rx' = RxNext(rx, tick.o_bps_tick, Line)
          BY <1>2, EdgeIn
        <5>2. /\ rx \in Receivers /\ (rx.b_state = "IDLE" => rx.counter_reg = HALF)
              /\ Line \in Bit
          BY LineIs DEF PathTypeOK
        <5> QED
          BY <3>1, <3>5, <5>1, <5>2, ReceiverClock, Zenon DEF Waiting
      <4> QED
        BY <4>1 DEF ReceiverWaits, Waiting
    <3>7. ~Begins
      BY <3>1, BeginningIs DEF Begins
    <3>8. due_in' = <<>>
      BY <2>2, <3>7 DEF Owe
    <3>9. Quiet'
      BY <3>1, <3>2, <3>3, <3>6, <3>8 DEF Quiet, NoneDone
    <3> QED
      BY <2>4, <3>9 DEF InStepInv, Stage
  <2> QED
    BY <2>3, <2>4
<1>3. CASE ResetByCommand
  <2>1. /\ ResetBoard /\ PcClock /\ inStep' = inStep /\ Owe(due_in) /\ button = "M"
    BY <1>3 DEF ResetByCommand
  <2>2. /\ TickInv(tick') /\ UntilTick(tick') = 0
        /\ HostOK(host') /\ host' \in HostNext
        /\ Waiting' /\ NoneDone' /\ button' = "none"
    BY <2>1, ResetIn
  <2>3. CASE ~inStep
    BY <2>1, <2>3 DEF InStepInv, Owe
  <2>4. CASE inStep
    <3>1. Quiet \/ \E c \in Chars : Started(c)
      BY <2>1, <2>4 DEF InStepInv, Stage, Receiving, Received, Queued, Taken
    <3>2. CASE Quiet
      BY <2>1, <2>2, <2>4, <3>2, QuietOrStarted DEF Quiet, InStepInv
    <3>3. ASSUME NEW c \in Chars, Started(c)
          PROVE  Started(c)'
      <4>1. /\ due_in = <<c>> /\ Sending(host, c, DATA_BIT + 2)
            /\ host.left >= BIT_CLOCKS - 1 /\ host.left <= BIT_CLOCKS + 1
        BY <2>1, <3>3 DEF Started
      <4>2. /\ BIT_CLOCKS \in Nat /\ BIT_CLOCKS >= 4 /\ B_VALUE \in Nat /\ B_VALUE > 1
        BY BitParts, UartAssumption DEF SlowLine
      <4>3. host.left \in Nat /\ host.left > 1
        BY <4>1, <4>2, LineIs
      <4>4. HostGoesOn
        BY <2>2, <4>3, HostClock
      <4>5. /\ due_in' = <<c>> /\ host'.left = host.left - 1
            /\ Sending(host', c, DATA_BIT + 2)
        BY <2>1, <2>4, <4>1, <4>4, Owes DEF HostGoesOn, Sending
      <4>6. /\ host'.left - UntilTick(tick') >= BIT_CLOCKS - B_VALUE
            /\ host'.left <= BIT_CLOCKS + 1
        BY <2>2, <4>1, <4>2, <4>3, <4>5
      <4> QED
        BY <2>2, <4>5, <4>6 DEF Started
    <3> QED
      BY <2>1, <2>4, <3>1, <3>2, <3>3 DEF InStepInv, Stage
  <2> QED
    BY <2>3, <2>4
<1>4. CASE Reset
  <2>1. /\ ResetBoard /\ PcClock /\ inStep' = (inStep /\ host = Idle) /\ Owe(<<>>)
    BY <1>4 DEF Reset
  <2>2. /\ TickInv(tick') /\ host' \in HostNext /\ Waiting' /\ NoneDone'
    BY <2>1, ResetIn
  <2>3. CASE ~inStep'
    BY <2>1, <2>3 DEF InStepInv, Owe
  <2>4. CASE inStep'
    <3>1. Len(host.bits) <= 1
      <4>1. host = Idle
        BY <2>1, <2>4, Zenon
      <4> QED
        BY <4>1 DEF Idle
    <3> QED
      BY <2>1, <2>2, <2>4, <3>1, QuietOrStarted DEF InStepInv
  <2> QED
    BY <2>3, <2>4
<1> QED
  BY <1>1, <1>2, <1>3, <1>4 DEF Next

-----------------------------------------------------------------------------
(* The invariant of the way in.                                            *)

InInv == PathTypeOK /\ TickInv(tick) /\ HostOK(host) /\ SpacedInv

\* The board starts quiet.
LEMMA InitIn == Init => InInv /\ InStepInv
<1> SUFFICES ASSUME Init PROVE InInv /\ InStepInv
  OBVIOUS
<1>1. PathTypeOK
  BY InitTypes
<1>2. TickInv(tick)
  BY <1>1 DEF Init, TickReset, TickInv, PathTypeOK
<1>3. HostOK(host) /\ Len(host.bits) <= 1
  BY DEF Init, HostOK, Idle
<1>4. /\ rx.b_state = "IDLE" /\ ~rx.rx_done /\ fifo_rx.empty /\ decoder.state = "IDLE"
      /\ due_in = <<>> /\ inStep = TRUE
  BY DEF Init, RxReset, Rx!Fresh, DecoderReset
<1>5. SpacedInv
  BY <1>4 DEF SpacedInv
<1>6. InStepInv
  BY <1>3, <1>4 DEF InStepInv, Stage, Quiet, Waiting, NoneDone
<1> QED
  BY <1>1, <1>2, <1>3, <1>5, <1>6 DEF InInv

\* A step keeps the ranges and keeps characters apart.
LEMMA InStepOf ==
  ASSUME InInv, Next
  PROVE  InInv'
<1>1. CASE ClockEdge
  BY <1>1, EdgeIn, SpacedStep DEF InInv
<1>2. CASE ResetBoard /\ PcClock
  <2>1. /\ PathTypeOK' /\ TickInv(tick') /\ HostOK(host') /\ Waiting' /\ NoneDone'
    BY <1>2, ResetIn DEF InInv
  <2>2. SpacedInv'
    BY <2>1 DEF SpacedInv, NoneDone
  <2> QED
    BY <2>1, <2>2 DEF InInv
<1> QED
  BY <1>1, <1>2 DEF Next, Reset, ResetByCommand

\* So they hold in every run of the board, at any speed of the line.
LEMMA InAlways == Spec => []InInv
<1>1. InInv /\ UNCHANGED path_vars => InInv'
  BY DEF InInv, path_vars, board, pc, PathTypeOK, Rx!FifoInv, Tx!FifoInv, SpacedInv,
         Waiting, Rx!Contents, Rx!Count, Rx!PlaceOf
<1> QED
  BY <1>1, InitIn, InStepOf, PTL DEF Spec

\* On a line that is slow enough a run never leaves the stages.
LEMMA InStepAlways == ASSUME SlowLine PROVE Spec => []InStepInv
<1>1. InInv /\ InStepInv /\ [Next]_path_vars => InStepInv'
  <2> SUFFICES ASSUME InInv, InStepInv, [Next]_path_vars
               PROVE  InStepInv'
    OBVIOUS
  <2>1. CASE Next
    BY <2>1, InStepStep DEF InInv
  <2>2. CASE UNCHANGED path_vars
    BY <2>2 DEF path_vars, board, pc, history, InStepInv, Stage, Quiet, Started, Receiving,
                Received, Queued, Taken, Waiting, NoneDone, Sampled, Lagging, StopBit,
                Rx!Contents, Rx!Count, Rx!PlaceOf
  <2> QED
    BY <2>1, <2>2
<1> QED
  BY <1>1, InitIn, InAlways, PTL DEF Spec

\* On a line that is slow enough for the board, every character that is sent
\* presses its button once, for one clock, and nothing else presses any: for
\* every width of a character, every number of ticks in a bit, every depth of
\* the FIFO, and whatever the characters mean, the reset among them.
THEOREM EveryCommandOnce == ASSUME SlowLine PROVE Spec => EachCommandOnce
<1>1. InInv /\ InStepInv /\ [Next]_path_vars =>
        [inStep /\ button' # "none" =>
           /\ due_in # <<>> /\ button' = CommandOf[Head(due_in)]
           /\ button = "none"]_path_vars
  <2> SUFFICES ASSUME InInv, InStepInv, Next, inStep, button' # "none"
               PROVE  /\ due_in # <<>> /\ button' = CommandOf[Head(due_in)]
                      /\ button = "none"
    OBVIOUS
  <2>1. ClockEdge
    BY DEF Next, Reset, ResetByCommand, ResetBoard
  <2>2. decoder.state = "DATA"
    BY <2>1, EdgeIn DEF InInv, PathTypeOK
  <2>3. PICK c \in Chars : Taken(c)
    BY <2>2 DEF InStepInv, Stage, Quiet, Started, Receiving, Received, Queued, NoneDone
  <2>4. due_in = <<c>> /\ button = "none"
    BY <2>3 DEF Taken
  <2>5. button' = CommandOf[c]
    BY <2>1, <2>3, TakenStep DEF InInv
  <2>6. <<c>> # <<>> /\ Head(<<c>>) = c
    OBVIOUS
  <2> QED
    BY <2>4, <2>5, <2>6
<1> QED
  BY <1>1, InAlways, InStepAlways, PTL DEF Spec, EachCommandOnce

-----------------------------------------------------------------------------
(* From the button to the reader.                                          *)

\* Clocks until the reader has its stop bit.
ReaderClocks(r) == (DATA_BIT - Len(r.bits)) * BIT_CLOCKS + r.left

ReaderOK(r) ==
  \/ r = Idle
  \/ /\ r \in [bits : Seq(Bit), left : Nat \ {0}] /\ Len(r.bits) <= DATA_BIT
     /\ ReaderClocks(r) <= (DATA_BIT + 1) * BIT_CLOCKS + (HALF_BIT - 1)

\* n bits of a character read, and l clocks until the next sample.
HasRead(r, c, n, l) ==
  /\ Len(r.bits) = n /\ r.left = l
  /\ \A i \in 1 .. n : r.bits[i] = c[i]

\* A clock of the PC's reader.
LEMMA ReaderClock ==
  ASSUME ReaderOK(reader), reader' = ReaderNext, tx.tx \in Bit
  PROVE  /\ ReaderOK(reader')
         /\ reader = Idle /\ tx.tx = 1 => reader' = Idle
         /\ reader = Idle /\ tx.tx # 1 =>
              reader' = [bits |-> <<>>, left |-> BIT_CLOCKS + (HALF_BIT - 1)]
         /\ reader # Idle =>
              /\ reader.left \in Nat \ {0} /\ Len(reader.bits) \in 0 .. DATA_BIT
              /\ reader.left > 1 =>
                   reader'.bits = reader.bits /\ reader'.left = reader.left - 1
              /\ reader.left = 1 /\ Len(reader.bits) < DATA_BIT =>
                   reader'.bits = Append(reader.bits, tx.tx) /\ reader'.left = BIT_CLOCKS
              /\ reader.left = 1 /\ Len(reader.bits) = DATA_BIT => reader' = Idle
              /\ ReaderClocks(reader) \in Nat \ {0}
              /\ reader' # Idle => ReaderClocks(reader') = ReaderClocks(reader) - 1
         /\ Reads => reader # Idle /\ reader' = Idle
         /\ reader # Idle /\ reader' = Idle => Reads
<1> DEFINE B == BIT_CLOCKS
           n == Len(reader.bits)
           l == reader.left
           most == (DATA_BIT + 1) * BIT_CLOCKS + (HALF_BIT - 1)
<1>1. B \in Nat /\ B >= 2 /\ HALF_BIT \in Nat /\ HALF_BIT >= 1 /\ DATA_BIT \in Nat \ {0}
  BY BitParts, UartAssumption
<1>2. Idle.left = 0
  BY DEF Idle
<1>3. \A m \in Nat : m * B \in Nat /\ (m + 1) * B = m * B + B
  <2> HIDE DEF B
  <2> QED
    BY <1>1, SMTT(30)
<1>4. DATA_BIT * B \in Nat /\ most = DATA_BIT * B + B + (HALF_BIT - 1)
  <2>1. DATA_BIT * B \in Nat /\ (DATA_BIT + 1) * B = DATA_BIT * B + B
    BY <1>1, <1>3, Zenon
  <2> DEFINE x == DATA_BIT * B
             y == (DATA_BIT + 1) * B
  <2>2. x \in Nat /\ y = x + B /\ most = y + (HALF_BIT - 1)
    BY <2>1
  <2> HIDE DEF x, y, most, B
  <2>3. most = x + B + (HALF_BIT - 1)
    BY <1>1, <2>2
  <2> QED
    BY <2>1, <2>3 DEF x
<1>5. CASE reader = Idle
  <2>1. reader' = IF tx.tx = 1 THEN Idle
                  ELSE [bits |-> <<>>, left |-> B + HALF_BIT - 1]
    BY <1>2, <1>5 DEF ReaderNext, HALF_BIT
  <2>2. B + HALF_BIT - 1 = B + (HALF_BIT - 1)
    BY <1>1
  <2>3. ~Reads
    BY <1>2, <1>5 DEF Reads
  <2>4. ASSUME tx.tx # 1
        PROVE  /\ reader' = [bits |-> <<>>, left |-> B + (HALF_BIT - 1)]
               /\ ReaderOK(reader')
    <3>1. reader' = [bits |-> <<>>, left |-> B + (HALF_BIT - 1)]
      BY <2>1, <2>2, <2>4
    <3>2. Len(reader'.bits) = 0 /\ reader'.left = B + (HALF_BIT - 1)
          /\ reader' \in [bits : Seq(Bit), left : Nat \ {0}]
      <4>1. B + (HALF_BIT - 1) \in Nat \ {0} /\ <<>> \in Seq(Bit)
        BY <1>1
      <4> QED
        BY <3>1, <4>1
    <3>3. ReaderClocks(reader') = most
      <4>1. DATA_BIT - 0 = DATA_BIT
        BY <1>1
      <4>2. ReaderClocks(reader') = DATA_BIT * B + (B + (HALF_BIT - 1))
        BY <3>2, <4>1, Zenon DEF ReaderClocks
      <4> DEFINE x == DATA_BIT * B
      <4>3. x \in Nat /\ most = x + B + (HALF_BIT - 1)
        BY <1>4
      <4> HIDE DEF x, most, B
      <4>4. x + (B + (HALF_BIT - 1)) = most
        BY <1>1, <4>3
      <4> QED
        BY <4>2, <4>4 DEF x
    <3>4. most <= most /\ 0 <= DATA_BIT
      <4> DEFINE x == DATA_BIT * B
      <4>1. x \in Nat /\ most = x + B + (HALF_BIT - 1)
        BY <1>4
      <4> HIDE DEF x, most, B
      <4> QED
        BY <1>1, <4>1
    <3> HIDE DEF most, B
    <3> QED
      BY <3>1, <3>2, <3>3, <3>4 DEF ReaderOK, most, B
  <2> QED
    BY <1>2, <1>5, <2>1, <2>3, <2>4, Zenon DEF ReaderOK
<1>6. CASE reader # Idle
  <2>1. /\ reader \in [bits : Seq(Bit), left : Nat \ {0}] /\ n <= DATA_BIT
        /\ ReaderClocks(reader) <= most
    BY <1>6 DEF ReaderOK
  <2>2. l \in Nat \ {0} /\ n \in 0 .. DATA_BIT /\ reader.bits \in Seq(Bit)
    BY <1>1, <2>1
  <2>3. Reads <=> l = 1 /\ n = DATA_BIT
    BY DEF Reads
  <2> DEFINE x == (DATA_BIT - n) * B
  <2>4. ReaderClocks(reader) = x + l /\ x \in Nat
    <3>1. DATA_BIT - n \in Nat
      BY <1>1, <2>2
    <3>2. x \in Nat
      BY <1>3, <3>1, Zenon
    <3> QED
      BY <3>2 DEF ReaderClocks
  <2>5. ASSUME l > 1
        PROVE  /\ reader'.bits = reader.bits /\ reader'.left = l - 1
               /\ ReaderOK(reader') /\ reader' # Idle
               /\ ReaderClocks(reader') = ReaderClocks(reader) - 1
    <3>1. reader' = [reader EXCEPT !.left = @ - 1]
      BY <2>2, <2>5 DEF ReaderNext
    <3>2. /\ reader'.bits = reader.bits /\ reader'.left = l - 1
          /\ reader' = [bits |-> reader.bits, left |-> l - 1]
      BY <2>1, <3>1
    <3>3. l - 1 \in Nat \ {0}
      BY <2>2, <2>5
    <3>4. ReaderClocks(reader') = x + (l - 1)
      BY <3>2, Zenon DEF ReaderClocks
    <3> HIDE DEF x, l, most
    <3>5. ReaderClocks(reader') = ReaderClocks(reader) - 1
      BY <2>2, <2>4, <3>4
    <3>6. ReaderClocks(reader') <= most
      <4>1. most \in Nat
        <5> DEFINE y == DATA_BIT * B
        <5>1. y \in Nat /\ most = y + B + (HALF_BIT - 1)
          BY <1>4
        <5> HIDE DEF y, B
        <5> QED
          BY <1>1, <5>1
      <4> QED
        BY <2>1, <2>2, <2>4, <3>5, <4>1
    <3>7. reader' \in [bits : Seq(Bit), left : Nat \ {0}] /\ Len(reader'.bits) <= DATA_BIT
      BY <2>1, <2>2, <3>2, <3>3
    <3>8. reader' # Idle
      BY <1>2, <3>2, <3>3
    <3> QED
      BY <3>2, <3>5, <3>6, <3>7, <3>8 DEF ReaderOK, most, l
  <2>6. ASSUME l = 1, n < DATA_BIT
        PROVE  /\ reader'.bits = Append(reader.bits, tx.tx) /\ reader'.left = B
               /\ ReaderOK(reader') /\ reader' # Idle
               /\ ReaderClocks(reader') = ReaderClocks(reader) - 1
    <3>1. ~Reads
      BY <2>2, <2>3, <2>6
    <3>2. reader' = [bits |-> Append(reader.bits, tx.tx), left |-> B]
      BY <2>6, <3>1 DEF ReaderNext
    <3>3. /\ Append(reader.bits, tx.tx) \in Seq(Bit)
          /\ Len(Append(reader.bits, tx.tx)) = n + 1
      BY <2>2
    <3>4. reader'.bits = Append(reader.bits, tx.tx) /\ reader'.left = B
          /\ Len(reader'.bits) = n + 1
      BY <3>2, <3>3
    <3> DEFINE y == (DATA_BIT - (n + 1)) * B
    <3>5. ReaderClocks(reader') = y + B
      BY <3>4, Zenon DEF ReaderClocks
    <3>6. y \in Nat /\ x = y + B
      <4>1. DATA_BIT - (n + 1) \in Nat /\ DATA_BIT - (n + 1) + 1 = DATA_BIT - n
        BY <1>1, <2>2, <2>6
      <4>2. y \in Nat /\ (DATA_BIT - (n + 1) + 1) * B = y + B
        BY <1>3, <4>1, Zenon
      <4> QED
        BY <4>1, <4>2, Zenon
    <3> HIDE DEF x, y, most, n
    <3>7. ReaderClocks(reader') = ReaderClocks(reader) - 1
      BY <1>1, <2>4, <2>6, <3>5, <3>6
    <3>8. ReaderClocks(reader') <= most
      <4>1. most \in Nat
        <5> DEFINE z == DATA_BIT * B
        <5>1. z \in Nat /\ most = z + B + (HALF_BIT - 1)
          BY <1>4
        <5> HIDE DEF z, B
        <5> QED
          BY <1>1, <5>1
      <4> QED
        BY <2>1, <2>2, <2>4, <3>7, <4>1
    <3>9. reader' \in [bits : Seq(Bit), left : Nat \ {0}] /\ Len(reader'.bits) <= DATA_BIT
      <4>1. n + 1 <= DATA_BIT /\ B \in Nat \ {0}
        BY <1>1, <2>2, <2>6
      <4> QED
        BY <3>2, <3>3, <3>4, <4>1
    <3>10. reader' # Idle
      BY <1>1, <1>2, <3>4
    <3> QED
      BY <3>4, <3>7, <3>8, <3>9, <3>10 DEF ReaderOK, most
  <2>7. ASSUME l = 1, n = DATA_BIT
        PROVE  reader' = Idle /\ Reads
    BY <2>3, <2>7 DEF ReaderNext
  <2>8. ReaderClocks(reader) \in Nat \ {0}
    <3> HIDE DEF x, l
    <3> QED
      BY <2>2, <2>4
  <2>9. ReaderOK(Idle)
    BY DEF ReaderOK
  <2>10. l > 1 \/ (l = 1 /\ n < DATA_BIT) \/ (l = 1 /\ n = DATA_BIT)
    BY <1>1, <2>2
  <2>11. l > 1 => l # 1
    BY <2>2
  <2>12. n < DATA_BIT => n # DATA_BIT
    BY <1>1, <2>2
  <2> QED
    BY <1>6, <2>2, <2>3, <2>5, <2>6, <2>7, <2>8, <2>9, <2>10, <2>11, <2>12, Zenon
<1> QED
  BY <1>5, <1>6

\* A queue behind k characters that are already on their way.
Follows(d, k, q) ==
  Len(d) = k + Len(q) /\ \A i \in 1 .. Len(q) : d[k + i] = q[i]

Rest(q, out) == IF out THEN Tail(q) ELSE q
Then(q, in, c) == IF in THEN Append(q, c) ELSE q
One(b) == IF b THEN 1 ELSE 0
Moved(k, out, in) == (k - One(out)) + One(in)

\* A queue of which the first may be taken out.
LEMMA TailIs ==
  ASSUME NEW S, NEW q \in Seq(S), NEW out \in BOOLEAN, out => q # <<>>
  PROVE  /\ Rest(q, out) \in Seq(S) /\ Len(Rest(q, out)) = Len(q) - One(out)
         /\ Len(q) - One(out) \in Nat
         /\ \A i \in 1 .. Len(q) - One(out) : Rest(q, out)[i] = q[i + One(out)]
<1>1. CASE out
  <2>1. q # <<>> /\ Len(q) \in Nat \ {0}
    BY <1>1
  <2>2. /\ Tail(q) \in Seq(S) /\ Len(Tail(q)) = Len(q) - 1
        /\ \A i \in 1 .. Len(q) - 1 : Tail(q)[i] = q[i + 1]
    BY <2>1
  <2> QED
    BY <1>1, <2>1, <2>2 DEF Rest, One
<1>2. CASE ~out
  <2>1. Len(q) \in Nat /\ Len(q) - 0 = Len(q) /\ \A i \in 1 .. Len(q) : i + 0 = i
    OBVIOUS
  <2> QED
    BY <1>2, <2>1 DEF Rest, One
<1> QED
  BY <1>1, <1>2

\* A queue to which one may be put in.
LEMMA ThenIs ==
  ASSUME NEW S, NEW q \in Seq(S), NEW in \in BOOLEAN, NEW c \in S
  PROVE  /\ Then(q, in, c) \in Seq(S) /\ Len(Then(q, in, c)) = Len(q) + One(in)
         /\ \A i \in 1 .. Len(q) : Then(q, in, c)[i] = q[i]
         /\ in => Then(q, in, c)[Len(q) + 1] = c
<1>1. CASE in
  <2>1. /\ Append(q, c) \in Seq(S) /\ Len(Append(q, c)) = Len(q) + 1
        /\ \A i \in 1 .. Len(q) : Append(q, c)[i] = q[i]
        /\ Append(q, c)[Len(q) + 1] = c
    OBVIOUS
  <2> QED
    BY <1>1, <2>1 DEF Then, One
<1>2. CASE ~in
  BY <1>2 DEF Then, One
<1> QED
  BY <1>1, <1>2

\* The queue still follows when one is read at the front, one passes from the
\* queue to those on their way, and one is put in at the end.
LEMMA FollowsOn ==
  ASSUME NEW d \in Seq(Chars), NEW q \in Seq(Chars), NEW k \in Nat, Follows(d, k, q),
         NEW read \in BOOLEAN, NEW pop \in BOOLEAN, NEW push \in BOOLEAN, NEW c \in Chars,
         read => k >= 1, pop => q # <<>>,
         NEW d2, d2 = Then(Rest(d, read), push, c),
         NEW q2, q2 = Then(Rest(q, pop), push, c),
         NEW k2 \in Nat, k2 = Moved(k, read, pop)
  PROVE  /\ d2 \in Seq(Chars) /\ k2 \in Nat /\ Follows(d2, k2, q2)
         /\ \A i \in 1 .. k2 : d2[i] = d[i + One(read)]
         /\ pop => d[k + 1] = q[1]
<1> DEFINE a == One(read)
           b == One(pop)
           e == One(push)
           d1 == Rest(d, read)
           q1 == Rest(q, pop)
           m == Len(d)
           n == Len(q)
<1>1. /\ a \in 0 .. 1 /\ b \in 0 .. 1 /\ e \in 0 .. 1
      /\ (read <=> a = 1) /\ (pop <=> b = 1) /\ (push <=> e = 1)
  BY DEF One
<1>2. m \in Nat /\ n \in Nat /\ m = k + n /\ \A i \in 1 .. n : d[k + i] = q[i]
  BY DEF Follows
<1>3. (read => d # <<>>) /\ (pop => n >= 1)
  <2>1. read => m >= 1
    BY <1>2
  <2> QED
    BY <2>1
<1>4. /\ d1 \in Seq(Chars) /\ Len(d1) = m - a /\ m - a \in Nat
      /\ \A i \in 1 .. m - a : d1[i] = d[i + a]
  BY <1>3, TailIs
<1>5. /\ q1 \in Seq(Chars) /\ Len(q1) = n - b /\ n - b \in Nat
      /\ \A i \in 1 .. n - b : q1[i] = q[i + b]
  BY TailIs
<1> HIDE DEF d1, q1
<1>6. /\ d2 \in Seq(Chars) /\ Len(d2) = Len(d1) + e
      /\ \A i \in 1 .. Len(d1) : d2[i] = d1[i]
      /\ push => d2[Len(d1) + 1] = c
  <2>1. \A s \in Seq(Chars) :
          /\ Then(s, push, c) \in Seq(Chars) /\ Len(Then(s, push, c)) = Len(s) + One(push)
          /\ \A i \in 1 .. Len(s) : Then(s, push, c)[i] = s[i]
          /\ push => Then(s, push, c)[Len(s) + 1] = c
    BY ThenIs
  <2> QED
    BY <1>4, <2>1, Zenon DEF d1
<1>7. /\ q2 \in Seq(Chars) /\ Len(q2) = Len(q1) + e
      /\ \A i \in 1 .. Len(q1) : q2[i] = q1[i]
      /\ push => q2[Len(q1) + 1] = c
  <2>1. \A s \in Seq(Chars) :
          /\ Then(s, push, c) \in Seq(Chars) /\ Len(Then(s, push, c)) = Len(s) + One(push)
          /\ \A i \in 1 .. Len(s) : Then(s, push, c)[i] = s[i]
          /\ push => Then(s, push, c)[Len(s) + 1] = c
    BY ThenIs
  <2> QED
    BY <1>5, <2>1, Zenon DEF q1
<1>8. k2 = (k - a) + b
  BY DEF Moved
<1> HIDE DEF a, b, e, m, n
<1>9. k2 \in Nat /\ k2 <= m - a /\ k2 = (k - a) + b
  BY <1>1, <1>8, <1>2, <1>3, <1>4
<1>10. /\ a \in Int /\ b \in Int /\ e \in Int /\ m \in Int /\ n \in Int /\ k2 \in Int
       /\ m = k + n /\ Len(d2) = (m - a) + e /\ Len(q2) = (n - b) + e
  BY <1>1, <1>2, <1>4, <1>5, <1>6, <1>7, <1>9
<1>11. Len(d2) = k2 + Len(q2)
  <2> DEFINE x == Len(d2)
             y == Len(q2)
  <2>1. x = (m - a) + e /\ y = (n - b) + e
    BY <1>10
  <2> HIDE DEF x, y
  <2>2. x = k2 + y
    BY <1>9, <1>10, <2>1
  <2> QED
    BY <2>2 DEF x, y
<1>12. \A i \in 1 .. Len(q2) : d2[k2 + i] = q2[i]
  <2> SUFFICES ASSUME NEW i \in 1 .. Len(q2)
               PROVE  d2[k2 + i] = q2[i]
    OBVIOUS
  <2>1. CASE i <= n - b
    <3>1. /\ i \in 1 .. n - b /\ i + b \in 1 .. n /\ k2 + i \in 1 .. m - a
          /\ k2 + i + a = k + (i + b)
      BY <1>1, <1>2, <1>5, <1>9, <2>1
    <3>2. d2[k2 + i] = d1[k2 + i] /\ d1[k2 + i] = d[k2 + i + a]
      BY <1>4, <1>6, <3>1
    <3>3. q2[i] = q1[i] /\ q1[i] = q[i + b]
      BY <1>5, <1>7, <3>1
    <3> QED
      BY <1>2, <3>1, <3>2, <3>3
  <2>2. CASE ~(i <= n - b)
    <3>1. e = 1 /\ i = Len(q1) + 1 /\ k2 + i = Len(d1) + 1
      BY <1>1, <1>2, <1>4, <1>5, <1>7, <1>9, <2>2
    <3> QED
      BY <1>1, <1>6, <1>7, <3>1
  <2> QED
    BY <2>1, <2>2
<1>13. \A i \in 1 .. k2 : d2[i] = d[i + a]
  <2> SUFFICES ASSUME NEW i \in 1 .. k2
               PROVE  d2[i] = d[i + a]
    OBVIOUS
  <2>1. i \in 1 .. m - a /\ i \in 1 .. Len(d1)
    BY <1>4, <1>9
  <2> QED
    BY <1>4, <1>6, <2>1
<1>14. pop => d[k + 1] = q[1]
  BY <1>2, <1>3
<1> QED
  BY <1>6, <1>9, <1>11, <1>12, <1>13, <1>14, Zenon DEF Follows, a

\* What a clock edge does on the way out.
LEMMA EdgeOut ==
  ASSUME PathTypeOK, TickInv(tick), ReaderOK(reader), ClockEdge
  PROVE  /\ reader' = ReaderNext /\ ReaderOK(reader') /\ tx.tx \in Bit
         /\ sender' = SenderNext(button = "S")
         /\ tx' = TxNext(tx, tick.o_bps_tick, ~fifo_tx.empty, Tx!PopData)
         /\ cut' = (cut /\ reader' # Idle)
         /\ (crowded' <=> ((button = "S" /\ due_out # <<>>) \/ (crowded /\ due_out' # <<>>)))
         /\ Tx!Contents \in Seq(Chars)
         /\ fifo_tx.empty <=> Tx!Contents = <<>>
         /\ fifo_tx.full <=> Len(Tx!Contents) = DEPTH_TX
         /\ Tx!Contents # <<>> => Tx!PopData = Tx!Contents[1]
         /\ Tx!PopData \in Chars
         /\ \E c \in Chars :
              /\ Tx!Contents' = Then(Rest(Tx!Contents, TxPop), sender.run /\ ~fifo_tx.full, c)
              /\ due_out' = Then(Answered, sender.run /\ ~fifo_tx.full, c)
<1>1. /\ Tx!FifoInv /\ tx \in Transmitters /\ sender.run \in BOOLEAN
      /\ sender.digit_sel \in 0 .. REPORT_LENGTH - 1
  BY DEF PathTypeOK
<1>2. tx.tx \in Bit /\ tx.tx_busy \in BOOLEAN
  BY <1>1 DEF Transmitters
<1>3. /\ reader' = ReaderNext
      /\ sender' = SenderNext(button = "S")
      /\ tx' = TxNext(tx, tick.o_bps_tick, ~fifo_tx.empty, Tx!PopData)
      /\ cut' = (cut /\ reader' # Idle)
      /\ (crowded' <=> ((button = "S" /\ due_out # <<>>) \/ (crowded /\ due_out' # <<>>)))
  <2>1. reader' = ReaderNext
    BY Zenon DEF ClockEdge, PcClock
  <2>2. sender' = SenderNext(button = "S")
    BY Zenon DEF ClockEdge
  <2>3. tx' = TxNext(tx, tick.o_bps_tick, ~fifo_tx.empty, Tx!PopData)
    BY Zenon DEF ClockEdge
  <2>4. cut' = (cut /\ reader' # Idle)
    BY Zenon DEF ClockEdge
  <2>5. crowded' <=> ((button = "S" /\ due_out # <<>>) \/ (crowded /\ due_out' # <<>>))
    BY Zenon DEF ClockEdge
  <2> QED
    BY <2>1, <2>2, <2>3, <2>4, <2>5, Zenon
<1>4. PICK c \in OutData :
        /\ Tx!Clock(sender.run, TxPop, c)
        /\ due_out' = IF sender.run /\ ~fifo_tx.full THEN Append(Answered, c) ELSE Answered
  BY Zenon DEF ClockEdge
<1>5. c \in Chars
  BY <1>1, PathAssumption DEF OutData
<1>6. /\ Tx!Contents \in Seq(Chars) /\ Len(Tx!Contents) \in 0 .. DEPTH_TX
      /\ fifo_tx.empty <=> Tx!Contents = <<>>
      /\ fifo_tx.full <=> Len(Tx!Contents) = DEPTH_TX
      /\ Tx!Contents # <<>> => Tx!PopData = Tx!Contents[1]
  BY <1>1, TxHolds
<1>7. TxPop \in BOOLEAN /\ (TxPop => Tx!Contents # <<>>)
  BY <1>6 DEF TxPop
<1>8. Tx!Contents' = Tx!QueueAfter(Tx!Contents, sender.run, TxPop, c)
  BY <1>1, <1>4, <1>5, <1>7, TxStep
<1>9. Len(Tx!Contents) < DEPTH_TX <=> ~fifo_tx.full
  <2>1. Len(Tx!Contents) < DEPTH_TX <=> Len(Tx!Contents) # DEPTH_TX
    BY <1>6, PathAssumption
  <2> QED
    BY <1>6, <2>1
<1>10. Tx!Contents' = Then(Rest(Tx!Contents, TxPop), sender.run /\ ~fifo_tx.full, c)
  <2> DEFINE q == Tx!Contents
             q2 == Tx!Contents'
             room == Len(Tx!Contents) < DEPTH_TX
  <2>1. q2 = LET left == IF TxPop /\ q # <<>> THEN Tail(q) ELSE q
             IN  IF sender.run /\ room THEN Append(left, c) ELSE left
    BY <1>8, Zenon DEF Tx!QueueAfter
  <2>2. TxPop => q # <<>>
    BY <1>7
  <2>3. room <=> ~fifo_tx.full
    BY <1>9
  <2> HIDE DEF q, q2, room
  <2>4. q2 = Then(Rest(q, TxPop), sender.run /\ ~fifo_tx.full, c)
    BY <2>1, <2>2, <2>3, Zenon DEF Then, Rest
  <2> QED
    BY <2>4 DEF q, q2
<1>11. due_out' = Then(Answered, sender.run /\ ~fifo_tx.full, c)
  BY <1>4, Zenon DEF Then
<1>12. Tx!PopData \in Chars
  BY <1>1, PopTypes DEF PathTypeOK
<1> QED
  BY <1>2, <1>3, <1>5, <1>6, <1>10, <1>11, <1>12, ReaderClock, Zenon

-----------------------------------------------------------------------------
(* What the transmitter and the reader do together.                        *)

\* Clocks until the transmitter's bit ends.
TxLeft == Until(tick, tx.bps_count)

\* The register when j bits are out: the rest, the marker, and ones behind it.
Marked(reg, c, j) ==
  \A i \in 1 .. DATA_BIT + 1 :
    reg[i] = IF i <= DATA_BIT - j THEN c[i + j] ELSE IF i = DATA_BIT + 1 - j THEN 0 ELSE 1

\* How far the reader is when bit j is on the line for t clocks more: the start
\* bit is bit 0, the stop bit the last.
Hearing(r, c, j, t) ==
  IF j = 0 /\ t = BIT_CLOCKS - 1 THEN r = Idle
  ELSE IF j > 0 /\ t >= BIT_CLOCKS - HALF_BIT
       THEN HasRead(r, c, j - 1, (t + HALF_BIT + 1) - BIT_CLOCKS)
       ELSE HasRead(r, c, j, t + HALF_BIT + 1)

SenderInv ==
  /\ tx.tx_busy <=> tx.state # "IDLE"
  /\ sender.run <=> sender.state = "DATA"
  /\ tx.state # "S0" => tx.tx = 1

\* The reader stays in the middle of the bits.
LEMMA HearingStep ==
  ASSUME ReaderOK(reader), reader' = ReaderNext, tx.tx \in Bit,
         NEW c \in Chars, NEW j \in 0 .. DATA_BIT + 1, NEW t \in Nat, t < BIT_CLOCKS,
         Hearing(reader, c, j, t), j = DATA_BIT + 1 => t >= BIT_CLOCKS - HALF_BIT,
         tx.tx = IF j = 0 THEN 0 ELSE IF j = DATA_BIT + 1 THEN 1 ELSE c[j]
  PROVE  /\ j <= DATA_BIT => ~Reads
         /\ j <= DATA_BIT /\ t # 0 => Hearing(reader', c, j, t - 1)
         /\ j <= DATA_BIT /\ t = 0 =>
              reader' # Idle /\ Hearing(reader', c, j + 1, BIT_CLOCKS - 1)
         /\ j = DATA_BIT + 1 /\ t > BIT_CLOCKS - HALF_BIT =>
              ~Reads /\ Hearing(reader', c, j, t - 1)
         /\ j = DATA_BIT + 1 /\ t = BIT_CLOCKS - HALF_BIT => reader' = Idle
         /\ j = DATA_BIT + 1 => reader # Idle /\ (Reads => reader.bits = c)
<1> DEFINE B == BIT_CLOCKS
           H == HALF_BIT
           n == Len(reader.bits)
           l == reader.left
<1>1. B \in Nat /\ H \in Nat /\ 1 <= H /\ H < B /\ DATA_BIT \in Nat /\ DATA_BIT >= 1
  BY BitParts, UartAssumption
<1>2. /\ Idle.left = 0 /\ Idle.bits = <<>> /\ Len(<<>>) = 0
  BY DEF Idle
<1>3. Reads <=> l = 1 /\ n = DATA_BIT
  BY DEF Reads
<1> HIDE DEF B, H
<1>4. CASE j = 0 /\ t = B - 1
  <2>1. reader = Idle /\ ~Reads /\ t # 0 /\ t - 1 # B - 1 /\ j <= DATA_BIT /\ j # DATA_BIT + 1
        /\ ~(j > 0)
    BY <1>1, <1>2, <1>3, <1>4 DEF Hearing, B
  <2>2. reader' = [bits |-> <<>>, left |-> B + (H - 1)]
    BY <1>4, <2>1, ReaderClock DEF B, H
  <2>3. B + (H - 1) = (t - 1) + H + 1
    BY <1>1, <1>4
  <2>4. HasRead(reader', c, 0, (t - 1) + H + 1)
    BY <1>2, <2>2, <2>3 DEF HasRead
  <2>5. Hearing(reader', c, j, t - 1)
    BY <1>4, <2>1, <2>4 DEF Hearing, B, H
  <2> QED
    BY <2>1, <2>5
<1>5. CASE ~(j = 0 /\ t = B - 1)
  <2>1. /\ j > 0 /\ t >= B - H => n = j - 1 /\ l = (t + H + 1) - B
        /\ ~(j > 0 /\ t >= B - H) => n = j /\ l = t + H + 1
        /\ \A i \in 1 .. n : reader.bits[i] = c[i]
    BY <1>5 DEF Hearing, HasRead, B, H
  <2>2. l >= 1
    BY <1>1, <2>1
  <2>3. reader # Idle
    BY <1>2, <2>2
  <2>4. /\ l \in Nat /\ n \in 0 .. DATA_BIT
        /\ l > 1 => reader'.bits = reader.bits /\ reader'.left = l - 1
        /\ l = 1 /\ n < DATA_BIT =>
             reader'.bits = Append(reader.bits, tx.tx) /\ reader'.left = B
        /\ l = 1 /\ n = DATA_BIT => reader' = Idle
        /\ reader.bits \in Seq(Bit)
    <3>1. reader.bits \in Seq(Bit)
      BY <2>3 DEF ReaderOK
    <3> QED
      BY <2>3, <3>1, ReaderClock DEF B
  <2> HIDE DEF n, l
  <2>5. CASE j <= DATA_BIT
    <3>1. j # DATA_BIT + 1 /\ ~Reads
      BY <1>1, <1>3, <2>1, <2>4, <2>5
    <3>2. CASE t # 0
      <4>1. CASE j > 0 /\ t = B - H
        <5>1. l = 1 /\ n = j - 1 /\ n < DATA_BIT /\ ~(t - 1 >= B - H) /\ (t - 1) + H + 1 = B
              /\ j # 0 /\ tx.tx = c[j]
          BY <1>1, <2>1, <2>4, <2>5, <3>1, <4>1
        <5>2. /\ Len(Append(reader.bits, tx.tx)) = j
              /\ \A i \in 1 .. j : Append(reader.bits, tx.tx)[i] = c[i]
          <6>1. /\ Len(Append(reader.bits, tx.tx)) = n + 1
                /\ \A i \in 1 .. n : Append(reader.bits, tx.tx)[i] = reader.bits[i]
                /\ Append(reader.bits, tx.tx)[n + 1] = tx.tx
            BY <2>4 DEF n
          <6>2. n + 1 = j /\ \A i \in 1 .. j : i \in 1 .. n \/ i = n + 1
            BY <2>4, <5>1
          <6> QED
            BY <2>1, <5>1, <6>1, <6>2
        <5>3. HasRead(reader', c, j, (t - 1) + H + 1)
          BY <2>4, <5>1, <5>2 DEF HasRead
        <5>4. Hearing(reader', c, j, t - 1)
          BY <5>1, <5>3 DEF Hearing, B, H
        <5> QED
          BY <2>5, <3>1, <3>2, <5>4
      <4>2. CASE j > 0 /\ t > B - H
        <5>1. /\ l > 1 /\ n = j - 1 /\ t - 1 >= B - H /\ l - 1 = ((t - 1) + H + 1) - B
              /\ j # 0
          BY <1>1, <2>1, <4>2
        <5>2. HasRead(reader', c, j - 1, ((t - 1) + H + 1) - B)
          BY <2>1, <2>4, <5>1 DEF HasRead, n
        <5>3. Hearing(reader', c, j, t - 1)
          BY <4>2, <5>1, <5>2 DEF Hearing, B, H
        <5> QED
          BY <2>5, <3>1, <3>2, <5>3
      <4>3. CASE ~(j > 0 /\ t >= B - H)
        <5>1. /\ l > 1 /\ n = j /\ l - 1 = (t - 1) + H + 1
              /\ ~(j = 0 /\ t - 1 = B - 1) /\ ~(j > 0 /\ t - 1 >= B - H)
          <6>1. t < B
            BY DEF B
          <6> QED
            BY <1>1, <2>1, <4>3, <6>1
        <5>2. HasRead(reader', c, j, (t - 1) + H + 1)
          BY <2>1, <2>4, <5>1 DEF HasRead, n
        <5>3. Hearing(reader', c, j, t - 1)
          BY <5>1, <5>2 DEF Hearing, B, H
        <5> QED
          BY <2>5, <3>1, <3>2, <5>3
      <4>4. j > 0 /\ t >= B - H => t = B - H \/ t > B - H
        BY <1>1
      <4> QED
        BY <4>1, <4>2, <4>3, <4>4
    <3>3. CASE t = 0
      <4>1. /\ l = H + 1 /\ n = j /\ l > 1 /\ l - 1 = ((B - 1) + H + 1) - B
            /\ j + 1 > 0 /\ j + 1 # 0 /\ (j + 1) - 1 = j /\ B - 1 >= B - H
        BY <1>1, <2>1, <3>3
      <4>2. /\ reader'.bits = reader.bits /\ reader'.left # 0
            /\ reader'.left = ((B - 1) + H + 1) - B
        <5>1. reader'.bits = reader.bits /\ reader'.left = l - 1
          BY <2>4, <4>1
        <5>2. l - 1 # 0
          BY <2>4, <4>1
        <5> QED
          BY <4>1, <5>1, <5>2
      <4>3. HasRead(reader', c, j, ((B - 1) + H + 1) - B)
        BY <2>1, <4>1, <4>2 DEF HasRead, n
      <4>4. Hearing(reader', c, j + 1, B - 1)
        BY <4>1, <4>3 DEF Hearing, B, H
      <4> QED
        BY <1>2, <2>5, <3>1, <3>3, <4>2, <4>4 DEF B
    <3> QED
      BY <3>2, <3>3
  <2>6. CASE j = DATA_BIT + 1
    <3>1. /\ ~(j <= DATA_BIT) /\ j > 0 /\ j # 0 /\ t >= B - H
          /\ n = DATA_BIT /\ l = (t + H + 1) - B
      BY <1>1, <2>1, <2>6 DEF B, H
    <3>2. CASE t = B - H
      <4>1. l = 1 /\ ~(t > B - H)
        BY <1>1, <3>1, <3>2
      <4>2. reader' = Idle
        BY <2>4, <3>1, <4>1
      <4>3. reader.bits = c
        BY <2>1, <2>4, <3>1 DEF n, Chars
      <4> QED
        BY <2>3, <3>1, <4>1, <4>2, <4>3 DEF B, H
    <3>3. CASE t > B - H
      <4>1. /\ l > 1 /\ n = j - 1 /\ t - 1 >= B - H /\ l - 1 = ((t - 1) + H + 1) - B
            /\ t # B - H
        BY <1>1, <2>6, <3>1, <3>3
      <4>2. HasRead(reader', c, j - 1, ((t - 1) + H + 1) - B)
        BY <2>1, <2>4, <4>1 DEF HasRead, n
      <4>3. Hearing(reader', c, j, t - 1)
        BY <3>1, <4>1, <4>2 DEF Hearing, B, H
      <4>4. ~Reads
        BY <1>3, <2>4, <4>1
      <4> QED
        BY <2>3, <3>1, <4>1, <4>3, <4>4 DEF B, H
    <3>4. t = B - H \/ t > B - H
      BY <1>1, <3>1
    <3> QED
      BY <3>2, <3>3, <3>4
  <2>7. j <= DATA_BIT \/ j = DATA_BIT + 1
    BY <1>1
  <2> QED
    BY <2>5, <2>6, <2>7
<1> QED
  BY <1>4, <1>5

\* The marker tells when all bits are out.
LEMMA MarkedOn ==
  ASSUME NEW reg \in [1 .. DATA_BIT + 1 -> Bit], NEW c \in Chars, NEW j \in 0 .. DATA_BIT,
         Marked(reg, c, j)
  PROVE  /\ AllSent(reg) <=> j = DATA_BIT
         /\ j # DATA_BIT => reg[1] = c[j + 1] /\ Marked(Shifted(reg, 1), c, j + 1)
<1>1. 1 \in Bit
  BY DEF Bit
<1>2. DATA_BIT \in Nat /\ DATA_BIT >= 1
  BY UartAssumption
<1>3. CASE j = DATA_BIT
  <2>1. \A i \in 2 .. DATA_BIT + 1 :
          i \in 1 .. DATA_BIT + 1 /\ ~(i <= DATA_BIT - j) /\ i # DATA_BIT + 1 - j
    BY <1>2, <1>3
  <2> QED
    BY <1>3, <2>1 DEF Marked, AllSent
<1>4. CASE j # DATA_BIT
  <2>1. /\ DATA_BIT + 1 - j \in 2 .. DATA_BIT + 1 /\ DATA_BIT + 1 - j \in 1 .. DATA_BIT + 1
        /\ ~(DATA_BIT + 1 - j <= DATA_BIT - j)
        /\ 1 \in 1 .. DATA_BIT + 1 /\ 1 <= DATA_BIT - j /\ 1 + j = j + 1
    BY <1>2, <1>4
  <2>2. reg[DATA_BIT + 1 - j] = 0 /\ reg[1] = c[j + 1]
    BY <2>1 DEF Marked
  <2>3. ~AllSent(reg)
    BY <2>1, <2>2 DEF AllSent
  <2>4. Marked(Shifted(reg, 1), c, j + 1)
    <3> SUFFICES ASSUME NEW i \in 1 .. DATA_BIT + 1
                 PROVE  Shifted(reg, 1)[i] =
                          IF i <= DATA_BIT - (j + 1) THEN c[i + (j + 1)]
                          ELSE IF i = DATA_BIT + 1 - (j + 1) THEN 0 ELSE 1
      BY DEF Marked
    <3>1. CASE i = DATA_BIT + 1
      <4>1. ~(i <= DATA_BIT - (j + 1)) /\ i # DATA_BIT + 1 - (j + 1)
        BY <1>2, <3>1
      <4>2. Shifted(reg, 1)[i] = 1
        BY <1>1, <3>1, ShiftedBits
      <4> QED
        BY <4>1, <4>2
    <3>2. CASE i # DATA_BIT + 1
      <4>1. /\ i \in 1 .. DATA_BIT /\ i + 1 \in 1 .. DATA_BIT + 1
            /\ (i + 1 <= DATA_BIT - j <=> i <= DATA_BIT - (j + 1))
            /\ (i + 1 = DATA_BIT + 1 - j <=> i = DATA_BIT + 1 - (j + 1))
            /\ (i + 1) + j = i + (j + 1)
        BY <1>2, <3>2
      <4>2. Shifted(reg, 1)[i] = reg[i + 1]
        BY <1>1, <4>1, ShiftedBits
      <4>3. reg[i + 1] = IF i + 1 <= DATA_BIT - j THEN c[(i + 1) + j]
                         ELSE IF i + 1 = DATA_BIT + 1 - j THEN 0 ELSE 1
        BY <4>1 DEF Marked
      <4> QED
        BY <4>1, <4>2, <4>3
    <3> QED
      BY <3>1, <3>2
  <2> QED
    BY <1>4, <2>2, <2>3, <2>4
<1> QED
  BY <1>3, <1>4

\* A character as it is loaded.
LEMMA MarkedFirst ==
  ASSUME NEW c \in Chars
  PROVE  Marked(Append(c, 0), c, 0)
<1>1. 0 \in Bit
  BY DEF Bit
<1>2. /\ \A i \in 1 .. DATA_BIT : Append(c, 0)[i] = c[i]
      /\ Append(c, 0)[DATA_BIT + 1] = 0
  BY <1>1, MarkedBits
<1>3. /\ DATA_BIT \in Nat /\ DATA_BIT - 0 = DATA_BIT /\ DATA_BIT + 1 - 0 = DATA_BIT + 1
      /\ \A i \in 1 .. DATA_BIT + 1 : i + 0 = i
      /\ \A i \in 1 .. DATA_BIT + 1 : i <= DATA_BIT => i \in 1 .. DATA_BIT
      /\ \A i \in 1 .. DATA_BIT + 1 : ~(i <= DATA_BIT) => i = DATA_BIT + 1
  BY UartAssumption
<1> QED
  BY <1>2, <1>3 DEF Marked

\* What a clock edge does to the transmitter.
LEMMA TransmitterEdge ==
  ASSUME PathTypeOK, TickInv(tick), HostOK(host), ReaderOK(reader), SenderInv, ClockEdge
  PROVE  /\ TxLeft \in Nat /\ TxLeft < BIT_CLOCKS /\ TxLeft >= UntilTick(tick)
         /\ TxLeft' = IF TxLeft = 0 THEN BIT_CLOCKS - 1 ELSE TxLeft - 1
         /\ tx.state = "IDLE" \/ tx.state = "START" \/ tx.state = "S0"
         /\ TxPop <=> (tx.state = "IDLE" /\ ~fifo_tx.empty)
         /\ tx.state = "IDLE" /\ fifo_tx.empty => tx'.state = "IDLE"
         /\ TxPop => /\ tx'.state = "START"
                     /\ Tx!Contents[1] \in Chars /\ tx'.data_reg = Append(Tx!Contents[1], 0)
         /\ tx.state = "START" => /\ tx'.state = (IF TxLeft = 0 THEN "S0" ELSE "START")
                                  /\ tx'.data_reg = tx.data_reg
                                  /\ TxLeft = 0 => tx'.tx = 0
         /\ tx.state = "S0" /\ TxLeft = 0 /\ ~AllSent(tx.data_reg) =>
              /\ tx'.state = "S0" /\ tx'.tx = tx.data_reg[1]
              /\ tx'.data_reg = Shifted(tx.data_reg, 1)
         /\ tx.state = "S0" /\ TxLeft = 0 /\ AllSent(tx.data_reg) => tx'.state = "IDLE"
         /\ tx.state = "S0" /\ TxLeft # 0 =>
              tx'.state = "S0" /\ tx'.tx = tx.tx /\ tx'.data_reg = tx.data_reg
         /\ SenderInv'
<1>1. /\ tx \in Transmitters /\ tx.state \in {"IDLE", "START", "S0"}
      /\ tx.bps_count \in 0 .. OVERSAMPLE - 1 /\ tick.o_bps_tick \in BOOLEAN
      /\ sender \in [state : {"IDLE", "DATA"}, run : BOOLEAN,
                     digit_sel : 0 .. REPORT_LENGTH - 1]
  BY Zenon DEF PathTypeOK, Transmitters, Ticks
<1>2. /\ (fifo_tx.empty \in BOOLEAN) /\ tx.tx_busy \in BOOLEAN
  BY <1>1 DEF PathTypeOK, Tx!FifoInv, Tx!Fifos, Transmitters
<1>3. /\ tx' = TxNext(tx, tick.o_bps_tick, ~fifo_tx.empty, Tx!PopData)
      /\ Tx!PopData \in Chars /\ Tx!Contents \in Seq(Chars)
      /\ fifo_tx.empty <=> Tx!Contents = <<>>
      /\ Tx!Contents # <<>> => Tx!PopData = Tx!Contents[1]
      /\ sender' = SenderNext(button = "S")
  BY EdgeOut, Zenon
<1>4. tick' = TickNext(tick)
  BY EdgeIn
<1>5. /\ TxLeft \in Nat /\ TxLeft < BIT_CLOCKS /\ TxLeft >= UntilTick(tick)
  BY <1>1, UntilStep DEF TxLeft
<1>6. /\ Until(TickNext(tick), tx'.bps_count) =
           IF TxLeft = 0 THEN BIT_CLOCKS - 1 ELSE TxLeft - 1
      /\ tx.state = "IDLE" =>
           /\ tx'.state = (IF ~fifo_tx.empty THEN "START" ELSE "IDLE")
           /\ tx'.tx = 1 /\ tx'.tx_busy = ~fifo_tx.empty
           /\ tx'.data_reg = Append(Tx!PopData, 0)
      /\ tx.state = "START" =>
           /\ tx'.state = (IF TxLeft = 0 THEN "S0" ELSE "START")
           /\ tx'.tx = (IF TxLeft = 0 THEN 0 ELSE 1) /\ tx'.tx_busy
           /\ tx'.data_reg = tx.data_reg
      /\ tx.state = "S0" /\ TxLeft = 0 /\ ~AllSent(tx.data_reg) =>
           /\ tx'.state = "S0" /\ tx'.tx = tx.data_reg[1] /\ tx'.tx_busy
           /\ tx'.data_reg = Shifted(tx.data_reg, 1)
      /\ tx.state = "S0" /\ TxLeft = 0 /\ AllSent(tx.data_reg) =>
           tx'.state = "IDLE" /\ tx'.tx = 1 /\ ~tx'.tx_busy
      /\ tx.state = "S0" /\ TxLeft # 0 =>
           /\ tx'.state = "S0" /\ tx'.tx = tx.tx /\ tx'.tx_busy
           /\ tx'.data_reg = tx.data_reg
  <2>1. (~fifo_tx.empty) \in BOOLEAN
    OBVIOUS
  <2> DEFINE go == ~fifo_tx.empty
             c  == Tx!PopData
             r2 == TxNext(tx, tick.o_bps_tick, go, c)
  <2>2. go \in BOOLEAN /\ c \in Chars
    BY <1>3, <2>1
  <2>3. /\ Until(TickNext(tick), r2.bps_count) =
             IF TxLeft = 0 THEN BIT_CLOCKS - 1 ELSE TxLeft - 1
        /\ tx.state = "IDLE" =>
             /\ r2.state = (IF go THEN "START" ELSE "IDLE")
             /\ r2.tx = 1 /\ r2.tx_busy = go /\ r2.data_reg = Append(c, 0)
        /\ tx.state = "START" =>
             /\ r2.state = (IF TxLeft = 0 THEN "S0" ELSE "START")
             /\ r2.tx = (IF TxLeft = 0 THEN 0 ELSE 1) /\ r2.tx_busy
             /\ r2.data_reg = tx.data_reg
        /\ tx.state = "S0" /\ TxLeft = 0 /\ ~AllSent(tx.data_reg) =>
             /\ r2.state = "S0" /\ r2.tx = tx.data_reg[1] /\ r2.tx_busy
             /\ r2.data_reg = Shifted(tx.data_reg, 1)
        /\ tx.state = "S0" /\ TxLeft = 0 /\ AllSent(tx.data_reg) =>
             r2.state = "IDLE" /\ r2.tx = 1 /\ ~r2.tx_busy
        /\ tx.state = "S0" /\ TxLeft # 0 =>
             /\ r2.state = "S0" /\ r2.tx = tx.tx /\ r2.tx_busy
             /\ r2.data_reg = tx.data_reg
    <3> HIDE DEF go, c
    <3> QED
      BY <1>1, <2>2, TransmitterClock DEF TxLeft
  <2>4. tx' = r2
    BY <1>3
  <2> HIDE DEF r2
  <2> QED
    BY <2>3, <2>4, Zenon
<1>7. TxLeft' = IF TxLeft = 0 THEN BIT_CLOCKS - 1 ELSE TxLeft - 1
  <2>1. TxLeft' = Until(TickNext(tick), tx'.bps_count)
    BY <1>4, Zenon DEF TxLeft
  <2> QED
    BY <1>6, <2>1, Zenon
<1>8. TxPop <=> (tx.state = "IDLE" /\ ~fifo_tx.empty)
  BY <1>1, Zenon DEF TxPop, SenderInv
<1>9. TxPop => /\ tx'.state = "START"
               /\ Tx!Contents[1] \in Chars /\ tx'.data_reg = Append(Tx!Contents[1], 0)
  BY <1>3, <1>6, <1>8, Zenon
<1>10. SenderInv'
  <2>1. tx'.tx_busy <=> tx'.state # "IDLE"
    BY <1>1, <1>6, Zenon
  <2>2. tx'.state # "S0" => tx'.tx = 1
    BY <1>1, <1>6
  <2>3. sender'.run <=> sender'.state = "DATA"
    <3>1. sender.state \in {"IDLE", "DATA"} /\ (sender.run <=> sender.state = "DATA")
      BY <1>1 DEF SenderInv
    <3>2. /\ sender.state = "IDLE" /\ button = "S" => sender'.state = "DATA" /\ sender'.run = TRUE
          /\ sender.state = "IDLE" /\ button # "S" => sender'.state = "IDLE" /\ sender'.run = FALSE
      BY <1>1, <1>3 DEF SenderNext
    <3>3. sender.state = "DATA" =>
            \/ sender'.state = "IDLE" /\ sender'.run = FALSE
            \/ sender'.state = "DATA" /\ sender'.run = sender.run
      <4>1. sender.digit_sel >= REPORT_LENGTH - 1 \/ sender.digit_sel < REPORT_LENGTH - 1
        BY <1>1, PathAssumption
      <4> QED
        BY <1>1, <1>3, <4>1 DEF SenderNext, SenderReset
    <3> QED
      BY <3>1, <3>2, <3>3, Zenon
  <2> QED
    BY <2>1, <2>2, <2>3 DEF SenderInv
<1> QED
  <2>1. tx.state = "IDLE" \/ tx.state = "START" \/ tx.state = "S0"
    BY <1>1
  <2>2. /\ (tx.state = "IDLE" /\ fifo_tx.empty => tx'.state = "IDLE")
        /\ (tx.state = "START" => /\ tx'.state = (IF TxLeft = 0 THEN "S0" ELSE "START")
                                  /\ tx'.data_reg = tx.data_reg
                                  /\ TxLeft = 0 => tx'.tx = 0)
    BY <1>6, Zenon
  <2> QED
    BY <1>5, <1>6, <1>7, <1>8, <1>9, <1>10, <2>1, <2>2, Zenon

-----------------------------------------------------------------------------
(* What is still owed to the PC.                                           *)

\* One character is on the line while the PC has not yet read what the
\* transmitter has finished, and one in the transmitter.
OnLine == IF ~cut /\ reader # Idle /\ tx.state # "S0" THEN 1 ELSE 0
Busy   == IF tx.state = "IDLE" THEN 0 ELSE 1

OwedInv ==
  /\ due_out \in Seq(Chars) /\ Follows(due_out, OnLine + Busy, Tx!Contents)
  /\ tx.state = "START" => Marked(tx.data_reg, due_out[OnLine + 1], 0)

TalkInv ==
  ~cut =>
    IF tx.state = "S0"
    THEN \E j \in 0 .. DATA_BIT : /\ Marked(tx.data_reg, due_out[1], j)
                                  /\ tx.tx = IF j = 0 THEN 0 ELSE due_out[1][j]
                                  /\ Hearing(reader, due_out[1], j, TxLeft)
    ELSE \/ reader = Idle
         \/ /\ TxLeft >= BIT_CLOCKS - HALF_BIT
            /\ Hearing(reader, due_out[1], DATA_BIT + 1, TxLeft)

\* A character that is cut off is still being read, and no new one is sent.
CutFirst == cut => reader # Idle /\ tx.state # "S0"

TalkOK == /\ PathTypeOK /\ TickInv(tick) /\ HostOK(host) /\ ReaderOK(reader) /\ SenderInv
          /\ OwedInv /\ TalkInv /\ CutFirst

\* While a character is on the line it is the oldest that is owed.
LEMMA OldestOwed ==
  ASSUME TalkOK, OnLine = 1 \/ Busy = 1
  PROVE  due_out # <<>> /\ due_out[1] \in Chars
<1> DEFINE n == Len(Tx!Contents)
<1>1. due_out \in Seq(Chars) /\ Len(due_out) = OnLine + Busy + n
  BY DEF TalkOK, OwedInv, Follows
<1>2. n \in Nat
  <2>1. Tx!Contents \in Seq(Chars)
    BY TxHolds DEF TalkOK, PathTypeOK
  <2> QED
    BY <2>1
<1>3. OnLine \in 0 .. 1 /\ Busy \in 0 .. 1
  BY DEF OnLine, Busy
<1> HIDE DEF n
<1>4. Len(due_out) >= 1
  BY <1>1, <1>2, <1>3
<1> QED
  BY <1>1, <1>4

\* Between the start bit and the last one.
LEMMA TalkBusy ==
  ASSUME TalkOK, ClockEdge, tx.state = "S0"
  PROVE  /\ ~cut /\ ~Reads /\ due_out[1] \in Chars
         /\ \E j \in 0 .. DATA_BIT :
              /\ Marked(tx.data_reg, due_out[1], j)
              /\ tx.tx = IF j = 0 THEN 0 ELSE due_out[1][j]
              /\ TxLeft # 0 => Hearing(reader', due_out[1], j, TxLeft - 1)
              /\ TxLeft = 0 => /\ reader' # Idle
                               /\ Hearing(reader', due_out[1], j + 1, BIT_CLOCKS - 1)
<1>1. ~cut /\ Busy = 1
  BY DEF TalkOK, CutFirst, Busy
<1>2. due_out[1] \in Chars
  BY <1>1, OldestOwed
<1>3. PICK j \in 0 .. DATA_BIT : /\ Marked(tx.data_reg, due_out[1], j)
                                 /\ tx.tx = IF j = 0 THEN 0 ELSE due_out[1][j]
                                 /\ Hearing(reader, due_out[1], j, TxLeft)
  BY <1>1 DEF TalkOK, TalkInv
<1>4. /\ ReaderOK(reader) /\ reader' = ReaderNext /\ tx.tx \in Bit
      /\ TxLeft \in Nat /\ TxLeft < BIT_CLOCKS
  BY EdgeOut, TransmitterEdge DEF TalkOK
<1>5. /\ j \in 0 .. DATA_BIT + 1 /\ j # DATA_BIT + 1 /\ j <= DATA_BIT
  BY UartAssumption
<1>6. tx.tx = IF j = 0 THEN 0 ELSE IF j = DATA_BIT + 1 THEN 1 ELSE due_out[1][j]
  BY <1>3, <1>5
<1> DEFINE c == due_out[1]
           t == TxLeft
<1>7. c \in Chars /\ t \in Nat /\ t < BIT_CLOCKS /\ Hearing(reader, c, j, t)
      /\ tx.tx = IF j = 0 THEN 0 ELSE IF j = DATA_BIT + 1 THEN 1 ELSE c[j]
  BY <1>2, <1>3, <1>4, <1>6
<1> HIDE DEF c, t
<1>8. /\ ~Reads
      /\ t # 0 => Hearing(reader', c, j, t - 1)
      /\ t = 0 => reader' # Idle /\ Hearing(reader', c, j + 1, BIT_CLOCKS - 1)
  BY <1>4, <1>5, <1>7, HearingStep
<1> QED
  BY <1>1, <1>2, <1>3, <1>8, Zenon DEF c, t

\* The stop bit.
LEMMA TalkQuiet ==
  ASSUME TalkOK, ClockEdge, tx.state # "S0", ~cut, reader # Idle
  PROVE  /\ due_out # <<>> /\ due_out[1] \in Chars /\ OnLine = 1
         /\ Reads => reader.bits = due_out[1]
         /\ TxLeft >= BIT_CLOCKS - HALF_BIT
         /\ TxLeft > BIT_CLOCKS - HALF_BIT =>
              ~Reads /\ Hearing(reader', due_out[1], DATA_BIT + 1, TxLeft - 1)
         /\ TxLeft = BIT_CLOCKS - HALF_BIT => reader' = Idle
<1>1. OnLine = 1
  BY DEF OnLine
<1>2. due_out # <<>> /\ due_out[1] \in Chars
  BY <1>1, OldestOwed
<1>3. /\ TxLeft >= BIT_CLOCKS - HALF_BIT
      /\ Hearing(reader, due_out[1], DATA_BIT + 1, TxLeft)
  BY DEF TalkOK, TalkInv
<1>4. /\ ReaderOK(reader) /\ reader' = ReaderNext /\ tx.tx \in Bit /\ tx.tx = 1
      /\ TxLeft \in Nat /\ TxLeft < BIT_CLOCKS
  BY EdgeOut, TransmitterEdge DEF TalkOK, SenderInv
<1> DEFINE c == due_out[1]
           t == TxLeft
           j == DATA_BIT + 1
<1>5. j \in 0 .. DATA_BIT + 1 /\ j # 0 /\ j = DATA_BIT + 1
  BY UartAssumption
<1>6. c \in Chars /\ t \in Nat /\ t < BIT_CLOCKS /\ Hearing(reader, c, j, t)
      /\ t >= BIT_CLOCKS - HALF_BIT
      /\ tx.tx = IF j = 0 THEN 0 ELSE IF j = DATA_BIT + 1 THEN 1 ELSE c[j]
  BY <1>2, <1>3, <1>4, <1>5
<1> HIDE DEF c, t, j
<1>7. /\ t > BIT_CLOCKS - HALF_BIT => ~Reads /\ Hearing(reader', c, j, t - 1)
      /\ t = BIT_CLOCKS - HALF_BIT => reader' = Idle
      /\ Reads => reader.bits = c
  BY <1>4, <1>5, <1>6, HearingStep
<1> QED
  BY <1>1, <1>2, <1>3, <1>7, Zenon DEF c, t, j

\* How many are on their way, from one clock to the next.
LEMMA OnTheWay ==
  ASSUME TalkOK, ClockEdge
  PROVE  /\ OnLine \in 0 .. 1 /\ Busy \in 0 .. 1
         /\ OnLine' \in 0 .. 1 /\ Busy' \in 0 .. 1
         /\ Reads /\ ~cut => OnLine = 1 /\ tx.state # "S0"
         /\ OnLine' + Busy' = ((OnLine + Busy) - One(Reads /\ ~cut)) + One(TxPop)
         /\ tx.state # "S0" /\ tx'.state # "S0" => OnLine' = OnLine - One(Reads /\ ~cut)
         /\ tx.state # "S0" /\ tx'.state = "S0" =>
              OnLine = 0 /\ ~(Reads /\ ~cut) /\ (cut \/ reader = Idle)
<1>1. /\ cut' = (cut /\ reader' # Idle) /\ reader' = ReaderNext /\ ReaderOK(reader)
      /\ tx.tx \in Bit /\ (tx.state # "S0" => tx.tx = 1)
  BY EdgeOut DEF TalkOK, SenderInv
<1>2. /\ tx.state = "IDLE" \/ tx.state = "START" \/ tx.state = "S0"
      /\ TxPop <=> (tx.state = "IDLE" /\ ~fifo_tx.empty)
      /\ tx.state = "IDLE" /\ fifo_tx.empty => tx'.state = "IDLE"
      /\ TxPop => tx'.state = "START"
      /\ tx.state = "START" => tx'.state = (IF TxLeft = 0 THEN "S0" ELSE "START")
      /\ tx.state = "S0" => (tx'.state = "S0" \/ (TxLeft = 0 /\ tx'.state = "IDLE"))
      /\ TxLeft \in Nat
  BY TransmitterEdge DEF TalkOK
<1>3. /\ OnLine \in 0 .. 1 /\ Busy \in 0 .. 1 /\ OnLine' \in 0 .. 1 /\ Busy' \in 0 .. 1
  BY DEF OnLine, Busy
<1>4. /\ reader = Idle /\ tx.tx = 1 => reader' = Idle
      /\ Reads => reader # Idle /\ reader' = Idle
      /\ reader # Idle /\ reader' = Idle => Reads
  BY <1>1, ReaderClock
<1>5. tx.state = "S0" => ~cut /\ ~Reads /\ (TxLeft = 0 => reader' # Idle)
  BY TalkBusy
<1>6. Reads /\ ~cut => OnLine = 1 /\ tx.state # "S0"
  BY <1>4, <1>5 DEF OnLine
<1>7. tx.state # "S0" /\ tx'.state # "S0" => OnLine' = OnLine - One(Reads /\ ~cut)
  <2> SUFFICES ASSUME tx.state # "S0", tx'.state # "S0"
               PROVE  OnLine' = OnLine - One(Reads /\ ~cut)
    OBVIOUS
  <2>1. CASE cut
    <3>1. OnLine = 0 /\ OnLine' = 0 /\ One(Reads /\ ~cut) = 0
      BY <1>1, <2>1 DEF OnLine, One
    <3> QED
      BY <3>1
  <2>2. CASE ~cut /\ reader = Idle
    <3>1. OnLine = 0 /\ OnLine' = 0 /\ One(Reads /\ ~cut) = 0
      BY <1>1, <1>4, <2>2 DEF OnLine, One
    <3> QED
      BY <3>1
  <2>3. CASE ~cut /\ reader # Idle /\ Reads
    <3>1. OnLine = 1 /\ OnLine' = 0 /\ One(Reads /\ ~cut) = 1
      BY <1>1, <1>4, <2>3 DEF OnLine, One
    <3> QED
      BY <3>1
  <2>4. CASE ~cut /\ reader # Idle /\ ~Reads
    <3>1. OnLine = 1 /\ OnLine' = 1 /\ One(Reads /\ ~cut) = 0
      BY <1>1, <1>4, <2>4 DEF OnLine, One
    <3> QED
      BY <3>1
  <2> QED
    BY <2>1, <2>2, <2>3, <2>4
<1>8. tx.state # "S0" /\ tx'.state = "S0" =>
        OnLine = 0 /\ ~(Reads /\ ~cut) /\ (cut \/ reader = Idle)
  <2> SUFFICES ASSUME tx.state # "S0", tx'.state = "S0"
               PROVE  OnLine = 0 /\ ~(Reads /\ ~cut) /\ (cut \/ reader = Idle)
    OBVIOUS
  <2>1. TxLeft = 0
    BY <1>2
  <2>2. cut \/ reader = Idle
    <3>1. ~(0 >= BIT_CLOCKS - HALF_BIT)
      BY BitParts
    <3>2. ~cut /\ reader # Idle => TxLeft >= BIT_CLOCKS - HALF_BIT
      BY TalkQuiet, Zenon
    <3> QED
      BY <2>1, <3>1, <3>2, Zenon
  <2> QED
    BY <1>4, <2>2 DEF OnLine
<1>9. OnLine' + Busy' = ((OnLine + Busy) - One(Reads /\ ~cut)) + One(TxPop)
  <2>1. CASE tx.state = "S0"
    <3>1. OnLine = 0 /\ Busy = 1 /\ One(Reads /\ ~cut) = 0 /\ One(TxPop) = 0
      BY <1>2, <1>5, <2>1 DEF OnLine, Busy, One
    <3>2. (OnLine' = 0 /\ Busy' = 1) \/ (OnLine' = 1 /\ Busy' = 0)
      BY <1>1, <1>2, <1>5, <2>1 DEF OnLine, Busy
    <3> QED
      BY <3>1, <3>2
  <2>2. CASE tx.state # "S0" /\ tx'.state = "S0"
    <3>1. /\ OnLine = 0 /\ OnLine' = 0 /\ Busy = 1 /\ Busy' = 1
          /\ One(Reads /\ ~cut) = 0 /\ One(TxPop) = 0
      BY <1>2, <1>8, <2>2 DEF OnLine, Busy, One
    <3> QED
      BY <3>1
  <2>3. CASE tx.state # "S0" /\ tx'.state # "S0"
    <3>1. Busy' = Busy + One(TxPop)
      BY <1>2, <2>3 DEF Busy, One
    <3>2. One(Reads /\ ~cut) \in 0 .. 1 /\ One(TxPop) \in 0 .. 1
      BY DEF One
    <3> QED
      BY <1>3, <1>7, <2>3, <3>1, <3>2
  <2> QED
    BY <2>1, <2>2, <2>3
<1> QED
  BY <1>3, <1>6, <1>7, <1>8, <1>9

\* A clock keeps what is owed in order: the characters on their way, then those
\* in FIFO_TX; and the oldest stays the oldest until it is read.
LEMMA OwedStep ==
  ASSUME TalkOK, ClockEdge
  PROVE  /\ OwedInv'
         /\ \A i \in 1 .. OnLine' + Busy' : due_out'[i] = due_out[i + One(Reads /\ ~cut)]
<1> DEFINE read == Reads /\ ~cut
           pop  == TxPop
           push == sender.run /\ ~fifo_tx.full
           k    == OnLine + Busy
           k2   == OnLine' + Busy'
           d    == due_out
           q    == Tx!Contents
<1>1. /\ OnLine \in 0 .. 1 /\ Busy \in 0 .. 1 /\ OnLine' \in 0 .. 1 /\ Busy' \in 0 .. 1
      /\ read => OnLine = 1
      /\ k2 = (k - One(read)) + One(pop)
  BY OnTheWay
<1>2. d \in Seq(Chars) /\ Follows(d, k, q) /\ q \in Seq(Chars)
  BY EdgeOut DEF TalkOK, OwedInv
<1>3. read \in BOOLEAN /\ pop \in BOOLEAN /\ push \in BOOLEAN /\ k \in Nat
      /\ (read => k >= 1) /\ (read => d # <<>>)
  <2>1. k \in Nat /\ (read => k >= 1)
    BY <1>1
  <2>2. read => d # <<>>
    BY <1>1, OldestOwed
  <2>3. sender.run \in BOOLEAN
    BY DEF TalkOK, PathTypeOK
  <2> QED
    BY <2>1, <2>2, <2>3 DEF TxPop
<1>4. pop => q # <<>>
  <2>1. fifo_tx.empty <=> q = <<>>
    BY EdgeOut DEF TalkOK
  <2> QED
    BY <2>1 DEF TxPop
<1>5. PICK c \in Chars : /\ Tx!Contents' = Then(Rest(q, pop), push, c)
                         /\ due_out' = Then(Answered, push, c)
  BY EdgeOut DEF TalkOK
<1>6. Answered = Rest(d, read)
  BY <1>3 DEF Answered, Rest
<1> HIDE DEF read, pop, push, k, d, q
<1>7. PICK d2, q2 : d2 = Then(Rest(d, read), push, c) /\ q2 = Then(Rest(q, pop), push, c)
  OBVIOUS
<1>8. PICK k3 \in Nat : k3 = k2 /\ k3 = Moved(k, read, pop)
  <2>1. k2 = Moved(k, read, pop)
    BY <1>1, Zenon DEF Moved
  <2>2. \A x, y \in 0 .. 1 : x + y \in Nat
    OBVIOUS
  <2>3. k2 \in Nat
    BY <1>1, <2>2, Zenon
  <2> QED
    BY <2>1, <2>3, Zenon
<1>9. /\ d2 \in Seq(Chars) /\ Follows(d2, k3, q2)
      /\ \A i \in 1 .. k3 : d2[i] = d[i + One(read)]
      /\ pop => d[k + 1] = q[1]
  <2>1. \A k4 \in Nat : k4 = Moved(k, read, pop) =>
          \A d3, q3 : d3 = Then(Rest(d, read), push, c) /\ q3 = Then(Rest(q, pop), push, c) =>
            /\ d3 \in Seq(Chars) /\ Follows(d3, k4, q3)
            /\ \A i \in 1 .. k4 : d3[i] = d[i + One(read)]
            /\ pop => d[k + 1] = q[1]
    BY <1>2, <1>3, <1>4, FollowsOn
  <2> QED
    BY <1>7, <1>8, <2>1, Zenon
<1>10. /\ due_out' \in Seq(Chars) /\ Follows(due_out', k2, Tx!Contents')
       /\ \A i \in 1 .. k2 : due_out'[i] = d[i + One(read)]
  <2>1. due_out' = d2 /\ Tx!Contents' = q2 /\ k2 = k3
    BY <1>1, <1>5, <1>6, <1>7, <1>8, Zenon
  <2> QED
    BY <1>9, <2>1
<1>11. tx'.state = "START" => Marked(tx'.data_reg, due_out'[OnLine' + 1], 0)
  <2> SUFFICES ASSUME tx'.state = "START"
               PROVE  Marked(tx'.data_reg, due_out'[OnLine' + 1], 0)
    OBVIOUS
  <2>1. /\ tx.state = "IDLE" \/ tx.state = "START" \/ tx.state = "S0"
        /\ TxPop <=> (tx.state = "IDLE" /\ ~fifo_tx.empty)
        /\ tx.state = "IDLE" /\ fifo_tx.empty => tx'.state = "IDLE"
        /\ TxPop => q[1] \in Chars /\ tx'.data_reg = Append(q[1], 0)
        /\ tx.state = "START" => tx'.data_reg = tx.data_reg
        /\ tx.state = "S0" => tx'.state # "START"
    BY TransmitterEdge DEF TalkOK, q
  <2>2. Busy' = 1 /\ OnLine' + 1 \in 1 .. k2
    <3>1. Busy' = 1
      BY DEF Busy
    <3>2. \A x \in 0 .. 1 : x + 1 \in 1 .. x + 1
      OBVIOUS
    <3> QED
      BY <1>1, <3>1, <3>2
  <2>3. OnLine' = OnLine - One(read)
    BY <2>1, OnTheWay DEF read
  <2>4. One(read) \in 0 .. 1
    BY DEF One
  <2>5. due_out'[OnLine' + 1] = d[OnLine + 1]
    <3>1. OnLine' + 1 + One(read) = OnLine + 1
      <4>1. \A x, y, z \in 0 .. 1 : y = x - z => y + 1 + z = x + 1
        OBVIOUS
      <4> QED
        BY <1>1, <2>3, <2>4, <4>1
    <3>2. due_out'[OnLine' + 1] = d[OnLine' + 1 + One(read)]
      BY <1>10, <2>2
    <3> QED
      BY <3>1, <3>2
  <2>6. CASE TxPop
    <3>1. Busy = 0
      BY <2>1, <2>6 DEF Busy
    <3>2. k + 1 = OnLine + 1
      BY <1>1, <3>1 DEF k
    <3>3. d[OnLine + 1] = q[1]
      BY <1>9, <2>6, <3>2 DEF pop
    <3> QED
      BY <2>1, <2>5, <2>6, <3>3, MarkedFirst
  <2>7. CASE ~TxPop
    <3>1. tx.state = "START"
      BY <2>1, <2>7
    <3>2. Marked(tx.data_reg, d[OnLine + 1], 0)
      BY <3>1 DEF TalkOK, OwedInv, d
    <3> QED
      BY <2>1, <2>5, <3>1, <3>2
  <2> QED
    BY <2>6, <2>7
<1>12. OwedInv'
  BY <1>10, <1>11, Zenon DEF OwedInv
<1> QED
  BY <1>10, <1>12 DEF d, read

\* A clock keeps the reader in the middle of the bits.
LEMMA TalkStep ==
  ASSUME TalkOK, ClockEdge
  PROVE  TalkInv'
<1> SUFFICES ASSUME ~cut'
             PROVE  TalkInv'
  BY DEF TalkInv
<1> DEFINE b == BIT_CLOCKS - HALF_BIT
           t == TxLeft
<1>1. /\ cut' = (cut /\ reader' # Idle) /\ reader' = ReaderNext /\ ReaderOK(reader)
      /\ tx.tx \in Bit /\ tx.data_reg \in [1 .. DATA_BIT + 1 -> Bit]
      /\ (tx.state # "S0" => tx.tx = 1)
  BY EdgeOut DEF TalkOK, SenderInv, PathTypeOK, Transmitters
<1>2. /\ BIT_CLOCKS \in Nat /\ HALF_BIT \in Nat /\ b \in Int /\ b > 0 /\ b <= BIT_CLOCKS - 1
      /\ t \in Nat /\ t < BIT_CLOCKS /\ DATA_BIT \in Nat /\ DATA_BIT >= 1
      /\ TxLeft' = IF t = 0 THEN BIT_CLOCKS - 1 ELSE t - 1
  <2>1. /\ t \in Nat /\ t < BIT_CLOCKS
        /\ TxLeft' = IF t = 0 THEN BIT_CLOCKS - 1 ELSE t - 1
    BY TransmitterEdge DEF TalkOK
  <2>2. /\ BIT_CLOCKS \in Nat /\ HALF_BIT \in Nat /\ b \in Int /\ b > 0 /\ b <= BIT_CLOCKS - 1
        /\ DATA_BIT \in Nat /\ DATA_BIT >= 1
    BY BitParts, UartAssumption
  <2> QED
    BY <2>1, <2>2
<1>3. \A i \in 1 .. OnLine' + Busy' : due_out'[i] = due_out[i + One(Reads /\ ~cut)]
  BY OwedStep
<1>4. OnLine \in 0 .. 1 /\ Busy \in 0 .. 1 /\ OnLine' \in 0 .. 1 /\ Busy' \in 0 .. 1
  BY OnTheWay
<1>5. ASSUME ~(Reads /\ ~cut), OnLine' = 1 \/ Busy' = 1
      PROVE  due_out'[1] = due_out[1]
  <2>1. One(Reads /\ ~cut) = 0
    BY <1>5 DEF One
  <2>2. 1 \in 1 .. OnLine' + Busy' /\ 1 + 0 = 1
    <3>1. (\A x, y \in 0 .. 1 : x = 1 \/ y = 1 => 1 \in 1 .. x + y) /\ 1 + 0 = 1
      OBVIOUS
    <3>2. OnLine' = 1 \/ Busy' = 1
      BY <1>5, Zenon
    <3> QED
      BY <1>4, <3>1, <3>2, Zenon
  <2> QED
    BY <1>3, <2>1, <2>2
<1>6. /\ reader = Idle /\ tx.tx = 1 => reader' = Idle
      /\ Reads => reader # Idle /\ reader' = Idle
  BY <1>1, ReaderClock
<1>7. tx'.state = "S0" => Busy' = 1
  BY DEF Busy
<1>8. CASE tx.state = "S0"
  <2>1. ~cut /\ ~Reads /\ due_out[1] \in Chars
    BY <1>8, TalkBusy
  <2>2. PICK j \in 0 .. DATA_BIT :
          /\ Marked(tx.data_reg, due_out[1], j)
          /\ tx.tx = IF j = 0 THEN 0 ELSE due_out[1][j]
          /\ t # 0 => Hearing(reader', due_out[1], j, t - 1)
          /\ t = 0 => /\ reader' # Idle
                      /\ Hearing(reader', due_out[1], j + 1, BIT_CLOCKS - 1)
    BY <1>8, TalkBusy
  <2>3. /\ AllSent(tx.data_reg) <=> j = DATA_BIT
        /\ j # DATA_BIT => /\ tx.data_reg[1] = due_out[1][j + 1]
                           /\ Marked(Shifted(tx.data_reg, 1), due_out[1], j + 1)
    BY <1>1, <2>1, <2>2, MarkedOn
  <2>4. CASE t # 0
    <3>1. tx'.state = "S0" /\ tx'.tx = tx.tx /\ tx'.data_reg = tx.data_reg
      BY <1>8, <2>4, TransmitterEdge DEF TalkOK
    <3>2. due_out'[1] = due_out[1]
      BY <1>5, <1>7, <2>1, <3>1
    <3>3. TxLeft' = t - 1
      BY <1>2, <2>4
    <3>4. /\ Marked(tx'.data_reg, due_out'[1], j)
          /\ tx'.tx = IF j = 0 THEN 0 ELSE due_out'[1][j]
          /\ Hearing(reader', due_out'[1], j, TxLeft')
      BY <2>2, <2>4, <3>1, <3>2, <3>3
    <3> QED
      BY <3>1, <3>4, Zenon DEF TalkInv
  <2>5. CASE t = 0 /\ j # DATA_BIT
    <3>1. /\ tx'.state = "S0" /\ tx'.tx = tx.data_reg[1]
          /\ tx'.data_reg = Shifted(tx.data_reg, 1)
      BY <1>8, <2>3, <2>5, TransmitterEdge DEF TalkOK
    <3>2. due_out'[1] = due_out[1]
      BY <1>5, <1>7, <2>1, <3>1
    <3>3. TxLeft' = BIT_CLOCKS - 1
      BY <1>2, <2>5
    <3>4. j + 1 \in 0 .. DATA_BIT /\ j + 1 # 0
      BY <1>2, <2>5
    <3>5. /\ Marked(tx'.data_reg, due_out'[1], j + 1)
          /\ tx'.tx = IF j + 1 = 0 THEN 0 ELSE due_out'[1][j + 1]
          /\ Hearing(reader', due_out'[1], j + 1, TxLeft')
      BY <2>2, <2>3, <2>5, <3>1, <3>2, <3>3, <3>4
    <3> QED
      BY <3>1, <3>4, <3>5, Zenon DEF TalkInv
  <2>6. CASE t = 0 /\ j = DATA_BIT
    <3>1. tx'.state = "IDLE"
      BY <1>8, <2>3, <2>6, TransmitterEdge DEF TalkOK
    <3>2. OnLine' = 1
      BY <2>2, <2>6, <3>1 DEF OnLine
    <3>3. due_out'[1] = due_out[1]
      BY <1>5, <2>1, <3>2
    <3>4. TxLeft' = BIT_CLOCKS - 1 /\ TxLeft' >= b
      BY <1>2, <2>6
    <3>5. Hearing(reader', due_out'[1], DATA_BIT + 1, TxLeft')
      BY <2>2, <2>6, <3>3, <3>4
    <3> QED
      BY <3>1, <3>4, <3>5, Zenon DEF TalkInv
  <2> QED
    BY <2>4, <2>5, <2>6
<1>9. CASE tx.state # "S0" /\ (cut \/ reader = Idle)
  <2>1. reader' = Idle
    BY <1>1, <1>6, <1>9
  <2>2. CASE tx'.state # "S0"
    BY <2>1, <2>2 DEF TalkInv
  <2>3. CASE tx'.state = "S0"
    <3>1. tx.state = "START" /\ t = 0 /\ tx'.data_reg = tx.data_reg /\ tx'.tx = 0
      <4>1. /\ tx.state = "IDLE" \/ tx.state = "START"
            /\ tx.state = "IDLE" /\ fifo_tx.empty => tx'.state = "IDLE"
            /\ tx.state = "IDLE" /\ ~fifo_tx.empty => tx'.state = "START"
            /\ tx.state = "START" => /\ tx'.state = (IF TxLeft = 0 THEN "S0" ELSE "START")
                                     /\ tx'.data_reg = tx.data_reg
                                     /\ TxLeft = 0 => tx'.tx = 0
        BY <1>9, TransmitterEdge DEF TalkOK
      <4> QED
        BY <2>3, <4>1
    <3>2. OnLine = 0 /\ ~(Reads /\ ~cut)
      BY <1>9, <2>3, OnTheWay
    <3>3. Marked(tx'.data_reg, due_out[1], 0)
      <4>1. OnLine + 1 = 1
        BY <3>2
      <4> QED
        BY <3>1, <4>1 DEF TalkOK, OwedInv
    <3>4. due_out'[1] = due_out[1]
      BY <1>5, <1>7, <2>3, <3>2
    <3>5. TxLeft' = BIT_CLOCKS - 1
      BY <1>2, <3>1
    <3>6. Hearing(reader', due_out'[1], 0, TxLeft')
      BY <2>1, <3>5 DEF Hearing
    <3>7. 0 \in 0 .. DATA_BIT
      BY <1>2
    <3> QED
      BY <2>3, <3>1, <3>3, <3>4, <3>6, <3>7, Zenon DEF TalkInv
  <2> QED
    BY <2>2, <2>3
<1>10. CASE tx.state # "S0" /\ ~cut /\ reader # Idle
  <2>1. /\ t >= b
        /\ t > b => ~Reads /\ Hearing(reader', due_out[1], DATA_BIT + 1, t - 1)
        /\ t = b => reader' = Idle
    BY <1>10, TalkQuiet
  <2>2. tx'.state # "S0"
    BY <1>10, OnTheWay
  <2>3. CASE reader' = Idle
    BY <2>2, <2>3 DEF TalkInv
  <2>4. CASE reader' # Idle
    <3>1. t > b /\ t # 0 /\ TxLeft' = t - 1 /\ TxLeft' >= b
      BY <1>2, <2>1, <2>4
    <3>2. OnLine' = 1
      BY <1>1, <1>10, <2>2, <2>4 DEF OnLine
    <3>3. due_out'[1] = due_out[1]
      BY <1>5, <2>1, <3>1, <3>2
    <3>4. Hearing(reader', due_out'[1], DATA_BIT + 1, TxLeft')
      BY <2>1, <3>1, <3>3
    <3> QED
      BY <2>2, <3>1, <3>4, Zenon DEF TalkInv
  <2> QED
    BY <2>3, <2>4
<1> QED
  BY <1>8, <1>9, <1>10

-----------------------------------------------------------------------------
(* A character that a reset has cut off.                                   *)

\* The flag of FIFO_TX, in a form that also speaks of the next state.
LEMMA TxHoldsAlways == Tx!FifoInv => (fifo_tx.empty <=> Tx!Contents = <<>>)
BY TxHolds

\* The board has nothing to send and has been told nothing.
ReportQuiet ==
  NoneDone /\ button = "none" /\ ~sender.run /\ fifo_tx.empty /\ tx.state = "IDLE"

\* The ones that the register of the receiver was filled with are not yet out.
Refilled(k) == \A i \in 1 .. DATA_BIT + 1 - k : rx.data_buf[i] = 1

\* The PC has done with a character that was cut off before the board can begin
\* to send another: that takes a command, which takes as long.
CutInv ==
  cut => /\ reader # Idle /\ tx.state # "S0"
         /\ \/ ReportQuiet /\ Waiting
            \/ /\ ReportQuiet /\ ~Waiting
               /\ \E k \in 0 .. DATA_BIT + 1 :
                    /\ Refilled(k)
                    /\ ReaderClocks(reader) <=
                         (Until(tick, rx.counter_reg) + (DATA_BIT + 1 - k) * BIT_CLOCKS)
                           + (B_VALUE - 1)
            \/ ReaderClocks(reader) <= UntilTick(tick)

\* The receiver's first sample, counted from the tick on which it starts.
LEMMA AfterStart ==
  ASSUME TickInv(tick), tick.o_bps_tick
  PROVE  Until(TickNext(tick), HALF + 1) = FIRST_SAMPLE - 1
<1> DEFINE r  == OVERSAMPLE - 1 - HALF
           b  == B_VALUE
           u2 == UntilTick(TickNext(tick))
<1>1. r \in Nat /\ b \in Nat /\ r # 0 /\ OVERSAMPLE - 1 - (HALF + 1) = r - 1
  BY BitParts, UartAssumption
<1>2. u2 = b - 1
  <2>1. 0 \in 0 .. OVERSAMPLE - 1
    BY UartAssumption
  <2> QED
    BY <2>1, UntilStep
<1>3. FIRST_SAMPLE = r * b
  BY DEF FIRST_SAMPLE
<1>4. Until(TickNext(tick), HALF + 1) = (r - 1) * b + u2
  BY <1>1 DEF Until
<1> HIDE DEF r, b, u2
<1>5. (r - 1) * b = r * b - b /\ r * b \in Int
  BY <1>1, SMTT(30)
<1> DEFINE x == r * b
           y == (r - 1) * b
<1>6. y = x - b /\ x \in Int
  BY <1>5
<1>7. Until(TickNext(tick), HALF + 1) = y + u2 /\ FIRST_SAMPLE = x
  BY <1>3, <1>4
<1> HIDE DEF x, y
<1> QED
  BY <1>1, <1>2, <1>6, <1>7

\* With nothing to send and no command received the board goes on like that.
LEMMA QuietOn ==
  ASSUME TalkOK, ReportQuiet, ClockEdge
  PROVE  /\ tx'.state = "IDLE"
         /\ ~rx'.rx_done => ReportQuiet'
<1>1. tx'.state = "IDLE"
  BY TransmitterEdge DEF TalkOK, ReportQuiet
<1>2. fifo_rx'.empty /\ decoder'.state = "IDLE" /\ button' = "none"
  BY EdgeIn DEF TalkOK, ReportQuiet, NoneDone
<1>3. ~sender'.run
  <2>1. sender' = SenderNext(button = "S") /\ sender.state = "IDLE" /\ button # "S"
    BY EdgeOut DEF TalkOK, ReportQuiet, SenderInv, PathTypeOK
  <2> QED
    BY <2>1 DEF SenderNext, TalkOK, PathTypeOK
<1>4. fifo_tx'.empty
  <2>1. /\ ~TxPop /\ ~(sender.run /\ ~fifo_tx.empty) /\ ~(sender.run /\ ~fifo_tx.full)
    BY DEF TxPop, ReportQuiet
  <2>2. fifo_tx.empty => Tx!Contents = <<>>
    BY EdgeOut DEF TalkOK
  <2>3. PICK c \in Chars :
          Tx!Contents' = Then(Rest(Tx!Contents, TxPop), sender.run /\ ~fifo_tx.full, c)
    BY EdgeOut DEF TalkOK
  <2>4. Tx!Contents' = <<>>
    BY <2>1, <2>2, <2>3, Zenon DEF Then, Rest, ReportQuiet
  <2>5. (Tx!FifoInv)'
    BY EdgeIn DEF TalkOK, PathTypeOK
  <2>6. (Tx!FifoInv => (fifo_tx.empty <=> Tx!Contents = <<>>))'
    BY TxHoldsAlways, PTL
  <2> QED
    BY <2>4, <2>5, <2>6
<1> QED
  BY <1>1, <1>2, <1>3, <1>4 DEF ReportQuiet, NoneDone

\* A clock keeps the PC ahead of the board after a reset.
LEMMA CutStep ==
  ASSUME TalkOK, CutInv, ClockEdge
  PROVE  CutInv'
<1> SUFFICES ASSUME cut'
             PROVE  CutInv'
  BY DEF CutInv
<1> DEFINE B  == BIT_CLOCKS
           v  == B_VALUE
           Q  == ReaderClocks(reader)
           Q2 == ReaderClocks(reader')
           u  == UntilTick(tick)
           u2 == UntilTick(tick')
           n  == Until(tick, rx.counter_reg)
           n2 == Until(tick', rx'.counter_reg)
<1>1. cut /\ reader' # Idle /\ reader # Idle /\ tx.state # "S0"
  BY EdgeOut DEF TalkOK, CutFirst
<1>2. Q \in Nat \ {0} /\ Q2 = Q - 1
  <2>1. ReaderOK(reader) /\ reader' = ReaderNext /\ tx.tx \in Bit
    BY EdgeOut DEF TalkOK
  <2> QED
    BY <1>1, <2>1, ReaderClock
<1>3. tick' = TickNext(tick) /\ rx' = RxNext(rx, tick.o_bps_tick, Line)
  BY EdgeIn DEF TalkOK
<1>4. /\ rx \in Receivers /\ rx.b_state \in {"IDLE", "DATA"}
      /\ rx.counter_reg \in 0 .. OVERSAMPLE - 1 /\ rx.data_buf \in [1 .. DATA_BIT + 1 -> Bit]
      /\ rx.b_state = "IDLE" => rx.counter_reg = HALF
      /\ tick.o_bps_tick \in BOOLEAN /\ Line \in Bit /\ TickInv(tick)
  BY LineIs DEF TalkOK, PathTypeOK, Receivers, Ticks
<1>5. /\ u \in Nat /\ u < v /\ (u = 0 <=> tick.o_bps_tick)
      /\ u2 = IF u = 0 THEN v - 1 ELSE u - 1
      /\ n \in Nat /\ n < B /\ n >= u
  BY <1>3, <1>4, UntilStep
<1>6. /\ B \in Nat /\ v \in Nat /\ v >= 1 /\ FIRST_SAMPLE \in Nat /\ HALF_BIT \in Nat
      /\ HALF_BIT <= FIRST_SAMPLE + v /\ DATA_BIT \in Nat /\ DATA_BIT >= 1
  BY BitParts, UartAssumption
<1>7. /\ rx.b_state = "IDLE" /\ ~(tick.o_bps_tick /\ Line = 0) => ReceiverWaits(rx, rx')
      /\ rx.b_state = "IDLE" /\ tick.o_bps_tick /\ Line = 0 => ReceiverStarts(rx, rx')
      /\ rx.b_state = "DATA" /\ n # 0 => ReceiverCounts(rx, rx', tick)
      /\ rx.b_state = "DATA" /\ n = 0 =>
           /\ ReceiverSamples(rx, rx', Line)
           /\ rx.data_buf[1] = 1 =>
                /\ rx'.b_state = "DATA" /\ ~rx'.rx_done
                /\ Until(TickNext(tick), rx'.counter_reg) = B - 1
  BY <1>3, <1>4, ReceiverClock, Zenon
<1>8. \A i \in Nat : i * B \in Nat /\ (i + 1) * B = i * B + B
  <2> HIDE DEF B
  <2> QED
    BY <1>6, SMTT(30)
<1>9. CASE ReportQuiet /\ Waiting
  <2>1. tx'.state = "IDLE" /\ (~rx'.rx_done => ReportQuiet')
    BY <1>9, QuietOn
  <2>2. CASE ~(tick.o_bps_tick /\ Line = 0)
    <3>1. Waiting' /\ ~rx'.rx_done
      BY <1>7, <1>9, <2>2, Zenon DEF ReceiverWaits, Waiting
    <3> QED
      BY <1>1, <2>1, <3>1 DEF CutInv
  <2>3. CASE tick.o_bps_tick /\ Line = 0
    <3>1. ReceiverStarts(rx, rx')
      BY <1>7, <1>9, <2>3, Zenon DEF Waiting
    <3>2. ~Waiting' /\ ~rx'.rx_done /\ n2 = FIRST_SAMPLE - 1
      BY <1>3, <1>4, <2>3, <3>1, AfterStart DEF ReceiverStarts, Waiting
    <3>3. Refilled(0)'
      <4>1. DATA_BIT + 1 - 0 = DATA_BIT + 1
        BY <1>6
      <4> QED
        BY <3>1, <4>1 DEF ReceiverStarts, Refilled
    <3> DEFINE w == (DATA_BIT + 1 - 0) * B
    <3>4. w = (DATA_BIT + 1) * B /\ w \in Nat
      <4>1. DATA_BIT + 1 - 0 = DATA_BIT + 1 /\ DATA_BIT + 1 \in Nat
        BY <1>6
      <4> QED
        BY <1>8, <4>1, Zenon
    <3>5. Q <= w + (HALF_BIT - 1)
      BY <1>1, <3>4 DEF TalkOK, ReaderOK
    <3> HIDE DEF w, Q, Q2, n2, v, B
    <3>6. Q2 <= (n2 + w) + (v - 1)
      BY <1>2, <1>6, <3>2, <3>4, <3>5
    <3>7. 0 \in 0 .. DATA_BIT + 1
      BY <1>6
    <3> QED
      BY <1>1, <2>1, <3>2, <3>3, <3>6, <3>7, Zenon DEF CutInv, w, Q2, n2, v, B
  <2> QED
    BY <2>2, <2>3
<1>10. CASE ReportQuiet /\ ~Waiting
            /\ \E k \in 0 .. DATA_BIT + 1 :
                 Refilled(k) /\ Q <= (n + (DATA_BIT + 1 - k) * B) + (v - 1)
  <2>1. tx'.state = "IDLE" /\ (~rx'.rx_done => ReportQuiet')
    BY <1>10, QuietOn
  <2>2. PICK k \in 0 .. DATA_BIT + 1 :
          Refilled(k) /\ Q <= (n + (DATA_BIT + 1 - k) * B) + (v - 1)
    BY <1>10
  <2>3. rx.b_state = "DATA"
    BY <1>4, <1>10 DEF Waiting
  <2> DEFINE w == (DATA_BIT + 1 - k) * B
  <2>4. DATA_BIT + 1 - k \in Nat /\ w \in Nat
    <3>1. DATA_BIT + 1 - k \in Nat
      BY <1>6
    <3> QED
      BY <1>8, <3>1, Zenon
  <2>5. Q <= (n + w) + (v - 1)
    BY <2>2
  <2>6. CASE n # 0
    <3>1. /\ rx'.b_state = "DATA" /\ ~rx'.rx_done /\ rx'.data_buf = rx.data_buf /\ n2 = n - 1
      BY <1>3, <1>7, <2>3, <2>6 DEF ReceiverCounts
    <3>2. Refilled(k)' /\ ~Waiting'
      BY <2>2, <3>1 DEF Refilled, Waiting
    <3> HIDE DEF w, Q, Q2, n, n2, v, B
    <3>3. Q2 <= (n2 + w) + (v - 1)
      BY <1>2, <1>5, <1>6, <2>4, <2>5, <3>1
    <3> QED
      BY <1>1, <2>1, <3>1, <3>2, <3>3, Zenon DEF CutInv, w, Q2, n2, v, B
  <2>7. CASE n = 0 /\ rx.data_buf[1] = 1
    <3>1. /\ rx'.b_state = "DATA" /\ ~rx'.rx_done /\ n2 = B - 1
          /\ \A i \in 1 .. DATA_BIT : rx'.data_buf[i] = rx.data_buf[i + 1]
      BY <1>3, <1>7, <2>3, <2>7 DEF ReceiverSamples
    <3>2. CASE k # DATA_BIT + 1
      <4>1. /\ k + 1 \in 0 .. DATA_BIT + 1 /\ DATA_BIT + 1 - (k + 1) \in Nat
            /\ DATA_BIT + 1 - k = (DATA_BIT + 1 - (k + 1)) + 1
            /\ \A i \in 1 .. DATA_BIT + 1 - (k + 1) :
                 i \in 1 .. DATA_BIT /\ i + 1 \in 1 .. DATA_BIT + 1 - k
        BY <1>6, <3>2
      <4>2. Refilled(k + 1)' /\ ~Waiting'
        BY <2>2, <3>1, <4>1 DEF Refilled, Waiting
      <4> DEFINE w2 == (DATA_BIT + 1 - (k + 1)) * B
      <4>3. w = w2 + B /\ w2 \in Nat
        BY <1>8, <4>1, Zenon
      <4> HIDE DEF w, w2, Q, Q2, n, n2, v, B
      <4>4. Q2 <= (n2 + w2) + (v - 1)
        BY <1>2, <1>6, <2>5, <2>7, <3>1, <4>3
      <4> QED
        BY <1>1, <2>1, <3>1, <4>1, <4>2, <4>4, Zenon DEF CutInv, w2, Q2, n2, v, B
    <3>3. CASE k = DATA_BIT + 1
      <4>1. Refilled(k)' /\ ~Waiting'
        <5>1. \A i \in 1 .. DATA_BIT + 1 - k : FALSE
          BY <1>6, <3>3
        <5> QED
          BY <3>1, <5>1 DEF Refilled, Waiting
      <4> HIDE DEF w, Q, Q2, n, n2, v, B
      <4>2. Q2 <= (n2 + w) + (v - 1)
        <5>1. B >= 1
          BY <1>5, <1>6 DEF n
        <5> QED
          BY <1>2, <1>6, <2>4, <2>5, <2>7, <3>1, <5>1
      <4> QED
        BY <1>1, <2>1, <3>1, <4>1, <4>2, Zenon DEF CutInv, w, Q2, n2, v, B
    <3> QED
      BY <3>2, <3>3
  <2>8. CASE n = 0 /\ rx.data_buf[1] # 1
    <3>1. k = DATA_BIT + 1
      <4>1. k # DATA_BIT + 1 => 1 \in 1 .. DATA_BIT + 1 - k
        BY <1>6
      <4> QED
        BY <2>2, <2>8, <4>1 DEF Refilled
    <3>2. w = 0
      <4>1. DATA_BIT + 1 - k = 0
        BY <1>6, <3>1
      <4>2. 0 * B = 0
        BY <1>6
      <4> QED
        BY <4>1, <4>2, Zenon
    <3>3. u = 0 /\ u2 = v - 1
      BY <1>5, <2>8
    <3> HIDE DEF w, Q, Q2, n, u, u2, v
    <3>4. Q2 <= u2
      BY <1>2, <1>6, <2>5, <2>8, <3>2, <3>3
    <3> QED
      BY <1>1, <2>1, <3>4 DEF CutInv, Q2, u2
  <2> QED
    BY <2>6, <2>7, <2>8
<1>11. CASE Q <= u
  <2>1. u # 0 /\ n # 0 /\ u2 = u - 1
    <3> HIDE DEF Q, u, n, u2
    <3> QED
      BY <1>2, <1>5, <1>11
  <2>2. Q2 <= u2
    <3> HIDE DEF Q, Q2, u, u2
    <3> QED
      BY <1>2, <1>5, <1>11, <2>1
  <2>3. tx'.state # "S0"
    <3>1. TxLeft # 0
      <4>1. TxLeft \in Nat /\ TxLeft >= u
        BY TransmitterEdge DEF TalkOK
      <4> HIDE DEF u
      <4> QED
        BY <1>5, <2>1, <4>1
    <3> QED
      BY <1>1, <3>1, TransmitterEdge DEF TalkOK
  <2> QED
    BY <1>1, <2>2, <2>3 DEF CutInv, Q2, u2
<1> QED
  BY <1>1, <1>9, <1>10, <1>11, Zenon DEF CutInv

\* A report that is asked for when none is on its way has room.
CrowdInv == ~crowded /\ sender.run => Len(Tx!Contents) <= sender.digit_sel

\* Each character of a first report finds room: at most as many are in the
\* FIFO as were written.
LEMMA CrowdStep ==
  ASSUME TalkOK, CrowdInv, ClockEdge
  PROVE  CrowdInv'
<1> SUFFICES ASSUME ~crowded', sender'.run
             PROVE  Len(Tx!Contents') <= sender'.digit_sel
  BY DEF CrowdInv
<1> DEFINE q == Tx!Contents
           q2 == Tx!Contents'
           push == sender.run /\ ~fifo_tx.full
           s == sender.digit_sel
           s2 == sender'.digit_sel
<1>1. /\ sender' = SenderNext(button = "S") /\ q \in Seq(Chars)
      /\ (crowded' <=> ((button = "S" /\ due_out # <<>>) \/ (crowded /\ due_out' # <<>>)))
      /\ fifo_tx.empty <=> q = <<>>
  BY EdgeOut DEF TalkOK
<1>2. PICK c \in Chars : q2 = Then(Rest(q, TxPop), push, c)
  BY EdgeOut DEF TalkOK
<1>3. /\ sender \in [state : {"IDLE", "DATA"}, run : BOOLEAN,
                     digit_sel : 0 .. REPORT_LENGTH - 1]
      /\ (sender.run <=> sender.state = "DATA")
  BY DEF TalkOK, PathTypeOK, SenderInv
<1>4. s \in Nat /\ push \in BOOLEAN /\ TxPop \in BOOLEAN /\ (TxPop => q # <<>>)
  BY <1>1, <1>3, PathAssumption DEF TxPop
<1>5. Len(q2) <= Len(q) + One(push)
  <2> HIDE DEF q, push
  <2>1. /\ Rest(q, TxPop) \in Seq(Chars) /\ Len(Rest(q, TxPop)) = Len(q) - One(TxPop)
    BY <1>1, <1>4, TailIs
  <2>2. \A x \in Seq(Chars) : Len(Then(x, push, c)) = Len(x) + One(push)
    BY <1>4, ThenIs
  <2> DEFINE a == One(TxPop)
             b == One(push)
             m == Len(q)
  <2>3. Len(q2) = (m - a) + b
    BY <1>2, <2>1, <2>2, Zenon DEF push, q
  <2>4. a \in 0 .. 1 /\ b \in 0 .. 1 /\ m \in Nat
    BY <1>1 DEF One
  <2> HIDE DEF a, b, m
  <2>5. (m - a) + b <= m + b
    BY <2>4
  <2> QED
    BY <2>3, <2>5 DEF m, b
<1>6. CASE sender.state = "IDLE"
  <2>1. ~sender.run /\ ~push
    BY <1>3, <1>6
  <2>2. button = "S" /\ s2 = s
    BY <1>1, <1>3, <1>6 DEF SenderNext
  <2>3. due_out = <<>>
    BY <1>1, <2>2
  <2>4. q = <<>>
    <3>1. Len(due_out) = (OnLine + Busy) + Len(q)
      BY DEF TalkOK, OwedInv, Follows
    <3>2. OnLine \in 0 .. 1 /\ Busy \in 0 .. 1
      BY DEF OnLine, Busy
    <3>3. Len(due_out) = 0
      BY <2>3
    <3>4. \A x, y \in 0 .. 1, z \in Nat : (x + y) + z = 0 => z = 0
      OBVIOUS
    <3>5. Len(q) \in Nat /\ (Len(q) = 0 => q = <<>>)
      BY <1>1
    <3> QED
      BY <3>1, <3>2, <3>3, <3>4, <3>5, Zenon
  <2>5. Len(q) = 0 /\ One(push) = 0
    BY <2>1, <2>4 DEF One
  <2>6. Len(q2) <= 0
    BY <1>5, <2>5
  <2>7. q2 = <<>>
    BY <1>2, <1>4, <2>1, <2>4, Zenon DEF Then, Rest
  <2>8. Len(q2) = 0
    BY <2>7
  <2> QED
    BY <1>4, <2>2, <2>8
<1>7. CASE sender.state = "DATA"
  <2>1. sender.run
    BY <1>3, <1>7
  <2>2. s2 = s + 1
    <3>1. s >= REPORT_LENGTH - 1 \/ s < REPORT_LENGTH - 1
      BY <1>3, PathAssumption
    <3>2. ~(s >= REPORT_LENGTH - 1)
      <4>1. s >= REPORT_LENGTH - 1 => sender' = SenderReset
        <5>1. s >= REPORT_LENGTH - 1 => ~(s < REPORT_LENGTH - 1)
          BY <1>3, PathAssumption
        <5>2. sender.state # "IDLE"
          BY <1>7
        <5> QED
          BY <1>1, <1>7, <5>1, <5>2, Zenon DEF SenderNext
      <4>2. ~SenderReset.run
        BY DEF SenderReset
      <4> QED
        BY <4>1, <4>2, Zenon
    <3> QED
      BY <1>1, <1>3, <1>7, <3>1, <3>2 DEF SenderNext
  <2>3. CASE ~crowded
    <3>1. Len(q) <= s
      BY <2>1, <2>3 DEF CrowdInv
    <3>2. One(push) \in 0 .. 1 /\ Len(q) \in Nat
      BY <1>1 DEF One
    <3>3. Len(q2) \in Nat
      <4>1. q2 \in Seq(Chars)
        <5> HIDE DEF q, push
        <5>1. Rest(q, TxPop) \in Seq(Chars)
          BY <1>1, <1>4, TailIs
        <5>2. Then(Rest(q, TxPop), push, c) \in Seq(Chars)
          BY <1>4, <5>1, ThenIs
        <5> QED
          BY <1>2, <5>2 DEF push, q
      <4> QED
        BY <4>1
    <3> DEFINE a == Len(q)
               b == Len(q2)
               e == One(push)
    <3>4. b <= a + e /\ a <= s /\ e \in 0 .. 1 /\ a \in Nat /\ b \in Nat
      BY <1>5, <3>1, <3>2, <3>3
    <3> HIDE DEF a, b, e, s, s2
    <3>5. b <= s2
      BY <1>4, <2>2, <3>4
    <3> QED
      BY <3>5 DEF b, s2
  <2>4. CASE crowded
    <3>1. due_out' = <<>>
      BY <1>1, <2>4
    <3>2. OwedInv'
      BY OwedStep
    <3>3. Len(due_out') = (OnLine' + Busy') + Len(q2)
      BY <3>2, Zenon DEF OwedInv, Follows
    <3>4. OnLine' \in 0 .. 1 /\ Busy' \in 0 .. 1
      BY DEF OnLine, Busy
    <3>5. Len(due_out') = 0
      BY <3>1
    <3>6. Len(q2) \in Nat
      <4>1. q2 \in Seq(Chars)
        <5> HIDE DEF q, push
        <5>1. Rest(q, TxPop) \in Seq(Chars)
          BY <1>1, <1>4, TailIs
        <5>2. Then(Rest(q, TxPop), push, c) \in Seq(Chars)
          BY <1>4, <5>1, ThenIs
        <5> QED
          BY <1>2, <5>2 DEF push, q
      <4> QED
        BY <4>1
    <3>7. \A x, y \in 0 .. 1, z \in Nat : (x + y) + z = 0 => z = 0
      OBVIOUS
    <3>8. Len(q2) = 0
      BY <3>3, <3>4, <3>5, <3>6, <3>7, Zenon
    <3> QED
      BY <1>4, <2>2, <3>8
  <2> QED
    BY <2>3, <2>4
<1> QED
  BY <1>3, <1>6, <1>7

-----------------------------------------------------------------------------
(* The invariant of the way out.                                           *)

OutInv == TalkOK /\ CutInv /\ CrowdInv

\* After a reset nothing is owed; what the PC was reading it reads in vain.
LEMMA ResetOut ==
  ASSUME InInv, ReaderOK(reader), ResetBoard, PcClock, due_out' = <<>>,
         cut' = (reader' # Idle), crowded' = FALSE
  PROVE  OutInv'
<1>1. /\ PathTypeOK' /\ TickInv(tick') /\ HostOK(host') /\ Waiting' /\ NoneDone'
      /\ button' = "none"
  BY ResetIn DEF InInv
<1>2. /\ sender' = SenderReset /\ tx' = TxReset(Tx!PopData') /\ Tx!Reset
      /\ reader' = ReaderNext
  BY DEF ResetBoard, PcClock
<1>3. /\ tx'.state = "IDLE" /\ tx'.tx = 1 /\ ~tx'.tx_busy
      /\ ~sender'.run /\ sender'.state = "IDLE" /\ fifo_tx'.empty
  BY <1>2 DEF SenderReset, TxReset, Tx!Reset, Tx!Fresh
<1>4. ReaderOK(reader')
  <2>1. tx.tx \in Bit
    BY DEF InInv, PathTypeOK, Transmitters
  <2> QED
    BY <1>2, <2>1, ReaderClock
<1>5. Tx!Contents' = <<>>
  <2>1. (Tx!FifoInv)'
    BY <1>1 DEF PathTypeOK
  <2>2. (Tx!FifoInv => (fifo_tx.empty <=> Tx!Contents = <<>>))'
    BY TxHoldsAlways, PTL
  <2> QED
    BY <1>3, <2>1, <2>2
<1>6. SenderInv'
  BY <1>3 DEF SenderInv
<1>7. OwedInv'
  <2>1. OnLine' = 0 /\ Busy' = 0
    BY <1>3 DEF OnLine, Busy
  <2>2. <<>> \in Seq(Chars) /\ Len(<<>>) = 0 /\ 0 = (0 + 0) + 0 /\ \A i \in 1 .. 0 : FALSE
    OBVIOUS
  <2>3. Follows(<<>>, 0 + 0, <<>>)
    BY <2>2, Zenon DEF Follows
  <2> QED
    BY <1>3, <1>5, <2>1, <2>2, <2>3 DEF OwedInv
<1>8. TalkInv' /\ CutFirst'
  BY <1>3 DEF TalkInv, CutFirst
<1>9. CutInv'
  BY <1>1, <1>3 DEF CutInv, ReportQuiet
<1>10. CrowdInv'
  BY <1>3 DEF CrowdInv
<1> QED
  BY <1>1, <1>4, <1>6, <1>7, <1>8, <1>9, <1>10 DEF OutInv, TalkOK

\* Nothing is owed at the start.
LEMMA InitOut == Init => OutInv
<1> SUFFICES ASSUME Init PROVE OutInv
  OBVIOUS
<1>1. PathTypeOK /\ TickInv(tick) /\ HostOK(host)
  BY InitIn DEF InInv
<1>2. /\ tx.state = "IDLE" /\ tx.tx = 1 /\ ~tx.tx_busy
      /\ ~sender.run /\ sender.state = "IDLE" /\ fifo_tx.empty
      /\ reader = Idle /\ due_out = <<>> /\ ~cut /\ ~crowded
  BY DEF Init, SenderReset, TxReset, Tx!Fresh
<1>3. Tx!Contents = <<>>
  BY <1>1, <1>2, TxHolds DEF PathTypeOK
<1>4. ReaderOK(reader) /\ SenderInv
  BY <1>2 DEF ReaderOK, SenderInv
<1>5. OwedInv
  <2>1. OnLine = 0 /\ Busy = 0
    BY <1>2 DEF OnLine, Busy
  <2>2. <<>> \in Seq(Chars) /\ Len(<<>>) = 0 /\ 0 = (0 + 0) + 0 /\ \A i \in 1 .. 0 : FALSE
    OBVIOUS
  <2>3. Follows(<<>>, 0 + 0, <<>>)
    BY <2>2, Zenon DEF Follows
  <2> QED
    BY <1>2, <1>3, <2>1, <2>2, <2>3 DEF OwedInv
<1>6. TalkInv /\ CutFirst /\ CutInv /\ CrowdInv
  BY <1>2 DEF TalkInv, CutFirst, CutInv, CrowdInv
<1> QED
  BY <1>1, <1>4, <1>5, <1>6 DEF OutInv, TalkOK

\* A step keeps the invariant of the way out.
LEMMA OutOf ==
  ASSUME InInv, OutInv, Next
  PROVE  OutInv'
<1>1. CASE ClockEdge
  <2>1. TalkOK /\ CutInv /\ CrowdInv
    BY DEF OutInv
  <2>2. PathTypeOK' /\ TickInv(tick') /\ HostOK(host')
    BY <1>1, EdgeIn DEF InInv
  <2>3. ReaderOK(reader') /\ SenderInv'
    BY <1>1, <2>1, EdgeOut, TransmitterEdge DEF TalkOK
  <2>4. OwedInv' /\ TalkInv' /\ CutInv' /\ CrowdInv'
    BY <1>1, <2>1, OwedStep, TalkStep, CutStep, CrowdStep
  <2>5. CutFirst'
    BY <2>4 DEF CutFirst, CutInv
  <2> QED
    BY <2>2, <2>3, <2>4, <2>5 DEF OutInv, TalkOK
<1>2. CASE Reset
  BY <1>2, ResetOut DEF Reset, OutInv, TalkOK
<1>3. CASE ResetByCommand
  BY <1>3, ResetOut DEF ResetByCommand, OutInv, TalkOK
<1> QED
  BY <1>1, <1>2, <1>3 DEF Next

\* So it holds in every run of the board, at any speed of the line.
LEMMA OutAlways == Spec => []OutInv
<1>1. OutInv /\ UNCHANGED path_vars => OutInv'
  <2> SUFFICES ASSUME OutInv, UNCHANGED path_vars
               PROVE  OutInv'
    OBVIOUS
  <2>1. /\ tick' = tick /\ rx' = rx /\ fifo_rx' = fifo_rx /\ decoder' = decoder
        /\ button' = button /\ sender' = sender /\ fifo_tx' = fifo_tx /\ tx' = tx
        /\ host' = host /\ reader' = reader /\ due_out' = due_out /\ cut' = cut
        /\ crowded' = crowded
    BY DEF path_vars, board, pc, history
  <2>2. Tx!Contents' = Tx!Contents /\ OnLine' = OnLine /\ Busy' = Busy /\ TxLeft' = TxLeft
        /\ PathTypeOK' = PathTypeOK /\ SenderInv' = SenderInv /\ ReportQuiet' = ReportQuiet
        /\ Waiting' = Waiting
    BY <2>1, Zenon
    DEF Tx!Contents, Tx!Count, Tx!PlaceOf, OnLine, Busy, TxLeft, PathTypeOK, Rx!FifoInv,
        Tx!FifoInv, SenderInv, ReportQuiet, NoneDone, Waiting
  <2>3. \A k : Refilled(k)' = Refilled(k)
    BY <2>1, Zenon DEF Refilled
  <2>4. OwedInv' /\ TalkInv' /\ CutFirst'
    BY <2>1, <2>2, Zenon DEF OutInv, TalkOK, OwedInv, TalkInv, CutFirst
  <2>5. CutInv' /\ CrowdInv'
    BY <2>1, <2>2, <2>3, Zenon DEF OutInv, CutInv, CrowdInv, Refilled
  <2> QED
    BY <2>1, <2>2, <2>4, <2>5, Zenon DEF OutInv, TalkOK
<1> QED
  BY <1>1, InitOut, OutOf, InAlways, PTL DEF Spec

\* The reader takes its last sample in the stop bit of the oldest that is owed.
LEMMA ReadsLast ==
  ASSUME TalkOK, Reads, ~cut
  PROVE  /\ tx.state # "S0" /\ due_out # <<>> /\ due_out[1] \in Chars
         /\ reader.bits = due_out[1]
<1> DEFINE t == TxLeft
<1>1. /\ reader.left = 1 /\ Len(reader.bits) = DATA_BIT /\ reader # Idle
  BY DEF Reads, Idle
<1>2. reader.bits \in Seq(Bit)
  BY <1>1 DEF TalkOK, ReaderOK
<1>3. t \in Nat
  <2>1. tx.bps_count \in 0 .. OVERSAMPLE - 1 /\ TickInv(tick)
    BY DEF TalkOK, PathTypeOK, Transmitters
  <2> QED
    BY <2>1, UntilStep DEF TxLeft
<1>4. /\ HALF_BIT \in Nat /\ HALF_BIT >= 1 /\ BIT_CLOCKS \in Nat /\ DATA_BIT \in Nat
  BY BitParts, UartAssumption
<1>5. tx.state # "S0"
  <2> SUFFICES ASSUME tx.state = "S0"
               PROVE  FALSE
    OBVIOUS
  <2>1. PICK j \in 0 .. DATA_BIT : Hearing(reader, due_out[1], j, t)
    BY DEF TalkOK, TalkInv
  <2> HIDE DEF t
  <2>2. t + HALF_BIT + 1 # 1 /\ j - 1 # DATA_BIT
    BY <1>3, <1>4
  <2> QED
    BY <1>1, <2>1, <2>2 DEF Hearing, HasRead
<1>6. due_out # <<>> /\ due_out[1] \in Chars
  <2>1. OnLine = 1
    BY <1>1, <1>5 DEF OnLine
  <2> QED
    BY <2>1, OldestOwed
<1>7. reader.bits = due_out[1]
  <2>1. t >= BIT_CLOCKS - HALF_BIT /\ Hearing(reader, due_out[1], DATA_BIT + 1, t)
    BY <1>1, <1>5 DEF TalkOK, TalkInv
  <2>2. DATA_BIT + 1 # 0 /\ DATA_BIT + 1 > 0 /\ (DATA_BIT + 1) - 1 = DATA_BIT
    BY <1>4
  <2>3. \A i \in 1 .. DATA_BIT : reader.bits[i] = due_out[1][i]
    BY <2>1, <2>2 DEF Hearing, HasRead
  <2> QED
    BY <1>1, <1>2, <1>6, <2>3 DEF Chars
<1> QED
  BY <1>5, <1>6, <1>7

\* On a line that is slow enough FIFO_RX never holds two characters, none is
\* decoded twice or missed, and when the board is quiet the PC has read all that
\* the sender put into FIFO_TX: for every length of the report and every depth.
THEOREM NothingLeftBehind == ASSUME SlowLine PROVE Spec => []NothingIsLeftOver
<1>1. InInv /\ InStepInv /\ OutInv => NothingIsLeftOver
  <2> SUFFICES ASSUME InInv, InStepInv, OutInv
               PROVE  NothingIsLeftOver
    OBVIOUS
  <2>1. PathTypeOK
    BY DEF InInv
  <2>2. Rx!Count <= 1 /\ (decoder.state = "DATA" => fifo_rx.empty)
    <3>1. /\ Len(Rx!Contents) = Rx!Count /\ (fifo_rx.empty <=> Rx!Contents = <<>>)
      BY <2>1, RxHolds DEF PathTypeOK
    <3>2. Len(Rx!Contents) = 0 \/ Len(Rx!Contents) = 1
      BY <3>1 DEF InInv, SpacedInv
    <3>3. decoder.state = "DATA" => fifo_rx.empty
      BY DEF InInv, SpacedInv
    <3> QED
      BY <3>1, <3>2, <3>3
  <2>3. inStep => Len(due_in) <= 1
    <3> SUFFICES ASSUME inStep
                 PROVE  Len(due_in) <= 1
      OBVIOUS
    <3>1. due_in = <<>> \/ \E c \in Chars : due_in = <<c>>
      BY Zenon DEF InStepInv, Stage, Quiet, Started, Receiving, Received, Queued, Taken
    <3>2. CASE due_in = <<>>
      BY <3>2
    <3>3. ASSUME NEW c \in Chars, due_in = <<c>>
          PROVE  Len(due_in) <= 1
      <4>1. Len(<<c>>) = 1
        OBVIOUS
      <4> QED
        BY <3>3, <4>1
    <3> QED
      BY <3>1, <3>2, <3>3
  <2>4. fifo_tx.empty /\ ~tx.tx_busy /\ reader = Idle => due_out = <<>>
    <3> SUFFICES ASSUME fifo_tx.empty, ~tx.tx_busy, reader = Idle
                 PROVE  due_out = <<>>
      OBVIOUS
    <3>1. tx.state = "IDLE"
      BY DEF OutInv, TalkOK, SenderInv
    <3>2. OnLine = 0 /\ Busy = 0
      BY <3>1 DEF OnLine, Busy
    <3>3. Tx!Contents = <<>>
      BY <2>1, TxHolds DEF PathTypeOK
    <3>4. due_out \in Seq(Chars) /\ Len(due_out) = (0 + 0) + Len(<<>>)
      BY <3>2, <3>3, Zenon DEF OutInv, TalkOK, OwedInv, Follows
    <3>5. Len(due_out) = 0
      BY <3>4
    <3> QED
      BY <3>4, <3>5
  <2> QED
    BY <2>1, <2>2, <2>3, <2>4 DEF NothingIsLeftOver
<1> QED
  BY <1>1, InAlways, InStepAlways, OutAlways, PTL

\* When a report fits into FIFO_TX the PC reads what the sender wrote, in order,
\* resets at any time included, and only a second report may find no room: for
\* every rate of the line, every length of a report and every text of it.
THEOREM ReportIsRead ==
  ASSUME REPORT_LENGTH <= DEPTH_TX
  PROVE  Spec => ReportInOrder
<1>1. OutInv /\ InInv /\ [Next]_path_vars =>
        [/\ Reads /\ ~cut => due_out # <<>> /\ Head(due_out) = reader.bits /\ tx.tx = 1
         /\ sender.run /\ fifo_tx.full => crowded]_path_vars
  <2> SUFFICES ASSUME OutInv, InInv
               PROVE  /\ Reads /\ ~cut =>
                           due_out # <<>> /\ Head(due_out) = reader.bits /\ tx.tx = 1
                      /\ sender.run /\ fifo_tx.full => crowded
    BY Zenon
  <2>1. Reads /\ ~cut => due_out # <<>> /\ Head(due_out) = reader.bits /\ tx.tx = 1
    <3> SUFFICES ASSUME Reads, ~cut
                 PROVE  due_out # <<>> /\ Head(due_out) = reader.bits /\ tx.tx = 1
      OBVIOUS
    <3>1. TalkOK
      BY DEF OutInv
    <3>2. tx.state # "S0"
      BY <3>1, ReadsLast
    <3>3. /\ due_out # <<>> /\ due_out[1] \in Chars /\ reader.bits = due_out[1]
      BY <3>1, ReadsLast
    <3>4. Head(due_out) = due_out[1]
      BY <3>1, <3>3 DEF TalkOK, OwedInv
    <3> QED
      BY <3>1, <3>2, <3>3, <3>4 DEF TalkOK, SenderInv
  <2>2. sender.run /\ fifo_tx.full => crowded
    <3> SUFFICES ASSUME sender.run, fifo_tx.full, ~crowded
                 PROVE  FALSE
      OBVIOUS
    <3>1. Len(Tx!Contents) = DEPTH_TX
      BY TxHolds DEF InInv, PathTypeOK
    <3>2. Len(Tx!Contents) <= sender.digit_sel
      BY DEF OutInv, CrowdInv
    <3>3. sender.digit_sel \in 0 .. REPORT_LENGTH - 1
      BY DEF InInv, PathTypeOK
    <3> QED
      BY <3>1, <3>2, <3>3, PathAssumption
  <2> QED
    BY <2>1, <2>2
<1> QED
  BY <1>1, InAlways, OutAlways, PTL DEF Spec, ReportInOrder
=============================================================================
