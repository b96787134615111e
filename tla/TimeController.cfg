SPECIFICATION SpecTime
CONSTANTS
  F_COUNT = 2
  SW_TIMES <- ShortStopwatch
  WT_TIMES <- ShortWatch
  Presses <- OneOrTwo
INVARIANTS
  SwitchTakesEffect
PROPERTIES
  ClearIsComplete
  StopwatchCountsClocks
  WatchCountsClocks
  SettingIsExact
