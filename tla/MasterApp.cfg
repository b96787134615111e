SPECIFICATION FairSpec
CONSTANTS
  ExchangeOutcomes = {"normal", "warning", "failed"}
  TIMER_2SEC_ARR = 2
INVARIANTS
  TimerServesMeasurement
  SampleIsOfThisPeriod
  DisplayTellsTruth
PROPERTIES
  HeldButtonActsOnce
  MeasurementEnds
  DumpIsMade
  AutoKeepsMeasuring
