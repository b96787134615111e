SPECIFICATION SpecClock
CONSTANTS
  MS_PER_SEC = 2
  SEC_MAX = 60
  MIN_MAX = 60
INVARIANTS
  ClockCountsTicks
PROPERTIES
  LitDigitIsCurrent
