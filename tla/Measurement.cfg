SPECIFICATION Spec
CONSTANTS
  Echoes <- EchoLengths
  BYTE_BITS = 2
  Readings <- SentReadings
  MAX_DAMAGE = 1
  Calls = {"service", "blocking"}
INVARIANTS
  DamageIsCaught
  SensorsKeepAnswering
  DistanceIsFresh
