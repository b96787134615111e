SPECIFICATION Spec
CONSTANTS
  Echoes <- EchoLengths
  BYTE_BITS = 2
  Readings <- SentReadings
  MAX_DAMAGE = 0
  Calls = {"service"}
INVARIANT AcceptedIsAnswered
