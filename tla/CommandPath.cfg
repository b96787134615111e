SPECIFICATION Spec
CONSTANTS
  DATA_BIT = 2
  OVERSAMPLE = 4
  B_VALUE = 2
  DEPTH_RX = 2
  DEPTH_TX = 2
  REPORT_LENGTH = 2
  Commands = {"none", "S", "M", "R"}
  CommandOf <- Meaning
  Sent <- SentChars
  Printed <- Report
INVARIANTS
  NothingIsLeftOver
PROPERTIES
  EachCommandOnce
  ReportInOrder
  FifosAreQueues
