SPECIFICATION Spec
CONSTANTS
  LOG_MAX_COUNT = 3
  LOG_BASE_ADDR = 4
  EEPROM_SIZE = 19
  SEQ_MODULUS = 8
  Minutes = {0}
  Seconds = {7, 9, 60}
  Codes = {0, 1}
  InitialImages <- BothImages
PROPERTY OverwritesOnlyWhenFull
