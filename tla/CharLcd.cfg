SPECIFICATION SpecLcd
CONSTANTS
  LCD_COL_COUNT = 2
  DDRAM_COLS = 3
  TIME_COLS = 1
  Texts <- ShortTexts
  MAX_RESETS = 2
  MAX_LOST = 1
INVARIANTS
  InitResynchronises
  ScreenShowsMessage
