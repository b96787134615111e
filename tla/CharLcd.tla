------------------------------- MODULE CharLcd -------------------------------
(***************************************************************************)
(* The character displays of both boards: HAL/LCD/LCD.c of the master,     *)
(* driver/LCD1602/LCD1602.c with HAL/I2C/I2C.c of the slave, the I2C       *)
(* master they share (i2c_master.sv), and what these expect of the display *)
(* (external: an HD44780 on four data lines behind a port expander).       *)
(*                                                                         *)
(* A byte for the display is one I2C frame of four data bytes: its high    *)
(* nibble with the enable line up, then down, and its low nibble likewise. *)
(* The display takes a nibble when enable falls, and pairs nibbles without *)
(* a mark that tells first from second.  Nothing is ever read back: a      *)
(* frame without acknowledgement is lost unnoticed, and a board that is    *)
(* reset starts over with a display that was not, and may be holding half  *)
(* a byte.                                                                 *)
(*                                                                         *)
(* The drivers wait two or three milliseconds per frame; a frame takes     *)
(* under half a millisecond, so each finds the I2C master idle.            *)
(***************************************************************************)
EXTENDS Integers, Sequences

CONSTANTS
  LCD_COL_COUNT,  \* columns that can be seen (16)
  DDRAM_COLS,     \* columns of a line in the display's memory (40)
  TIME_COLS,      \* columns before the warning's name on the slave (6)
  Texts,          \* what the callers print: sequences of character codes
  MAX_RESETS, MAX_LOST   \* bounds on resets of the board and lost frames

Space == 32
Rows  == 0 .. 1
Cols  == 0 .. LCD_COL_COUNT - 1

ASSUME DisplayAssumption ==
  /\ LCD_COL_COUNT \in 1 .. DDRAM_COLS /\ DDRAM_COLS \in 1 .. 64
  /\ TIME_COLS \in 0 .. LCD_COL_COUNT
  /\ Texts \subseteq Seq(Space .. 127)
  /\ MAX_RESETS \in Nat /\ MAX_LOST \in Nat

VARIABLES
  board,     \* whose driver this is: "master" or "slave"
  op,        \* what the driver is doing: "init" or "print"
  todo,      \* the bytes it has still to send, each with the level of RS
  tx,        \* the I2C data register: the byte of the frame being sent
  step,      \* the data byte of the frame that goes out next, or 0
  en,        \* the enable line, as the expander last drove it
  lcd,       \* the display
  \* History variables: no code reads them.
  asked,     \* the two lines the caller last asked for
  spoilt,    \* this boot's Init lost a frame or had a nibble ignored
  disturbed, \* this print lost a frame
  resets, lost

driver == <<board, op, todo, tx, step>>
lcd_vars == <<driver, en, lcd, asked, spoilt, disturbed, resets, lost>>

-----------------------------------------------------------------------------
(* What the drivers send.                                                  *)

Command(c) == [byte |-> c, rs |-> FALSE]
Data(c)    == [byte |-> c, rs |-> TRUE]

LCD_CMD_CLEAR             == 1
LCD_CMD_ENTRY_MODE        == 6
LCD_CMD_DISPLAY_OFF       == 8
LCD_CMD_DISPLAY_ON        == 12
LCD_CMD_FUNCTION_SET_4BIT == 40

InitSequence_Short ==
  [b \in {"master", "slave"} |->
     <<50, LCD_CMD_FUNCTION_SET_4BIT, LCD_CMD_DISPLAY_ON, LCD_CMD_ENTRY_MODE,
       LCD_CMD_CLEAR>>]

\* 0x33 and 0x32 bring a display in any mode and phase into four-bit mode.
\* The slave's main turns the backlight on and clears once more.
InitSequence ==
  [master |-> <<51, 50, LCD_CMD_FUNCTION_SET_4BIT, LCD_CMD_DISPLAY_ON,
                LCD_CMD_ENTRY_MODE, LCD_CMD_CLEAR>>,
   slave  |-> <<51, 50, LCD_CMD_FUNCTION_SET_4BIT, LCD_CMD_DISPLAY_OFF,
                LCD_CMD_CLEAR, LCD_CMD_ENTRY_MODE, LCD_CMD_DISPLAY_ON,
                LCD_CMD_DISPLAY_ON, LCD_CMD_DISPLAY_ON, LCD_CMD_CLEAR>>]

InitBytes(b) ==
  [i \in 1 .. Len(InitSequence[b]) |-> Command(InitSequence[b][i])]

\* Out of range, the master goes to the beginning, the slave to the end.
SetCursor(b, row, col) ==
  LET Limited(x, n) == IF x < n THEN x ELSE IF b = "master" THEN 0 ELSE n - 1
  IN  <<Command(128 + 64 * Limited(row, 2) + Limited(col, LCD_COL_COUNT))>>

Padded_Unpadded(text, width) ==
  [i \in 1 .. (IF Len(text) < width THEN Len(text) ELSE width) |-> Data(text[i])]

\* LCD_PrintLine after its SetCursor; LCD1602_WriteStringPadded.
Padded(text, width) ==
  [i \in 1 .. width |-> Data(IF i <= Len(text) THEN text[i] ELSE Space)]

Line(text) == Padded(text, LCD_COL_COUNT)

\* LCD1602_PrintWarning: the backlight first, and a second line in two parts.
\* Its time is always TIME_COLS long.
PrintWarning(line1, time, name) ==
  <<Command(LCD_CMD_DISPLAY_ON)>>
    \o SetCursor("slave", 0, 0) \o Line(line1)
    \o SetCursor("slave", 1, 0) \o Padded(time, TIME_COLS)
    \o Padded(name, LCD_COL_COUNT - TIME_COLS)

\* LCD_PrintMessage, LCD_PrintSensorData; the slave's ready message.
PrintMessage(b, line1, line2) ==
  SetCursor(b, 0, 0) \o Line(line1) \o SetCursor(b, 1, 0) \o Line(line2)

-----------------------------------------------------------------------------
(* The display.                                                            *)

NoNibble == 16
Blank == [r \in Rows |-> [c \in 0 .. DDRAM_COLS - 1 |-> Space]]

PowerOn ==
  [four |-> FALSE, two |-> FALSE, on |-> FALSE, up |-> TRUE, cgram |-> FALSE,
   busy |-> FALSE, half |-> NoNibble, row |-> 0, col |-> 0, ddram |-> Blank]

\* A long command; the next nibble of the same frame comes before its end.
Home(l) == [l EXCEPT !.row = 0, !.col = 0, !.cgram = FALSE, !.busy = TRUE]

\* The highest bit that is set tells the command.  Shifts of cursor and
\* display are left out: only a display out of step ever sees one, and the
\* clearing that ends every Init undoes them.
Execute(l, c) ==
  CASE c >= 128       -> [l EXCEPT !.row = (c % 128) \div 64, !.cgram = FALSE,
                                   !.col = (c % 64) % DDRAM_COLS]
    [] c \in 64 .. 127 -> [l EXCEPT !.cgram = TRUE]
    [] c \in 32 .. 63  -> [l EXCEPT !.four = c % 32 < 16, !.two = c % 16 >= 8]
    [] c \in 8 .. 15   -> [l EXCEPT !.on = c % 8 >= 4]
    [] c \in 4 .. 7    -> [l EXCEPT !.up = c % 4 >= 2]
    [] c \in 2 .. 3    -> Home(l)
    [] c = 1          -> [Home(l) EXCEPT !.ddram = Blank, !.up = TRUE]
    [] OTHER          -> l

\* The cursor runs through one line, then the other.
Advance(l) ==
  LET last == IF l.up THEN DDRAM_COLS - 1 ELSE 0
  IN  IF l.col = last
      THEN [l EXCEPT !.row = 1 - l.row, !.col = DDRAM_COLS - 1 - last]
      ELSE [l EXCEPT !.col = IF l.up THEN l.col + 1 ELSE l.col - 1]

WriteChar(l, c) ==
  IF l.cgram THEN l ELSE Advance([l EXCEPT !.ddram[l.row][l.col] = c])

Perform(l, byte, rs) == IF rs THEN WriteChar(l, byte) ELSE Execute(l, byte)

\* Enable falls: in eight-bit mode the four lines that are not connected read
\* as ones.
Latch(l, nibble, rs) ==
  CASE ~l.four -> Perform(l, 16 * nibble + 15, rs)
    [] l.four /\ l.half = NoNibble -> [l EXCEPT !.half = nibble]
    [] OTHER -> Perform([l EXCEPT !.half = NoNibble], 16 * l.half + nibble, rs)

-----------------------------------------------------------------------------
(* The actions.                                                            *)

InitLcd ==
  /\ board \in {"master", "slave"}
  /\ op = "init" /\ todo = InitBytes(board) /\ tx = Command(0) /\ step = 0
  /\ en = FALSE /\ lcd = PowerOn
  /\ asked = <<<<>>, <<>>>>
  /\ spoilt = FALSE /\ disturbed = FALSE /\ resets = 0 /\ lost = 0

Idle == todo = <<>> /\ step = 0

\* The caller prints two lines, after a start the ready message; the slave
\* then prints warnings.
PrintLines(line1, line2) ==
  /\ Idle
  /\ op' = "print"
  /\ \/ /\ board = "slave" => op = "init"
        /\ todo' = PrintMessage(board, line1, line2)
        /\ asked' = <<line1, line2>>
     \/ /\ board = "slave" /\ op = "print"
        /\ \E time \in {t \in Texts : Len(t) = TIME_COLS} :
             /\ todo' = PrintWarning(line1, time, line2)
             /\ asked' = <<line1, time \o line2>>
  /\ disturbed' = FALSE
  /\ UNCHANGED <<board, tx, step, en, lcd, spoilt, resets, lost>>

\* LCD_SendByte, LCD1602_SendByte: the data register, the trigger, and the
\* wait, which is longer than the frame and than any command.
SendByte ==
  /\ todo # <<>> /\ step = 0
  /\ tx' = Head(todo) /\ todo' = Tail(todo) /\ step' = 1
  /\ lcd' = [lcd EXCEPT !.busy = FALSE]
  /\ UNCHANGED <<board, op, en, asked, spoilt, disturbed, resets, lost>>

\* The expander does not acknowledge its address.  i2c_master_board leaves
\* ack_out unconnected, so the frame goes on to its end without a listener.
LoseFrame ==
  /\ step = 1 /\ lost < MAX_LOST
  /\ step' = 0 /\ lost' = lost + 1
  /\ IF op = "init" THEN spoilt' = TRUE /\ UNCHANGED disturbed
                    ELSE disturbed' = TRUE /\ UNCHANGED spoilt
  /\ UNCHANGED <<board, op, todo, tx, en, lcd, asked, resets>>

\* W_DATA0 to W_DATA3.
FrameByte(k) ==
  [nibble |-> IF k <= 2 THEN tx.byte \div 16 ELSE tx.byte % 16,
   enable |-> k \in {1, 3}]

\* The next data byte of the frame reaches the expander's outputs.  A nibble
\* that comes while the display is busy may be ignored.
DataByte ==
  /\ step > 0
  /\ step' = IF step = 4 THEN 0 ELSE step + 1
  /\ en' = FrameByte(step).enable
  /\ IF en /\ ~en'
     THEN \/ /\ lcd' = Latch(lcd, FrameByte(step).nibble, tx.rs)
             /\ UNCHANGED spoilt
          \/ lcd.busy /\ spoilt' = TRUE /\ UNCHANGED lcd
     ELSE UNCHANGED <<lcd, spoilt>>
  /\ UNCHANGED <<board, op, todo, tx, asked, disturbed, resets, lost>>

\* The board with its I2C master is reset; display and expander are not.
ResetBoard ==
  /\ resets < MAX_RESETS
  /\ resets' = resets + 1
  /\ op' = "init" /\ todo' = InitBytes(board) /\ step' = 0 /\ tx' = Command(0)
  /\ spoilt' = FALSE /\ disturbed' = FALSE
  /\ UNCHANGED <<board, en, lcd, asked, lost>>

NextLcd ==
  \/ \E line1, line2 \in Texts : PrintLines(line1, line2)
  \/ SendByte \/ LoseFrame \/ DataByte \/ ResetBoard

SpecLcd == InitLcd /\ [][NextLcd]_lcd_vars

-----------------------------------------------------------------------------
(* Properties.                                                             *)

TypeOK ==
  /\ board \in {"master", "slave"} /\ op \in {"init", "print"}
  /\ step \in 0 .. 4 /\ {en, spoilt, disturbed} \subseteq BOOLEAN
  /\ lcd.half \in 0 .. NoNibble /\ lcd.row \in Rows
  /\ lcd.col \in 0 .. DDRAM_COLS - 1
  /\ resets \in 0 .. MAX_RESETS /\ lost \in 0 .. MAX_LOST

\* Between two frames of a driver whose Init went through.
Settled == op = "print" /\ step = 0 /\ ~spoilt

\* Whatever a reset interrupted, half a byte or Init itself, and whatever
\* earlier boots did to the display, the two odd bytes of LCD_Init and
\* LCD1602_Init bring it back into step, ready for two lines; and no frame
\* that is lost later takes it out of step again.
InitResynchronises ==
  /\ TypeOK
  /\ Settled => /\ lcd.four /\ lcd.half = NoNibble
                /\ lcd.two /\ lcd.on /\ lcd.up

\* A print that loses no frame shows its two lines and nothing else, over
\* whatever earlier prints, cut off or with lost frames, have left there.
ScreenShowsMessage ==
  Settled /\ Idle /\ ~disturbed =>
    \A r \in Rows, c \in Cols :
      lcd.ddram[r][c] = IF c < Len(asked[r + 1]) THEN asked[r + 1][c + 1]
                                                 ELSE Space

=============================================================================
