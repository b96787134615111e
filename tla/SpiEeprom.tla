------------------------------ MODULE SpiEeprom ------------------------------
(***************************************************************************)
(* The way of a byte into the EEPROM and back: the driver (HAL/EEPROM),    *)
(* the SPI master it programs (SPI_1.0) and the EEPROM emulator on the     *)
(* other board, bit by bit.                                                *)
(*                                                                         *)
(* The wires are clocked at a hundredth of the frequency both boards run   *)
(* at, so that each edge of sclk has passed the emulator's synchronisers   *)
(* long before the next: an edge is one step of both sides.  A byte, an    *)
(* address and a shift register have BYTE_BITS bits: 8 in the code.        *)
(*                                                                         *)
(* Either board may be reset without the other, in the middle of a bit.    *)
(***************************************************************************)
EXTENDS Integers, Sequences

CONSTANTS
  BYTE_BITS,
  Data,        \* the bytes that the program writes
  MAX_LEN      \* the longest request

B == 2 ^ BYTE_BITS
SpiByte == 0 .. B - 1

ASSUME SpiAssumption ==
  /\ BYTE_BITS \in Nat /\ BYTE_BITS >= 2
  /\ Data \subseteq SpiByte
  /\ MAX_LEN \in Nat \ {0}

VARIABLES
  \* the driver
  op,            \* <<>>, or <<kind, start_addr, bytes>> of the call under way
  pos,           \* which byte of the transfer is sent next, or is on the wire
  waiting,       \* SPI_TransferByte waits for done
  got,           \* the bytes read so far
  answer,        \* what EEPROM_ReadBytes returned, until the next call
  \* spi_master
  sm_data,       \* state = DATA
  sclk, mosi, tx_shift_reg, rx_shift_reg, sm_bit_cnt,
  done_latched, rx_data,
  \* spi_eeprom_emulator
  state, bit_cnt, rx_shift, tx_shift, read_data_buf, addr_reg, last_cmd, miso,
  mem,
  rst,           \* the emulator's board is held in reset
  \* History variable: the emulator was in reset during the call under way.
  hit

driver_vars   == <<op, pos, waiting, got, answer>>
master_vars   == <<sm_data, sclk, mosi, tx_shift_reg, rx_shift_reg, sm_bit_cnt,
                   done_latched, rx_data>>
emulator_vars == <<state, bit_cnt, rx_shift, tx_shift, read_data_buf, addr_reg,
                   last_cmd, miso, mem>>
reset_vars    == <<rst, hit>>
vars == <<driver_vars, master_vars, emulator_vars, reset_vars>>

CMD_WRITE == 2
CMD_READ == 3
EEPROM_DUMMY_BYTE == 0
EEPROM_ADDR_MAX == B - 1

\* The most significant bit, and a shift register after one step.
Msb(v) == v \div 2 ^ (BYTE_BITS - 1)
Shifted(v, bit) == (2 * v + bit) % B

Init ==
  /\ op = <<>> /\ pos = 1 /\ waiting = FALSE /\ got = <<>> /\ answer = <<>>
  /\ sm_data = FALSE /\ sclk = 0 /\ mosi = 1
  /\ tx_shift_reg = 0 /\ rx_shift_reg = 0 /\ sm_bit_cnt = 0
  /\ done_latched = FALSE /\ rx_data = 0
  /\ state = "CMD" /\ bit_cnt = 0 /\ rx_shift = 0 /\ tx_shift = 0
  /\ read_data_buf = 0 /\ addr_reg = 0 /\ last_cmd = 0 /\ miso = 0
  /\ mem = [a \in SpiByte |-> a]
  /\ rst = FALSE /\ hit = FALSE

-----------------------------------------------------------------------------
(* The driver.                                                             *)

\* The bytes of a call: command, address, and the data or dummies.
BytesOf(call) ==
  <<IF call[1] = "write" THEN CMD_WRITE ELSE CMD_READ, call[2]>> \o call[3]

\* end_addr is a uint16_t: it does not wrap.
InRange_Ends(addr, len) == addr + len - 2 <= EEPROM_ADDR_MAX
InRange(addr, len) == addr + len - 1 <= EEPROM_ADDR_MAX

\* A call up to SPI_SetCSLow.
Call(kind, addr, bytes) ==
  /\ op = <<>> /\ InRange(addr, Len(bytes))
  /\ op' = <<kind, addr, bytes>> /\ pos' = 1 /\ got' = <<>>
  /\ answer' = <<>> /\ hit' = rst
  /\ UNCHANGED <<waiting, master_vars, emulator_vars, rst>>

WriteBytes(addr, bytes) == Call("write", addr, bytes)
ReadBytes(addr, len) == Call("read", addr, [i \in 1 .. len |-> EEPROM_DUMMY_BYTE])
WriteByte(addr, byte) == Call("write", addr, <<byte>>)
ReadByte(addr) == Call("read", addr, <<EEPROM_DUMMY_BYTE>>)

\* The write of the start bit, and the IDLE and START states of the master.
Transfer ==
  /\ op # <<>> /\ ~waiting
  /\ waiting' = TRUE /\ done_latched' = FALSE
  /\ sm_data' = TRUE /\ sm_bit_cnt' = 0
  /\ mosi' = Msb(BytesOf(op)[pos])
  /\ tx_shift_reg' = Shifted(BytesOf(op)[pos], 0)
  /\ UNCHANGED <<op, pos, got, answer, sclk, rx_shift_reg, rx_data,
                 emulator_vars, reset_vars>>

-----------------------------------------------------------------------------
(* The two edges of sclk.                                                  *)

\* What the emulator does with the last bit of a byte, by its state.
LastBitOf(byte) ==
  \/ /\ state = "CMD"
     /\ last_cmd' = byte
     /\ state' = IF byte \in {CMD_WRITE, CMD_READ} THEN "ADDR" ELSE "CMD"
     /\ UNCHANGED <<addr_reg, read_data_buf, mem>>
  \/ /\ state = "ADDR"
     /\ addr_reg' = byte
     /\ state' = IF last_cmd = CMD_WRITE THEN "WRITE"
                 ELSE IF last_cmd = CMD_READ THEN "READ" ELSE "CMD"
     /\ read_data_buf' = IF last_cmd = CMD_READ THEN mem[byte] ELSE read_data_buf
     /\ UNCHANGED <<last_cmd, mem>>
  \/ /\ state = "WRITE"
     /\ mem' = [mem EXCEPT ![addr_reg] = byte]
     /\ addr_reg' = (addr_reg + 1) % B
     /\ UNCHANGED <<state, last_cmd, read_data_buf>>
  \/ /\ state = "READ"
     /\ addr_reg' = (addr_reg + 1) % B
     /\ read_data_buf' = mem[(addr_reg + 1) % B]
     /\ UNCHANGED <<state, last_cmd, mem>>

EmulatorRise ==
  LET byte == Shifted(rx_shift, mosi)
  IN  \/ /\ ~rst /\ bit_cnt = BYTE_BITS - 1
         /\ LastBitOf(byte) /\ bit_cnt' = 0 /\ rx_shift' = 0
      \/ /\ ~rst /\ bit_cnt < BYTE_BITS - 1
         /\ rx_shift' = byte /\ bit_cnt' = bit_cnt + 1
         /\ UNCHANGED <<state, last_cmd, addr_reg, read_data_buf, mem>>
      \/ /\ rst
         /\ UNCHANGED <<rx_shift, bit_cnt, state, last_cmd, addr_reg,
                        read_data_buf, mem>>

\* The next bit of a byte read goes out on the falling edge.  (In reset, state
\* is not READ.)
EmulatorFall ==
  /\ miso' = IF state # "READ" THEN 0
             ELSE Msb(IF bit_cnt = 0 THEN read_data_buf ELSE tx_shift)
  /\ tx_shift' = IF state # "READ" THEN 0
                 ELSE Shifted(IF bit_cnt = 0 THEN read_data_buf ELSE tx_shift, 0)

Rise ==
  /\ sm_data /\ sclk = 0
  /\ sclk' = 1 /\ rx_shift_reg' = Shifted(rx_shift_reg, miso)
  /\ EmulatorRise
  /\ UNCHANGED <<driver_vars, sm_data, mosi, tx_shift_reg, sm_bit_cnt,
                 done_latched, rx_data, tx_shift, miso, reset_vars>>

Fall ==
  /\ sm_data /\ sclk = 1
  /\ sclk' = 0
  /\ IF sm_bit_cnt < BYTE_BITS - 1
     THEN /\ mosi' = Msb(tx_shift_reg)
          /\ tx_shift_reg' = Shifted(tx_shift_reg, 0)
          /\ sm_bit_cnt' = sm_bit_cnt + 1
          /\ UNCHANGED <<sm_data, done_latched, rx_data>>
     ELSE /\ mosi' = 1 /\ sm_data' = FALSE
          /\ done_latched' = TRUE /\ rx_data' = rx_shift_reg
          /\ UNCHANGED <<tx_shift_reg, sm_bit_cnt>>
  /\ EmulatorFall
  /\ UNCHANGED <<driver_vars, rx_shift_reg, state, bit_cnt, rx_shift,
                 read_data_buf, addr_reg, last_cmd, mem, reset_vars>>

-----------------------------------------------------------------------------
(* The end of a byte, and of a call.                                       *)

\* The rising edge of the chip select.
Deselected_KeepsState ==
  /\ bit_cnt' = 0 /\ rx_shift' = 0 /\ tx_shift' = 0 /\ miso' = 0
  /\ UNCHANGED <<state, read_data_buf, addr_reg, last_cmd, mem>>
Deselected ==
  /\ state' = "CMD" /\ bit_cnt' = 0
  /\ rx_shift' = 0 /\ tx_shift' = 0 /\ miso' = 0
  /\ UNCHANGED <<read_data_buf, addr_reg, last_cmd, mem>>

\* SPI_TransferByte finds done; the byte is kept if it is one of data.
Received == IF pos > 2 THEN Append(got, rx_data) ELSE got

NextByte ==
  /\ waiting /\ done_latched /\ pos < Len(BytesOf(op))
  /\ waiting' = FALSE /\ pos' = pos + 1 /\ got' = Received
  /\ UNCHANGED <<op, answer, master_vars, emulator_vars, reset_vars>>

Return ==
  /\ waiting /\ done_latched /\ pos = Len(BytesOf(op))
  /\ waiting' = FALSE /\ pos' = 1 /\ got' = <<>> /\ op' = <<>>
  /\ answer' = IF op[1] = "read" THEN Received ELSE answer
  /\ Deselected /\ hit' = FALSE
  /\ UNCHANGED <<master_vars, rst>>

\* A reset of the master's board.  Its SPI master is reset with it and lets
\* go of the chip select; the emulator's board goes on.
Crash ==
  /\ op # <<>>
  /\ op' = <<>> /\ pos' = 1 /\ waiting' = FALSE /\ got' = <<>>
  /\ sm_data' = FALSE /\ sclk' = 0 /\ mosi' = 1
  /\ tx_shift_reg' = 0 /\ rx_shift_reg' = 0 /\ sm_bit_cnt' = 0
  /\ done_latched' = FALSE /\ rx_data' = 0
  /\ Deselected /\ hit' = FALSE
  /\ UNCHANGED <<answer, rst>>

\* A reset of the emulator's board alone, for as long as it takes.  The memory
\* keeps its contents.
EmulatorReset ==
  /\ ~rst /\ rst' = TRUE /\ hit' = (op # <<>>)
  /\ state' = "CMD" /\ bit_cnt' = 0 /\ rx_shift' = 0 /\ tx_shift' = 0
  /\ read_data_buf' = 0 /\ addr_reg' = 0 /\ last_cmd' = 0 /\ miso' = 0
  /\ UNCHANGED <<driver_vars, master_vars, mem>>

\* The synchronisers start from a low clock: a clock line that is high is
\* seen as one more rising edge when the chip is selected.
EmulatorRelease ==
  /\ rst /\ rst' = FALSE
  /\ IF op # <<>> /\ sclk = 1
     THEN rx_shift' = Shifted(rx_shift, mosi) /\ bit_cnt' = bit_cnt + 1
     ELSE UNCHANGED <<rx_shift, bit_cnt>>
  /\ UNCHANGED <<driver_vars, master_vars, state, tx_shift, read_data_buf,
                 addr_reg, last_cmd, miso, mem, hit>>

Next ==
  \/ \E addr \in SpiByte : ReadByte(addr) \/ \E byte \in Data : WriteByte(addr, byte)
  \/ \E addr \in SpiByte, len \in 1 .. MAX_LEN :
        ReadBytes(addr, len) \/ \E bytes \in [1 .. len -> Data] : WriteBytes(addr, bytes)
  \/ Transfer \/ Rise \/ Fall \/ NextByte \/ Return \/ Crash
  \/ EmulatorReset \/ EmulatorRelease

Spec == Init /\ [][Next]_vars

-----------------------------------------------------------------------------
(* Properties.                                                             *)

\* The registers keep their widths; a read gathers as many bytes as have
\* been transferred.
SpiTypeOK ==
  /\ {tx_shift_reg, rx_shift_reg, rx_data, rx_shift, tx_shift, read_data_buf,
      addr_reg, last_cmd} \subseteq SpiByte
  /\ {sclk, mosi, miso} \subseteq 0 .. 1
  /\ {sm_bit_cnt, bit_cnt} \subseteq 0 .. BYTE_BITS - 1
  /\ state \in {"CMD", "ADDR", "WRITE", "READ"}
  /\ mem \in [SpiByte -> SpiByte]
  /\ op # <<>> => pos \in 1 .. Len(BytesOf(op))
  /\ Len(got) = IF pos > 2 THEN pos - 3 ELSE 0

\* Master and emulator are at the same bit of the same byte: between two bytes
\* the emulator expects the command, the address or data exactly when the
\* driver is about to send it, whatever transfer was cut off before, on
\* either side.  Only the call that a reset of the emulator falls into is out
\* of step, and only to its end.
InStep ==
  /\ SpiTypeOK
  /\ ~hit /\ sm_data => bit_cnt = (sm_bit_cnt + sclk) % BYTE_BITS
  /\ ~hit /\ ~sm_data => bit_cnt = 0
  /\ ~hit /\ ~waiting => state = CASE op = <<>> \/ pos = 1 -> "CMD"
                           [] op # <<>> /\ pos = 2 -> "ADDR"
                           [] op # <<>> /\ pos > 2 /\ op[1] = "write" -> "WRITE"
                           [] op # <<>> /\ pos > 2 /\ op[1] = "read" -> "READ"

\* The bytes of a write that the emulator has stored.
Stored ==
  IF op = <<>> \/ pos <= 2 \/ op[1] = "read" \/ hit THEN 0
  ELSE pos - 3 + (IF waiting /\ (done_latched \/ (sm_bit_cnt = BYTE_BITS - 1 /\ sclk = 1))
                  THEN 1 ELSE 0)

Array == INSTANCE EepromArray WITH
  Address <- SpiByte, Cell <- SpiByte, MaxLen <- MAX_LEN, Initial <- [a \in SpiByte |-> a],
  request <- op, stored <- Stored, disturbed <- hit

\* The three together keep the promise of EepromArray: a byte written is
\* stored whole or not at all, in order, at its address and nowhere else,
\* a read returns what is stored, and a reset of the master at any edge of
\* the clock changes nothing that was stored.  A reset of the emulator alone
\* may make it take data for a command and store what nobody asked for, but
\* never once that call is over.
ImplementsArray == Array!Spec
=============================================================================
