# Formal models of the FPGA and embedded portfolio

TLA+ models of the programs and circuits of this repository, the TLC
configurations that check them, and proofs of the results that matter most. A
module follows the code it models line by line where control is concerned and
abstracts its data to what the properties can tell apart; `PROJECT.json` gives,
for every definition, the lines it stands for.

Contents: 1 the system, 2 modules and code, 3 runs and bounds, 4 fairness,
5 proofs, 6 findings, 7 limits, 8 plan.

To check a model or a proof:

    tlc -config PacketExchange.cfg MCPacketExchange
    tlapm ExchangeProofs.tla

## 1. The system

Paths are below `src/`; `mb/` is `embedded/microblaze-axi-system/`, `ip/` is
`hardware-design/axi-sensor-monitoring-soc/rtl/ip/`.

The centre of the repository is a pair of MicroBlaze boards. The **master**
measures distance, temperature and humidity, shows them on an LCD, sends them to
the **slave** and writes a warning into an EEPROM if the slave answers with one.
The EEPROM is a Verilog design on a **third board**. The peripherals of both
MicroBlaze boards are Verilog of the repository too, behind AXI-Lite registers.

    buttons, 2 s timer            HC-SR04, DHT11
            |                           |
        MasterApp --- MeasurementService, HCSR04/DHT11 drivers and controllers
            |     \
            |      WarningLogService --- EEPROM driver --- SPI --- EEPROM emulator
            |
          UART2  == sensor packet ==>  UART2 --- Slave0 parser --- Slave0_Warning
                 <== result packet ==                  |
                                                 Slave0_Time --- FND display

    each board:  LCD driver --- I2C master --- port expander --- character display

### Inventory

**Warning log** (`mb/master/ap/WarningLogService.c`). State: a header of four
bytes and a ring of 48 records of five bytes in the EEPROM. Operations: Init,
Format, Save, DumpAll, called by MasterApp. Hard: one byte is written at a time,
and the master may be reset or a transfer may give up between any two; the
EEPROM survives. Correct if what is listed was written, in order, oldest first,
and an interruption costs at most the record being written.

**EEPROM driver, SPI and emulator** (`mb/master/HAL/EEPROM/EEPROM.c`,
`ip/SPI_1.0`, `hardware-design/spi-eeprom-emulator`). State: shift
registers, bit counters, the command phase and the memory. Operations: write
and read of one byte or a block. Hard: two boards that agree only through the
SPI lines, and a reset of either in the middle of a byte. Correct if the whole
is an array of bytes, of which a reset loses at most what it was writing.

**Master sequence** (`mb/master/ap/MasterApp.c`, `driver/Button`, `HAL/TIMER`,
`common/interrupt`). State: the state of MasterApp_Update, auto mode, the log
request, button edges and flags, the timer's counter, enable and interrupt bits,
its pending interrupt and flag, the LCD text. Hard: an interrupt between any two statements, buttons that move
while the loop is blocked. Correct if no tick is lost or left over, each sample
is of its own period, a dump that was asked for is made, and auto mode goes on.

**Measurement** (`mb/master/ap/MeasurementService.c`, `HAL/HCSR04`, `HAL/DHT11`,
`ip/HCSR04_1.0`, `ip/slave_dht11_1.0`). State: two hardware FSMs with their
latched results. Hard: sensors that do not answer, stop half way or are misread;
a result left over from an earlier measurement. Correct if a value given out is
one that the sensor sent for this measurement.

**Packets and exchange** (`mb/master/ap/Protocol.c`, `mb/master/HAL/UART2`,
`mb/slave0/ap/Slave0/Slave0.c`, `Slave0_Packet.c`, `mb/slave0/HAL/UART2`,
`ip/uart_1.0`). State: a one-byte receive register on each board, the parser's
buffer, the master's reply buffer. Hard: bytes lost, damaged or overwritten,
restarts of either board, no sequence number, no time-out in the parser. Correct
if the boards find back into step and no answer is taken for another sample's.

**Displays** (`mb/master/HAL/LCD/LCD.c`, `mb/slave0/driver/LCD1602/LCD1602.c`,
`mb/slave0/HAL/I2C/I2C.c`, `ip/I2C_1.0/src/i2c_master.sv`). State: the byte being
sent and how far its frame has gone; in the display, half a byte, the mode, the
cursor and the text. Operations: initialise, print two lines. Hard: nothing is
read back, a frame that nobody acknowledges is lost unnoticed, and the display
is not reset with its board. Correct if an initialisation brings it into step
from wherever it was and a print shows what was asked for.

**Warning decision** (`mb/slave0/ap/Slave0/Slave0_Warning.c`). State: the last
condition and a counter. Correct if a warning is answered exactly when the same
condition was met three times in a row.

**Slave clock and display** (`mb/slave0/ap/Slave0/Slave0_Time.c`,
`mb/slave0/driver/FND/FND.c`). State: milliseconds, seconds, minutes, the number
shown and the two ports that drive one digit at a time. Correct if the clock
counts every tick and no digit shows another digit's segments.

**Time controller** (`hardware-design/uart-fifo-sensor-time-controller/rtl`), a
board of its own. State: the control FSM, and for each of stopwatch and watch a
divider, a tick register and a chain of counters. Operations: the switches
select a function, buttons (or the same commands over UART) run, clear, set and
edit. Hard: all of it happens on every clock at once; a tick is in its register
for one clock while the FSM moves on, and meets a clear, an edit or a change of
direction there. Correct if both clocks count every clock they should and no
other, a clear is complete, and a tick that meets an edit is neither lost nor
doubled.

**Command path** of the time controller (`uart_tx_rx_module.v`, `fifo_module.v`,
`ascii_decoder` in `modules.v`, `sender_module.v`, wired in `TOP.v`). State: the
tick divider, both shift registers with their oversampling counters, two FIFOs
of four and sixteen characters, the decoder and the report counter. Operations: a character
from the PC presses a button, and one of the buttons sends a report of sixteen
characters back. Hard: no part waits for another; the decoder is slower than the
FIFO that feeds it, the sender ignores a full FIFO, and a command or the reset
pin resets everything in the middle of a character. Correct if each command acts
once and the PC reads the report that was written.

**Not modelled**, and why. The interrupt-driven UART, timer and interrupt code
of the slave (`mb/slave0/HAL/UART/UART.c`, `HAL/TMR/TMR.c`,
`common/interrupt/interrupt.c`) has no caller: main.c polls UART2 and counts
milliseconds by delay. The AXI-Lite register files are the vendor template; the
registers in them whose clearing meets a set are modelled where they matter. The
time controller's sensor readers, display and debouncers, and the designs under
`verification/` (UART/FIFO/ASCII decoder, SPI and I2C, AXI GPIO), are variants
of what is modelled or exercises that belong to no system. In the RV32I CPU an
instruction is one clock, so a reference for it would restate the decoder. Test
benches, block designs, constraints, vendor templates and project pages are not
the system; `ondevice-ai` has no code.

`PROJECT.json` lists the hazards of the code at their lines with the properties
that watch them. Those without a property say why.

## 2. Modules and code

A module is one component. A name in a model is the name in the code wherever
there is one; variables that no code reads are *history variables* and are
marked as such. Definitions such as `Popped_NeverEmpty` that stand
before `Popped` are faulty variants of it: plausible slips, each of which makes some
property fail. No specification uses them.

| Module | Code | State and actions |
| --- | --- | --- |
| `Bytes` | checksum loops | bytes and their exclusive or |
| `WarningLog` | WarningLogService.c | `mem` is the EEPROM, `pc` the next byte write, `hdr` and `record` the locals of Save. One action per byte written (`WriteMagic`, `WriteRecordByte`, `WriteIndex`, `WriteCount`, `WriteSeq`), `Boot` for Init, `Timeout` for a transfer that fails with the early return it causes, `Crash` for a reset |
| `EventLog`, `WarningLogEvents` | the contract of the log | a bounded sequence of events, and what an interruption may do to it: lose the event being recorded (`LoseEvent`) or keep it with a number that is used again (`KeepEvent`), bring back the one that was making room (`Restore`), or leave the count behind, after which only the numbers are promised (`Degraded`). The refinement mapping is what DumpAll would list |
| `SpiEeprom` | EEPROM.c, spi_master.sv, spi_eeprom_emulator.v | one action per SPI clock edge as seen by both sides, the driver's polling of the done flag, `Crash` of the master, and a reset of the emulator's board alone: held by `EmulatorReset` while the master goes on, let go by `EmulatorRelease` |
| `EepromArray` | the contract of the driver | an array; a read or write that ends with success did all of it, one that a reset of the master cuts off did a prefix; when the emulator was reset in the middle of it (`Disturb`), it may also have changed bytes it did not name (`Scramble`), until it ends |
| `MasterApp` | MasterApp.c, Button.c, TIMER.c, TimerCounter.v, interrupt.c | `pc` is the place inside MasterApp_Update, `master_state` its state variable. The button poll, each register access of TIMER_Start2SecInterrupt (`StopTimer`, `SetCounter`, `StartTimer`), the counter's `Tick` and the interrupt handler are actions of their own and fall between any two others |
| `HCSR04`, `DHT11` | hcsr04.v, dht11_controller.v and drivers | the FSMs by their observable states; the sensor may stay silent, stop at any bit, or have bits misread |
| `MeasurementService` | MeasurementService.c | composes the two: Start and Read, and the polling MeasureBlocking |
| `Protocol` | Protocol.c, Slave0_Packet.c | building and parsing both packets, each with its own board's checksum bounds |
| `Slave0Warning` | Slave0_Warning.c | `Evaluate` |
| `Slave0` | Slave0.c | the byte parser, the answer, the counters, the receive register with the read that collides with an arriving byte (`ReadCollides`), and a line that loses and damages bytes |
| `PacketExchange` | MasterApp.c, UART2.c, Slave0 | composes the master's flush, send, receive and time-out with `Slave0`; adds the way back, the master's register and restarts of either board |
| `SlaveClock` | Slave0_Time.c, FND.c, main.c | the tick with its carries, and the three port writes per digit |
| `CharLcd` | LCD.c, LCD1602.c, I2C.c, i2c_master.sv | `todo` the bytes a driver has still to send, `step` the data byte of the I2C frame on its way, `lcd` the display as the drivers expect it: mode, half byte, cursor, text. `SendByte` starts a frame, `DataByte` delivers one of its four bytes, `LoseFrame` is a frame without acknowledgement, `Reset` is of the board |
| `TimeController` | MODE_CONTROL.v, stopwatch_datapath.v, watch_datapath.v, TOP.v | one step is one clock edge: every register takes its next value from the old ones (`Control`, `Stopwatch`, `Watch`), or all are reset |
| `Fifo` | fifo_module.v | pointers, flags and memory; one operator for a clock, with `QueueAfter`, the bounded queue it promises to be |
| `Uart` | uart_tx_rx_module.v | tick divider, receiver and transmitter, each as the next value of its registers |
| `CommandPath` | TOP.v, ascii_decoder, sender_module.v | composes both FIFOs and the UART with decoder, sender and the PC: `ClockEdge`, and the reset by the pin (`Reset`) or by a command (`ResetByCommand`) |

`MC…` modules hold the values that a configuration file cannot write down.
`…Proofs` modules hold theorems.

Some correspondences deserve a word.

*Bytes of the EEPROM.* A Save writes five bytes of the record, then
write_index, log_count and next_seq. The header is read at the beginning of the
Save and clamped as ReadHeader does; the values written are computed from it.
A time-out returns through every caller, as the code does, so the header is not
written when the record failed.

*Receive registers.* The UART peripheral has one register and a flag. At 115200
baud a byte takes 87 µs and both boards poll faster than that while they read,
so a byte is overwritten only while its reader is elsewhere: the slave from the
moment it answers until `Finish`, the master until its send has returned. The
two directions run at the same speed; `lead` keeps the order of bytes on the two
lines within what that allows.

*A byte cut off by a reset* is received with the low bits that were already out
and ones for the idle line (`Cut`).

*Time.* The master waits two seconds between packets and one second for a byte.
Both are much longer than the slave is ever busy, which is why a new exchange
starts only when the slave is quiet, and why a time-out happens only when nothing
more is on its way. The sensors' longest answers (38 ms, 24 ms) are likewise
shorter than the two seconds and the polling loops.

## 3. Runs and bounds

| Run | Question | Bounds, and why they are enough |
| --- | --- | --- |
| `log_interrupted` | What survives resets and failed transfers between any two byte writes, and is the log still a queue of events? | Three slots in 19 bytes: the ring wraps, its last record ends on the last byte, and the middle slot has neighbours on both sides. Sequence numbers wrap at 8. Both an erased chip and the emulator's initial contents |
| `log_cutoff`, `log_format` | two claims that fail, section 6 | as `log_interrupted` |
| `spi_eeprom` | Is the driver with the emulator an array, across resets of either board in mid-bit? | Bytes of two bits, blocks of up to two bytes: a first, a last and a wrap-free next byte. The commands keep distinct codes at this width, and data bytes can be taken for them |
| `master` | Do measurements, dumps and auto mode make progress, on their own timer? | A period of three ticks, so that a counter can hold less or more than one tick of an earlier one; otherwise no bound, the state is finite. Every outcome of the exchange |
| `measure` | Is a reading of this measurement and undamaged? | Bytes of two bits, one misread bit, one echo of 513 cm, one beyond the nine bits, and two answers, one of them all zero as the register is after a reset |
| `measure_stale` | a claim that fails, section 6 | no misread bits |
| `slave_clock` | Does the clock count and the display show it? | A whole hour of 60 by 60; two milliseconds per second, since the first carry needs a below and an at |
| `packet_exchange` | Do the boards get back into step, is each answer for its sample, and is a warning confirmed exactly after three in a row? | Five exchanges, faults two exchanges apart: a fault, the exchange it disturbs, a clean one, and a second fault on what the first left behind. They are also enough for a condition to repeat up to the limit of three, or to change before it. Four samples: two different warnings, a normal one and one without a distance, so that every change of condition and a sensor error, which sets the counter to its limit, can come between two warnings; three values for a damaged byte: the start byte, the packet type and neither. States that differ only in the slave's counters, which it prints and no guard reads, or in a receive register that has been read, are taken for one (`WhatMatters`, the VIEW of the run) |
| `lcd` | Does an initialisation bring a display into step, and does a print show its text? | A line of two columns and three in memory, texts shorter than, as long as and longer than a line. Two resets: one can cut off the initialisation that the other caused. One lost frame, anywhere |
| `time_controller` | Do both clocks count every clock, whatever is pressed or switched meanwhile? | Two clocks per tick; a stopwatch of 2, 2, 2 and a watch of 2, 3, 2, 2, 2, 2: every carry chain occurs up to its whole length, the tick that meets an edit reaches the edited digit or stops below it, and a digit of 3 tells up from down. All switches, every single button and the two pairs whose order the code decides |
| `command_path` | Does each command act once, and does each report arrive, with resets at any time? | Two bits per character, four ticks per bit, two clocks per tick: a sample before, at and after the middle, and a line slow enough that what must not depend on a race does not (a bit is 8 clocks here, 10416 in the code). FIFO_TX holds exactly one report, as 16 and 16 in the code; a FIFO of two is full and empty after one push or pop. The PC's bits are up to one clock off |

What the properties say is written above each of them. In short:

* `IInv` of `WarningLog`: the inductive invariant of section 5.
  `TornOnlyAtWriteIndex`: a half-written record is only ever in the slot the
  next Save overwrites. `DumpOnlyWritten`: DumpAll lists no slot that no Save has
  filled. `SequenceFollowsRing`: an interruption repeats a number, never skips
  one. `HeaderStaysValid`, a part of it: no restart formats
  a log again.
  `OtherRecordsUntouched`: addresses never run into a neighbour.
  `ImplementsEventLog`: refinement of `EventLog`, with resets and failed
  transfers; as long as the count keeps up, the log is a queue that an
  interruption costs one event at most.
* `InStep`: emulator and master are at the same bit whenever a transfer starts.
  `ImplementsArray`: refinement of `EepromArray`. Both with resets of either
  board.
* `TimerServesMeasurement`, `SampleIsOfThisPeriod`, `DisplayTellsTruth`,
  `HeldButtonActsOnce`; under fairness `MeasurementEnds`, `DumpIsMade`,
  `AutoKeepsMeasuring`.
* `DistanceIsFresh`: a distance is of the echo of this measurement.
  `DamageIsCaught`: an answer is accepted exactly when no bit was misread.
  `SensorsKeepAnswering`: no controller stays busy over the next start while its
  sensor answers, and after the first silence none ever ends a measurement again:
  the distance is then reported missing every time. What the DHT11's register
  still holds is reported, section 6.
* `ConfirmedIffRepeated`: a warning is answered exactly when the same condition
  was met three times in a row, also right after a sensor error, which leaves the
  counter at its limit.
* `InitResynchronises`: after an initialisation that lost nothing the display
  pairs nibbles as the driver sends them, whatever a reset left in it, and no
  frame lost later changes that. `ScreenShowsMessage`: a print that lost nothing
  shows its two lines, over whatever stood there.
* `ClockCountsTicks`; `LitDigitIsCurrent`: no digit ever shows another's
  segments or an old time.
* `StopwatchCountsClocks`, `WatchCountsClocks`: divider, tick register and
  counters together are one number that moves by one per clock, or stands
  still. `SettingIsExact`: of the clocks that are exempt there, the first one
  lets the tick on its way through all the digits, and an edit moves the selected
  digit only where that tick leaves it alone. `ClearIsComplete`,
  `SwitchTakesEffect`.
* `Resynchronises`: one clean packet after any fault leaves the parser at the
  start of a packet. `ExchangeRecovers`: the second clean exchange ends with the
  slave's verdict on its sample. `AnswerIsForThisSample`: an answer that the
  master believes is the slave's verdict on the sample of this very exchange, or,
  if the slave could not read that, the sensor error that says so.
  `AcceptedIsCurrent`: the slave takes no sample from the bytes of two packets.
  `OnlyAcceptedSamplesCount`, `BufferHoldsPrefix`, `AnswerParses`.
* `EachCommandOnce`: a character sent presses its button once and nothing else
  presses one. `NothingIsLeftOver`: FIFO_RX never holds two characters.
  `ReportInOrder`: the PC reads what the sender wrote; a character is dropped
  only when a report was asked for too early. `FifosAreQueues`.

The types of `MasterApp` and `TimeController` are proved and not run.

Deadlock is checked in every run: a model that has used up a bound has an
explicit stuttering action for it.

## 4. Fairness

Only `master` has liveness properties. `FairSpec` assumes weak fairness of three
things and nothing else:

* the main loop (`MainLoop`): main.c calls MasterApp_Update without end, and
  every call it makes returns, since each of its waits counts down;
* the timer (`Tick`): the clock of a counter that is enabled goes on. It says
  nothing of when a period ends: that follows from the registers;
* the interrupt handler (`TimerIntrHandler`): interrupts stay enabled, and a
  pending one is taken.

Nothing is assumed of buttons, and no outcome of an exchange or a Save is fair:
`DumpIsMade` therefore has the escape that one exchange after another fails, in
which case presses can win against the dump each time.

## 5. Proofs

TLC checks small instances; the theorems hold for all values of the constants
that satisfy the assumptions named in the modules. Those say what the code says
of them: the ring fits between header and end of memory (`LayoutAssumption`),
the counter limit is a uint8_t (`WarningAssumption`), samples are of uint16_t
and uint8_t, clock values and damaged bytes are bytes (`LineAssumption`).

| Module | Proved | Argument |
| --- | --- | --- |
| `WarningLogProofs` | all safety properties of `log_interrupted`, and its refinement `ImplementsEventLog` | `IInv` is inductive. It has five named parts: what the locals of Save say of the header on the chip at each step (`ControlInv`), what a half-finished Format leaves (`FormatInv`), that header cells are in range once formatted (`HeaderInv`), that the bytes of the slot being written are those of `record` so far (`RecordInv`), and that listed slots were written (`WrittenInv`). The properties alone are not inductive: a reset between write_index and log_count is harmless only because of what the record and the written slots were then. Slot addresses are shown disjoint by arithmetic in `SlotsDisjoint`. For the refinement, `OrderIs` says which slots DumpAll lists and in what order, `Listed` what it prints of them; `EventInv` says that the record on its way is one that a caller asked for, and every action is then one event of `EventLog` or shows nothing (`EventSteps`) |
| `ExchangeProofs` | both packet round trips; the warning decision for every limit up to 255 and every sample; of the slave alone and of the exchange: types, `BufferHoldsPrefix`, `AnswerParses`, `OnlyAcceptedSamplesCount`, `ConfirmedIffRepeated`, `Resynchronises`, `ExchangeRecovers` | `CountIsRunLength`: the counter is the length of the run of equal conditions at the end of the history, up to the limit (`WarningInv`). The two boards' checksum loops range over the same bytes (`XorDependsOnRange`). Every step of the exchange is a step of the slave, a reset of the master, which leaves at most one byte of a packet on the line, or a fault on the way back. `StreamInv` is how the parser gets into step: while a packet without a fault arrives it is at the start of that packet, or takes bytes of it for the rest of an earlier one, or has seen the end of one and drops what follows, and the second byte of the packet decides which. `RoundInv` follows a request after such a packet: on its way (`Waiting`), taken and answered (`Answered`), the answer on its way (`Arriving`) and understood (`Understood`) |
| `MasterAppProofs` | the safety properties of `master` | `MasterInv` adds to them which step of MasterApp_Update goes with which state (`StepInv`), with the registers of the timer at it (a counter that runs belongs to the measurement under way; `CountsStep` carries that over each tick), what an error leaves behind (`ErrorInv`) and that a button seen released is not in the previous state (`ButtonInv`) |
| `TimeControllerProofs` | of the time: types, `ClearIsComplete`, `SettingIsExact`, `SwitchTakesEffect`, `StopwatchCountsClocks`, `WatchCountsClocks`, for every chain of moduli and every divider. Of the command path: types and `FifosAreQueues`, for every width, speed, depth and report; `EachCommandOnce` and `NothingIsLeftOver` when half a bit lasts four clocks or more (`SlowLine`); `ReportInOrder` when a report fits into FIFO_TX | `TimeInv` adds to the types that no tick is in its register in SW_CLEAR or SW_MODE (`NoTickInPulse`): both are reached only through SW_STOP, whose first clock empties it. This is why a clear never meets a tick, although the counters would prefer the tick. That the clocks are exact is a fact of chains: below each counter the sum of the lower ones stays under its unit, is at its last value exactly when all of them are, and moves by one (`ChainUp`, along `ChainLink`); counting down is counting up read backwards (`DownIsUpBackwards`). What leaves the divider is in the tick register (`DividerStep`), so counters, register and divider together move by one clock, up to a whole turn (`ClocksGoOn`, `TurnsDoNotShow`). In a setting state the digits are such a chain too, once the selected one is put back to what it showed before its edit (`SettingClockStep`). The UART receiver waits for a start bit with its counter half a bit on, so that the counter never leaves its range; the FIFOs by citing `FifoProofs` twice. How a character gets through the command path is told below |
| `FifoProofs` | a FIFO of any depth is a bounded queue | `FifoInv`: the pointers meet exactly when it is full or empty, and the flags tell which. `Contents` is then the queue, and the eight cases of push, pop and the flags change it as `QueueAfter` says |
| `SpiProofs` | `InStep`, and the refinement `ImplementsArray`, for every number of bits in a byte, every data and every length of a request | `SpiInv`. A byte on its way is described by two predicates: `Out`, that the bits already out make a number of which the byte is that many times what the next bit is worth, plus a rest that is still in the register; and `In`, that the bits already in make a number at the low end of a register that still has something older above it. Each edge carries one into the other (`OutNext`, `InBit`, `InNext`), which is arithmetic of powers of two (`PowerDoubles`, `TopBit`, `ShiftIn`). `SendInv` says that of the byte sent and `ReadInv` of the byte read; with the last bit (`OutEnd`, `InEnd`) the emulator has the driver's byte, so its state is the one that the number of bytes taken asks for (`StateInv`), and every step is one of `EepromArray` or shows nothing of it (`ArraySteps`). The properties alone are not inductive: that a byte arrives says nothing of half a byte. TLC has checked `SpiInv` too, for bytes of two and three bits |
| `PeripheralProofs` | `DistanceIsFresh` for every set of echoes, `SensorsKeepAnswering` and, when at most one bit of an answer is misread, `DamageIsCaught` for every number of bits; `ClockCountsTicks` and `LitDigitIsCurrent` for every length of second, minute and hour; `InitResynchronises` and `ScreenShowsMessage` for every text and every size of the display | A set latch implies an echo since the last start (`LatchInv`), and the register then holds its length (`EchoInv`); a sensor that is asked owes an answer as long as its controller is busy, unless it has stayed silent, and then the controller waits for ever (`AnswerInv`). `SentInv` says that the register holds the bits of the answer that have come, one of them changed if one was misread (`Came`, carried on by `CameNext`). With all of them in, a changed bit makes another value of its byte (`ValueTellsBits`), which is the sum itself or moves the sum by less than the range of a byte, and so to another remainder (`SumsNear`, `NearbyRemaindersDiffer`); without one the bytes are those sent (`ValueOfBits`). TLC has checked `SentInv` too. The clock is a number in a mixed radix with three carries (`CountInv`), and no digit is lit while its segments are written (`PortInv`). The display: `BusInv` has the registers; `InitInv` says after how many bytes of the initialisation, and of the frame, the display is in which mode (`Booted`), whatever half byte it began with; `ScreenInv` says which bytes of the print are still to come and what the display shows after the ones before them (`Shown`), so that the last byte completes the text |

What the command path does over whole characters is two inductive invariants,
one for each direction, since a character takes many steps of several machines.

* *In* (`InInv` and `InStepInv`): as long as no reset has cut anything off, at
  most one character is owed, and it is in one of six stages (`Stage`): nothing
  on its way, begun, so many bits sampled, received, in FIFO_RX, in the decoder.
  While bits are sampled the next sample is due a `lag` before the end of its
  bit (`Lagging`); the lag stays the same to the last bit, as both sides count
  the same clocks, and is never less than half a bit. After a reset that cuts a
  character off the receiver may take the rest of it for one; `SpacedInv` says
  that even then the decoder is done before another can come, because the
  receiver's register must first fill with new bits. `SlowLine` (B_VALUE > 1 and at
  least four clocks in half a bit) is what decoder and FIFO need between the
  middle of a stop bit and the next start bit; the code has 651 and 8 * 651.
* *Out* (`OutInv`): `due_out` is the characters on the line followed by those in
  FIFO_TX (`OwedInv`); the PC's reader has sampled as many bits as transmitter
  and tick counter say, and is in the middle of one (`TalkInv`, `Hearing`). A
  character that a reset cut off is read to its end before the next begins
  (`CutInv`): the reset clears FIFO_TX, and a new report needs a whole command
  first, which takes longer on the line than the rest of the cut one. Without
  `crowded` FIFO_TX holds at most the part of a report written so far
  (`CrowdInv`), so it drops nothing if REPORT_LENGTH <= DEPTH_TX, which are both
  16 in the code.

While this was being proved TLC, on an instance with longer bits, showed
`ReportInOrder` violated by the history of the model: it took a character that
a reset had cut off for the first of those owed. `Answered` now leaves it out.

The theorems about `Resynchronises` and `ExchangeRecovers` hold for the samples
of which both speak, those whose packets have no second start byte
(`OneStartByte`); TLC checks that the samples of the run are of that kind.

The induction along a chain is over a set of numbers and not over a predicate
(`NumbersFromZero` in `NumberLemmas`, from the well-foundedness of inclusion
between finite sets), because the provers cannot instantiate the library's
induction theorems. The sums, the units and the values of bits, recursive
functions of the model, exist by `RecursionExists`. `NumberLemmas` also has the
powers of two, as the numbers of subsets (`PowerDoubles`), and the facts of
quotients and remainders that the other modules cite.

Left to TLC: liveness; `AnswerIsForThisSample` and `AcceptedIsCurrent`, which
hold for the samples and the damaged bytes of the run but not for all: a damaged
byte can complete another sample's checksum. `DamageIsCaught` is false with two
misread bits in one answer, as they can cancel in the sum, so its theorem has
that as a hypothesis.

## 6. Findings

Each is a run that TLC refutes.

* `log_cutoff`: write_index is stored before log_count. Cut off in between, the
  count stays one behind, the newest record is not listed and a later Save
  overwrites a listed record of a ring that is not full, against the README of
  the project (up to 48 records, overwritten when full).
* `log_format`: Format writes the magic byte before the header. Cut off in
  between, the next start reports a ready log whose header was never written.
* `measure_stale`: the comment in MeasurementService.c says that only a sensor
  whose completion was checked reaches the result, but `valid` of the DHT11 is
  the checksum of whatever the shift register holds, zeroes after a reset
  included, and nothing clears it at a start.

## 7. Limits

* The samples of `packet_exchange` have no second start byte in their packet. A
  sample of 170 cm and 16 °C carries AA 10 inside its packet; with a byte lost,
  the parser can start there, and the pieces of two packets can then pass the
  exclusive or. No text of the repository promises otherwise.
* Faults in `packet_exchange` are two exchanges apart, and the slave's sending
  may fail but the master's transmitter always becomes ready again.
* The exchange inside `MasterApp`, and the Save, are one step each with every
  outcome; their insides are `PacketExchange` and `WarningLog`.
* A display that is out of step executes what no driver sent. If a board is reset
  when the first nibble, zero, of a command is in the display, the 0x33 that
  follows can complete a Return Home, and a nibble that comes while that runs may
  be ignored. The display can then be out of step until the next
  initialisation. `CharLcd` remembers this in `spoilt`, and its properties
  except such a start.
* The drivers wait a fixed two or three milliseconds where a frame needs half of
  one, which `CharLcd` takes from the I2C master's clock divider; it never finds
  the I2C master busy. How numbers become digits on the display is left out.
* MasterApp_Update tells the user "Log Saved" also when Save failed; `MasterApp`
  has it so (`ProcessResult`), and no run is spent on it.
* `TimeController` takes a reset as one step and a button as the one-clock pulse
  that the debouncer or the decoder makes of it. Two buttons in one clock are in
  the run where their order matters.
* `SlaveClock` checks the ticks that are made. How many are not made while the
  slave answers, prints and writes its LCD depends on durations that the code
  does not bound.
* In `CommandPath` a reset takes effect on the clock edge after it is raised,
  where most registers take it at once, and is raised for single clocks. After
  the pin has cut off what the PC was sending, the PC pauses: if it went on
  without a gap the receiver could stay out of step for as long as it does.
* A report is taken from the running counters over sixteen clocks, so it can show
  a time that never was. `CommandPath` lets every digit change meanwhile and
  asks only that what was written arrives.
* In `SpiEeprom` a reset of the emulator in the middle of a call may change any
  byte until the call ends: that is what the emulator does, since it takes what
  follows for a command, and `EepromArray` can promise no more.
* The AXI-Lite handshake is not modelled: a register access is one step.
* `DistanceIsFresh` states the distance modulo 512, as the counter has it: an
  echo beyond 511 cm reads as a short distance. That an HC-SR04 does not reach
  that far is not in the code.
* The master's receive register in `PacketExchange` has no collision of a read
  with an arriving byte: it is the loss of a byte on the way back, which the
  line has anyway.

## 8. Plan

What is left, in order of what is at stake:

1. **Theorems.** Every safety property of a passing run is proved, but for the
   two named in section 5; for those, a theorem under the hypothesis that no
   damaged packet has a right checksum.
2. **I2C at bit level**: start, address, acknowledge, data and stop on SDA and
   SCL, with the read path that no driver uses.
3. **Register files**: the AXI-Lite handshake shared by all peripherals.
4. **Rest of the time controller**: its DHT11 and HC-SR04 readers, whose FSMs
   differ from those of the boards, the debouncers and the display.
5. **Designs under `verification/`**: the loopback in which a full FIFO_TX holds
   FIFO_RX back is the one that differs most from what is modelled.
6. **RV32I**, last.
