---------------------------- MODULE MCWarningLog ----------------------------
(* Small instances of WarningLog for TLC. *)
EXTENDS WarningLogEvents

\* The EEPROM emulator starts with mem[i] = i, an erased chip with 0xFF.
Emulator  == [a \in Addr |-> a]
Erased    == [a \in Addr |-> 255]
BothImages == {Emulator, Erased}
=============================================================================
