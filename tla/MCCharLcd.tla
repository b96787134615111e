------------------------------ MODULE MCCharLcd ------------------------------
(* A small instance of CharLcd for TLC. *)
EXTENDS CharLcd

\* Shorter than a line, as long, and longer; letters and digits differ in the
\* high nibble that a reset may leave behind.
ShortTexts == {<<>>, <<65>>, <<48, 66, 49>>}
=============================================================================
