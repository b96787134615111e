------------------------------- MODULE Bytes -------------------------------
(***************************************************************************)
(* The uint8_t arithmetic the firmware computes with: bytes, and the       *)
(* exclusive or that every packet and every log record is protected by.    *)
(* Written without recursion, so that modules with proofs can use it.      *)
(***************************************************************************)
EXTENDS Integers

Byte == 0..255

\* The bit of weight d (1, 2, 4 .. 128) of a ^ b.
XorBit(a, b, d) == ((a \div d) + (b \div d)) % 2

ByteXor(a, b) ==
  1 * XorBit(a, b, 1) + 2 * XorBit(a, b, 2) + 4 * XorBit(a, b, 4)
    + 8 * XorBit(a, b, 8) + 16 * XorBit(a, b, 16) + 32 * XorBit(a, b, 32)
    + 64 * XorBit(a, b, 64) + 128 * XorBit(a, b, 128)

=============================================================================
