------------------------------ MODULE SpiProofs ------------------------------
(***************************************************************************)
(* The EEPROM driver, the SPI master and the EEPROM emulator together      *)
(* keep the promise of EepromArray, for every width of a byte and every    *)
(* length of a request, resets of either board at any edge included.       *)
(***************************************************************************)
EXTENDS SpiEeprom, NumberLemmas, SequenceTheorems, TLAPS

-----------------------------------------------------------------------------
(* Arithmetic of shift registers.                                          *)

\* A number below twice M, modulo M.
LEMMA ModTwice ==
  ASSUME NEW M \in Nat \ {0}, NEW a \in Nat, a < 2 * M
  PROVE  a % M = IF a < M THEN a ELSE a - M
<1>1. CASE a < M
  BY <1>1
<1>2. CASE ~(a < M)
  BY <1>2
<1> QED
  BY <1>1, <1>2

\* A number below twice M, divided by M.
LEMMA DivTwice ==
  ASSUME NEW M \in Nat \ {0}, NEW a \in Nat, a < 2 * M
  PROVE  a \div M = IF a < M THEN 0 ELSE 1
<1>1. CASE a < M
  BY <1>1
<1>2. CASE ~(a < M)
  BY <1>2
<1> QED
  BY <1>1, <1>2

\* What is left of a byte goes out by its highest bit: of rest, which is worth
\* u in the shift register, the part worth v is the bit that leaves.
LEMMA TopBit ==
  ASSUME NEW v \in Nat \ {0}, NEW u \in Nat \ {0}, NEW rest \in 0 .. 2 * v - 1
  PROVE  \E bit \in 0 .. 1, less \in 0 .. v - 1 :
           /\ rest = bit * v + less
           /\ (rest * u) \div (v * u) = bit
           /\ (2 * (rest * u)) % (2 * (v * u)) = less * (2 * u)
<1> DEFINE M == v * u
<1>1. M \in Nat \ {0} /\ rest \in Nat
  OBVIOUS
<1>2. CASE rest < v
  <2> DEFINE r == rest * u
  <2>1. r \in Nat /\ r < M
    <3>1. (v - rest) * u = v * u - rest * u
      OBVIOUS
    <3>2. v - rest \in Nat \ {0}
      BY <1>2
    <3>3. (v - rest) * u \in Nat \ {0} /\ rest * u \in Nat
      BY <3>2
    <3> QED
      BY <1>1, <3>1, <3>3
  <2>2. r * 2 = rest * (2 * u)
    OBVIOUS
  <2>3. r \div M = 0 /\ (2 * r) % (2 * M) = 2 * r
    <3> HIDE DEF r, M
    <3>1. 2 * M \in Nat \ {0} /\ 2 * r \in Nat /\ 2 * r < 2 * (2 * M) /\ 2 * r < 2 * M /\ r < 2 * M
      BY <1>1, <2>1
    <3>2. r \div M = 0
      BY <1>1, <2>1, <3>1, DivTwice
    <3> DEFINE N == 2 * M
               q == 2 * r
    <3> HIDE DEF N, q
    <3>3. N \in Nat \ {0} /\ q \in Nat /\ q < 2 * N /\ q < N
      BY <3>1 DEF N, q
    <3>4. q % N = q
      BY <3>3, ModTwice
    <3> QED
      BY <3>2, <3>4 DEF N, q
  <2>4. rest = 0 * v + rest /\ rest \in 0 .. v - 1
    BY <1>2
  <2>5. 2 * r = rest * (2 * u)
    BY <2>1, <2>2
  <2> HIDE DEF M, r
  <2>6. /\ rest = 0 * v + rest /\ r \div M = 0 /\ (2 * r) % (2 * M) = rest * (2 * u)
    BY <2>3, <2>4, <2>5
  <2>7. 0 \in 0 .. 1
    OBVIOUS
  <2> QED
    BY <2>4, <2>6, <2>7, Zenon DEF M, r
<1>3. CASE ~(rest < v)
  <2> DEFINE less == rest - v
             r == rest * u
             l == less * u
  <2>1. less \in 0 .. v - 1 /\ less \in Nat /\ rest = 1 * v + less
    BY <1>3
  <2>2. r = M + l /\ l \in Nat
    <3>1. (v + less) * u = v * u + less * u
      BY <2>1
    <3> QED
      BY <2>1, <3>1
  <2>3. l < M
    <3>1. (v - less) * u = v * u - less * u
      BY <2>1
    <3>2. v - less \in Nat \ {0}
      BY <2>1
    <3>3. (v - less) * u \in Nat \ {0}
      BY <3>2
    <3> QED
      BY <1>1, <2>2, <3>1, <3>3
  <2>4. 2 * l = less * (2 * u)
    BY <2>1
  <2>5. r \div M = 1 /\ (2 * r) % (2 * M) = 2 * l
    <3> HIDE DEF r, M, l
    <3>1. r \in Nat /\ r < 2 * M /\ ~(r < M)
      BY <1>1, <2>2, <2>3
    <3>2. r \div M = 1
      BY <1>1, <3>1, DivTwice
    <3> DEFINE N == 2 * M
               q == 2 * r
    <3>3. N \in Nat \ {0} /\ q \in Nat /\ q < 2 * N /\ ~(q < N) /\ q - N = 2 * l
      BY <1>1, <2>2, <2>3, <3>1
    <3> HIDE DEF N, q
    <3>4. q % N = q - N
      BY <3>3, ModTwice
    <3> QED
      BY <3>2, <3>3, <3>4 DEF N, q
  <2> HIDE DEF M, r, l, less
  <2>6. /\ rest = 1 * v + less /\ r \div M = 1 /\ (2 * r) % (2 * M) = less * (2 * u)
    BY <2>1, <2>4, <2>5
  <2>7. 1 \in 0 .. 1
    OBVIOUS
  <2> QED
    BY <2>1, <2>6, <2>7, Zenon DEF M, r
<1> QED
  BY <1>2, <1>3

\* A bit comes in at the low end: of what was in the register before, the
\* highest part is lost.
LEMMA ShiftIn ==
  ASSUME NEW w \in Nat \ {0}, NEW g \in Nat \ {0}, NEW hi \in 0 .. g - 1,
         NEW old \in 0 .. 2 * w - 1, NEW m \in 0 .. 1
  PROVE  \E older \in 0 .. w - 1 :
           (2 * (old * g + hi) + m) % (2 * (w * g)) = older * (2 * g) + (2 * hi + m)
<1>1. PICK bit \in 0 .. 1, older \in 0 .. w - 1 : old = bit * w + older
  <2>1. CASE old < w
    <3>1. old = 0 * w + old /\ old \in 0 .. w - 1 /\ 0 \in 0 .. 1
      BY <2>1
    <3> QED
      BY <3>1
  <2>2. CASE ~(old < w)
    <3>1. old = 1 * w + (old - w) /\ old - w \in 0 .. w - 1 /\ 1 \in 0 .. 1
      BY <2>2
    <3> QED
      BY <3>1
  <2> QED
    BY <2>1, <2>2
<1> DEFINE M == 2 * (w * g)
           low == older * (2 * g) + (2 * hi + m)
           all == 2 * (old * g + hi) + m
<1>2. M \in Nat \ {0} /\ low \in Nat /\ older \in Nat /\ hi \in Nat
  OBVIOUS
<1>3. low < M
  <2>1. (w - 1 - older) * (2 * g) = 2 * (w * g) - 2 * g - older * (2 * g)
    BY <1>2
  <2>2. (w - 1 - older) * (2 * g) \in Nat
    BY <1>2
  <2>3. 2 * hi + m < 2 * g
    OBVIOUS
  <2>4. older * (2 * g) \in Nat /\ w * g \in Nat
    BY <1>2
  <2> QED
    BY <2>1, <2>2, <2>3, <2>4
<1>4. all = bit * M + low
  <2>1. old * g = bit * (w * g) + older * g
    BY <1>1
  <2>2. older * (2 * g) = 2 * (older * g) /\ bit * M = 2 * (bit * (w * g))
    BY <1>2
  <2>3. old * g \in Nat /\ older * g \in Nat /\ bit * (w * g) \in Nat
    BY <1>2
  <2> QED
    BY <2>1, <2>2, <2>3
<1>5. CASE bit = 0
  <2>1. all = low
    BY <1>2, <1>4, <1>5
  <2> HIDE DEF M, low, all
  <2>2. all % M = low
    BY <1>2, <1>3, <2>1, ModTwice
  <2> QED
    BY <2>2 DEF M, low, all
<1>6. CASE bit = 1
  <2>1. all = M + low
    BY <1>2, <1>4, <1>6
  <2> HIDE DEF M, low, all
  <2>2. all \in Nat /\ all < 2 * M /\ ~(all < M) /\ all - M = low
    BY <1>2, <1>3, <2>1
  <2>3. all % M = low
    BY <1>2, <2>2, ModTwice
  <2> QED
    BY <2>3 DEF M, low, all
<1> QED
  BY <1>5, <1>6

-----------------------------------------------------------------------------
(* The registers.                                                          *)

HALF == 2 ^ (BYTE_BITS - 1)

\* What bit j of a byte is worth, the highest being bit 0.
Worth(j) == 2 ^ (BYTE_BITS - 1 - j)

\* The values of a byte are twice those of all but its highest bit.
LEMMA ByteIsTwoHalves ==
  /\ BYTE_BITS \in Nat /\ BYTE_BITS >= 2
  /\ HALF \in Nat \ {0} /\ HALF >= 2 /\ B = 2 * HALF /\ B \in Nat \ {0} /\ B >= 4
<1>1. BYTE_BITS \in Nat /\ BYTE_BITS >= 2
  BY SpiAssumption
<1>2. BYTE_BITS - 1 \in Nat /\ BYTE_BITS - 2 \in Nat
      /\ (BYTE_BITS - 2) + 1 = BYTE_BITS - 1 /\ (BYTE_BITS - 1) + 1 = BYTE_BITS
  BY <1>1
<1>3. 2 ^ (BYTE_BITS - 1) \in Nat \ {0} /\ 2 ^ (BYTE_BITS - 2) \in Nat \ {0}
  BY <1>2, PowerIsPositive
<1>4. 2 ^ BYTE_BITS = 2 * 2 ^ (BYTE_BITS - 1)
  <2>1. 2 ^ ((BYTE_BITS - 1) + 1) = 2 * 2 ^ (BYTE_BITS - 1)
    BY <1>2, PowerDoubles
  <2> QED
    BY <1>2, <2>1
<1>5. 2 ^ (BYTE_BITS - 1) = 2 * 2 ^ (BYTE_BITS - 2)
  <2>1. 2 ^ ((BYTE_BITS - 2) + 1) = 2 * 2 ^ (BYTE_BITS - 2)
    BY <1>2, PowerDoubles
  <2> QED
    BY <1>2, <2>1
<1>6. B = 2 * HALF /\ HALF = 2 * 2 ^ (BYTE_BITS - 2)
  BY <1>4, <1>5 DEF B, HALF
<1> DEFINE q == 2 ^ (BYTE_BITS - 2)
<1>7. q \in Nat \ {0} /\ HALF = 2 * q /\ HALF \in Nat
  BY <1>3, <1>6 DEF HALF
<1> HIDE DEF q
<1> QED
  BY <1>1, <1>6, <1>7

\* Each bit is worth twice the next, and the last one is worth one.
LEMMA WorthIs ==
  ASSUME NEW j \in 0 .. BYTE_BITS - 1
  PROVE  /\ Worth(j) \in Nat \ {0}
         /\ Worth(0) = HALF /\ Worth(BYTE_BITS - 1) = 1
         /\ j < BYTE_BITS - 1 => Worth(j) = 2 * Worth(j + 1) /\ Worth(j + 1) \in Nat \ {0}
<1>1. BYTE_BITS \in Nat /\ BYTE_BITS >= 2
  BY SpiAssumption
<1>2. BYTE_BITS - 1 - j \in Nat
  BY <1>1
<1>3. Worth(j) \in Nat \ {0}
  BY <1>2, PowerIsPositive DEF Worth
<1>4. Worth(0) = HALF
  <2>1. BYTE_BITS - 1 - 0 = BYTE_BITS - 1
    BY <1>1
  <2> QED
    BY <2>1 DEF Worth, HALF
<1>5. Worth(BYTE_BITS - 1) = 1
  <2>1. BYTE_BITS - 1 - (BYTE_BITS - 1) = 0
    BY <1>1
  <2>2. 2 ^ 0 = 1
    OBVIOUS
  <2> QED
    BY <2>1, <2>2, Zenon DEF Worth
<1>6. ASSUME j < BYTE_BITS - 1
      PROVE  Worth(j) = 2 * Worth(j + 1) /\ Worth(j + 1) \in Nat \ {0}
  <2> DEFINE k == BYTE_BITS - 1 - (j + 1)
  <2>1. k \in Nat /\ k + 1 = BYTE_BITS - 1 - j
    BY <1>1, <1>6
  <2>2. 2 ^ (k + 1) = 2 * 2 ^ k /\ 2 ^ k \in Nat \ {0}
    <3> HIDE DEF k
    <3> QED
      BY <2>1, PowerDoubles, PowerIsPositive
  <2>3. Worth(j + 1) = 2 ^ k
    BY DEF Worth
  <2>4. Worth(j) = 2 ^ (k + 1)
    <3> HIDE DEF k
    <3> QED
      BY <2>1, Zenon DEF Worth
  <2> HIDE DEF k
  <2> QED
    BY <2>2, <2>3, <2>4
<1> QED
  BY <1>3, <1>4, <1>5, <1>6

\* A register keeps its width when it is shifted, and its highest bit is a bit.
LEMMA ShiftedType ==
  ASSUME NEW v \in SpiByte, NEW bit \in 0 .. 1
  PROVE  Shifted(v, bit) \in SpiByte
<1>1. B \in Nat \ {0}
  BY ByteIsTwoHalves
<1>2. 2 * v + bit \in Nat
  BY <1>1 DEF SpiByte
<1>3. \A a \in Nat : a % B \in 0 .. B - 1
  BY <1>1
<1> QED
  BY <1>2, <1>3 DEF Shifted, SpiByte

\* What is left of a byte goes out by the highest bit of the register.
LEMMA Outgoing ==
  ASSUME NEW v \in Nat \ {0}, NEW u \in Nat \ {0}, v * u = HALF,
         NEW rest \in 0 .. 2 * v - 1
  PROVE  \E bit \in 0 .. 1, less \in 0 .. v - 1 :
           /\ rest = bit * v + less
           /\ Msb(rest * u) = bit
           /\ Shifted(rest * u, 0) = less * (2 * u)
<1>1. PICK bit \in 0 .. 1, less \in 0 .. v - 1 :
        /\ rest = bit * v + less
        /\ (rest * u) \div (v * u) = bit
        /\ (2 * (rest * u)) % (2 * (v * u)) = less * (2 * u)
  BY TopBit
<1>2. Msb(rest * u) = bit
  BY <1>1 DEF Msb, HALF
<1>3. 2 * (rest * u) + 0 = 2 * (rest * u) /\ B = 2 * (v * u)
  <2>1. rest * u \in Nat
    OBVIOUS
  <2> QED
    BY <2>1, ByteIsTwoHalves
<1>4. Shifted(rest * u, 0) = less * (2 * u)
  BY <1>1, <1>3 DEF Shifted
<1> QED
  BY <1>1, <1>2, <1>4

\* A byte on its way out, with the bits 0 .. j of it on the wire or gone: out is
\* the number that they make, and the register holds the rest of them.
Out(byte, j, out, reg) ==
  \E u \in Nat \ {0}, rest \in 0 .. Worth(j) - 1 :
    /\ Worth(j) * u = B
    /\ reg = rest * u
    /\ byte = out * Worth(j) + rest

\* A byte is loaded.
LEMMA OutLoad ==
  ASSUME NEW byte \in SpiByte
  PROVE  Msb(byte) \in 0 .. 1 /\ Out(byte, 0, Msb(byte), Shifted(byte, 0))
<1>1. HALF \in Nat \ {0} /\ B = 2 * HALF /\ HALF * 1 = HALF /\ HALF * 2 = B
  BY ByteIsTwoHalves
<1>2. byte \in 0 .. 2 * HALF - 1 /\ byte \in Nat /\ byte * 1 = byte /\ 1 \in Nat \ {0}
  BY <1>1 DEF SpiByte
<1>3. PICK bit \in 0 .. 1, less \in 0 .. HALF - 1 :
        /\ byte = bit * HALF + less
        /\ Msb(byte * 1) = bit
        /\ Shifted(byte * 1, 0) = less * (2 * 1)
  <2>1. \A v, u \in Nat \ {0} : v * u = HALF =>
          \A rest \in 0 .. 2 * v - 1 :
            \E bit \in 0 .. 1, less \in 0 .. v - 1 :
              /\ rest = bit * v + less
              /\ Msb(rest * u) = bit
              /\ Shifted(rest * u, 0) = less * (2 * u)
    BY Outgoing
  <2> QED
    BY <1>1, <1>2, <2>1, Zenon
<1>4. Msb(byte) = bit /\ Shifted(byte, 0) = less * 2
  <2>1. 2 * 1 = 2
    OBVIOUS
  <2> QED
    BY <1>2, <1>3, <2>1
<1>5. Worth(0) = HALF
  <2>1. 0 \in 0 .. BYTE_BITS - 1
    BY SpiAssumption
  <2> QED
    BY <2>1, WorthIs
<1>6. 2 \in Nat \ {0}
  OBVIOUS
<1> QED
  BY <1>1, <1>3, <1>4, <1>5, <1>6, Zenon DEF Out

\* The next bit of it goes out.
LEMMA OutNext ==
  ASSUME NEW byte \in SpiByte, NEW j \in 0 .. BYTE_BITS - 1, j < BYTE_BITS - 1,
         NEW out \in Nat, NEW reg, Out(byte, j, out, reg)
  PROVE  /\ Msb(reg) \in 0 .. 1
         /\ Out(byte, j + 1, 2 * out + Msb(reg), Shifted(reg, 0))
<1> DEFINE v == Worth(j + 1)
<1>1. v \in Nat \ {0} /\ Worth(j) = 2 * v
  BY WorthIs
<1>2. PICK u \in Nat \ {0}, rest \in 0 .. Worth(j) - 1 :
        Worth(j) * u = B /\ reg = rest * u /\ byte = out * Worth(j) + rest
  BY Zenon DEF Out
<1> HIDE DEF v
<1>3. v * u = HALF
  <2>1. (2 * v) * u = 2 * (v * u) /\ v * u \in Nat
    BY <1>1
  <2> QED
    BY <1>1, <1>2, <2>1, ByteIsTwoHalves
<1>4. rest \in 0 .. 2 * v - 1
  BY <1>1, <1>2
<1>5. PICK bit \in 0 .. 1, less \in 0 .. v - 1 :
        /\ rest = bit * v + less
        /\ Msb(rest * u) = bit
        /\ Shifted(rest * u, 0) = less * (2 * u)
  <2>1. \A v1, u1 \in Nat \ {0} : v1 * u1 = HALF =>
          \A rest1 \in 0 .. 2 * v1 - 1 :
            \E bit \in 0 .. 1, less \in 0 .. v1 - 1 :
              /\ rest1 = bit * v1 + less
              /\ Msb(rest1 * u1) = bit
              /\ Shifted(rest1 * u1, 0) = less * (2 * u1)
    BY Outgoing
  <2> QED
    BY <1>1, <1>3, <1>4, <2>1, Zenon
<1>6. Msb(reg) = bit /\ Shifted(reg, 0) = less * (2 * u)
  BY <1>2, <1>5
<1>7. v * (2 * u) = B /\ 2 * u \in Nat \ {0}
  <2>1. v * (2 * u) = 2 * (v * u) /\ v * u \in Nat
    BY <1>1
  <2> QED
    BY <1>3, <2>1, ByteIsTwoHalves
<1>8. byte = (2 * out + bit) * v + less
  <2>1. out * (2 * v) = 2 * (out * v) /\ (2 * out + bit) * v = 2 * (out * v) + bit * v
    BY <1>1
  <2>2. out * v \in Nat /\ bit * v \in Nat
    BY <1>1
  <2> QED
    BY <1>1, <1>2, <1>5, <2>1, <2>2
<1> QED
  BY <1>5, <1>6, <1>7, <1>8, Zenon DEF Out, v

\* The bits sent so far are no more than the byte, and all of them are the byte.
LEMMA OutEnd ==
  ASSUME NEW byte \in SpiByte, NEW j \in 0 .. BYTE_BITS - 1,
         NEW out \in Nat, NEW reg, Out(byte, j, out, reg)
  PROVE  out \in SpiByte /\ (j = BYTE_BITS - 1 => out = byte)
<1>1. PICK u \in Nat \ {0}, rest \in 0 .. Worth(j) - 1 : byte = out * Worth(j) + rest
  BY Zenon DEF Out
<1>2. Worth(j) \in Nat \ {0} /\ Worth(BYTE_BITS - 1) = 1 /\ B \in Nat \ {0}
  BY WorthIs, ByteIsTwoHalves
<1>3. out <= out * Worth(j) /\ out * Worth(j) \in Nat
  <2>1. out * (Worth(j) - 1) = out * Worth(j) - out
    BY <1>2
  <2>2. out * (Worth(j) - 1) \in Nat /\ out * Worth(j) \in Nat
    BY <1>2
  <2> QED
    BY <2>1, <2>2
<1>4. out \in SpiByte
  BY <1>1, <1>2, <1>3 DEF SpiByte
<1>5. ASSUME j = BYTE_BITS - 1 PROVE out = byte
  <2>1. Worth(j) = 1
    BY <1>2, <1>5
  <2> QED
    BY <1>1, <2>1
<1> QED
  BY <1>4, <1>5

\* A byte on its way in, with j bits of it received: they make the number in,
\* and what the register held before is above them.
In(j, in, reg) ==
  \E g \in Nat \ {0}, old \in 0 .. 2 * Worth(j) - 1 :
    Worth(j) * g = HALF /\ in \in 0 .. g - 1 /\ reg = old * g + in

\* The same with j + 1 bits.
InAfter(j, in, reg) ==
  \E g \in Nat \ {0}, old \in 0 .. Worth(j) - 1 :
    Worth(j) * g = HALF /\ in \in 0 .. 2 * g - 1 /\ reg = old * (2 * g) + in

\* Before the first bit.
LEMMA InNone ==
  ASSUME NEW reg \in SpiByte
  PROVE  In(0, 0, reg)
<1>1. Worth(0) = HALF
  <2>1. 0 \in 0 .. BYTE_BITS - 1
    BY SpiAssumption
  <2> QED
    BY <2>1, WorthIs
<1>2. HALF * 1 = HALF /\ reg \in 0 .. 2 * HALF - 1 /\ reg = reg * 1 + 0
      /\ 1 \in Nat \ {0} /\ 0 \in 0 .. 1 - 1
  BY ByteIsTwoHalves DEF SpiByte
<1> QED
  BY <1>1, <1>2, Zenon DEF In

\* A bit comes in at the low end.
LEMMA InBit ==
  ASSUME NEW j \in 0 .. BYTE_BITS - 1, NEW in, NEW reg, In(j, in, reg),
         NEW bit \in 0 .. 1
  PROVE  in \in Nat /\ InAfter(j, 2 * in + bit, Shifted(reg, bit))
<1> DEFINE w == Worth(j)
<1>1. w \in Nat \ {0}
  BY WorthIs
<1>2. PICK g \in Nat \ {0}, old \in 0 .. 2 * w - 1 :
        w * g = HALF /\ in \in 0 .. g - 1 /\ reg = old * g + in
  BY Zenon DEF In
<1> HIDE DEF w
<1>3. PICK older \in 0 .. w - 1 :
        (2 * (old * g + in) + bit) % (2 * (w * g)) = older * (2 * g) + (2 * in + bit)
  <2>1. \A w1, g1 \in Nat \ {0} : \A hi \in 0 .. g1 - 1 :
          \A old1 \in 0 .. 2 * w1 - 1 : \A m \in 0 .. 1 :
           \E older \in 0 .. w1 - 1 :
             (2 * (old1 * g1 + hi) + m) % (2 * (w1 * g1)) = older * (2 * g1) + (2 * hi + m)
    BY ShiftIn
  <2>2. in \in 0 .. g - 1 /\ old \in 0 .. 2 * w - 1 /\ bit \in 0 .. 1
    BY <1>2
  <2>3. \A hi \in 0 .. g - 1 : \A old1 \in 0 .. 2 * w - 1 : \A m \in 0 .. 1 :
           \E older \in 0 .. w - 1 :
             (2 * (old1 * g + hi) + m) % (2 * (w * g)) = older * (2 * g) + (2 * hi + m)
    BY <1>1, <1>2, <2>1, Zenon
  <2> QED
    BY <2>2, <2>3, Zenon
<1>4. B = 2 * (w * g)
  BY <1>2, ByteIsTwoHalves
<1>5. Shifted(reg, bit) = older * (2 * g) + (2 * in + bit)
  BY <1>2, <1>3, <1>4, Zenon DEF Shifted
<1>6. in \in Nat /\ 2 * in + bit \in 0 .. 2 * g - 1
  BY <1>2
<1> QED
  BY <1>2, <1>5, <1>6, Zenon DEF InAfter, w

\* The next bit.
LEMMA InNext ==
  ASSUME NEW j \in 0 .. BYTE_BITS - 1, j < BYTE_BITS - 1, NEW in, NEW reg,
         InAfter(j, in, reg)
  PROVE  In(j + 1, in, reg)
<1> DEFINE v == Worth(j + 1)
<1>1. v \in Nat \ {0} /\ Worth(j) = 2 * v
  BY WorthIs
<1>2. PICK g \in Nat \ {0}, old \in 0 .. Worth(j) - 1 :
        Worth(j) * g = HALF /\ in \in 0 .. 2 * g - 1 /\ reg = old * (2 * g) + in
  BY Zenon DEF InAfter
<1> HIDE DEF v
<1>3. v * (2 * g) = HALF /\ 2 * g \in Nat \ {0} /\ old \in 0 .. 2 * v - 1
  <2>1. (2 * v) * g = v * (2 * g)
    BY <1>1
  <2> QED
    BY <1>1, <1>2, <2>1
<1> QED
  BY <1>2, <1>3, Zenon DEF In, v

\* All of them are the byte.
LEMMA InEnd ==
  ASSUME NEW in, NEW reg, InAfter(BYTE_BITS - 1, in, reg)
  PROVE  reg = in
<1>1. BYTE_BITS - 1 \in 0 .. BYTE_BITS - 1
  BY SpiAssumption
<1>2. Worth(BYTE_BITS - 1) = 1
  BY <1>1, WorthIs
<1>3. PICK g \in Nat \ {0}, old \in 0 .. 1 - 1 :
        in \in 0 .. 2 * g - 1 /\ reg = old * (2 * g) + in
  BY <1>2, Zenon DEF InAfter
<1>4. old = 0 /\ 0 * (2 * g) = 0
  BY <1>3
<1> QED
  BY <1>3, <1>4

-----------------------------------------------------------------------------
(* The inductive invariant.                                                *)

\* What the driver is called with: EEPROM_ADDR_MAX is in reach.
Calls ==
  {c \in {"read", "write"} \X SpiByte \X Seq(SpiByte) :
     Len(c[3]) \in 1 .. MAX_LEN /\ c[2] + Len(c[3]) - 1 \in SpiByte}

Live == op # <<>> /\ ~hit
Byte == BytesOf(op)[pos]                    \* the byte sent
Asked == mem[op[2] + pos - 3]               \* the byte read

\* How many bytes of the call the emulator has taken.
Consumed ==
  waiting /\ (done_latched \/ (sm_bit_cnt = BYTE_BITS - 1 /\ sclk = 1))
Taken == pos - 1 + (IF Consumed THEN 1 ELSE 0)

Flags ==
  /\ waiting \in BOOLEAN /\ sm_data \in BOOLEAN /\ done_latched \in BOOLEAN
  /\ rst \in BOOLEAN /\ hit \in BOOLEAN
CallInv == op = <<>> \/ op \in Calls
GotInv == got \in Seq(SpiByte)

\* The driver waits for the byte that the master sends or has sent.
DriverInv ==
  /\ op = <<>> => ~waiting /\ pos = 1 /\ got = <<>>
  /\ sm_data => waiting /\ ~done_latched
  /\ waiting /\ ~sm_data => done_latched
  /\ ~sm_data => sclk = 0

ResetInv ==
  /\ rst => bit_cnt = 0 /\ (op # <<>> => hit)
  /\ hit => op # <<>>

CountInv ==
  ~hit => /\ sm_data =>
               bit_cnt = IF sm_bit_cnt + sclk = BYTE_BITS THEN 0 ELSE sm_bit_cnt + sclk
          /\ ~sm_data => bit_cnt = 0
          /\ bit_cnt = 0 => rx_shift = 0

\* What the emulator has of the byte, what is on the wire and what the master
\* has left make the byte.
SendInv ==
  Live /\ sm_data =>
    /\ sclk = 0 => Out(Byte, sm_bit_cnt, 2 * rx_shift + mosi, tx_shift_reg)
    /\ sclk = 1 /\ sm_bit_cnt < BYTE_BITS - 1 =>
         Out(Byte, sm_bit_cnt, rx_shift, tx_shift_reg)

\* The emulator's state follows from the bytes it has taken.
StateInv ==
  /\ op = <<>> => state = "CMD"
  /\ Live => /\ Taken = 0 => state = "CMD"
             /\ Taken = 1 => state = "ADDR" /\ last_cmd = BytesOf(op)[1]
             /\ Taken >= 2 => state = IF op[1] = "write" THEN "WRITE" ELSE "READ"
             /\ Taken \in 2 .. Len(op[3]) + 1 => addr_reg = op[2] + Taken - 2

\* What the master has of a byte read, what is on the wire and what the
\* emulator has left make the byte in the memory.
ReadInv ==
  Live /\ op[1] = "read" =>
    /\ Taken >= 2 =>
         /\ read_data_buf = mem[addr_reg]
         /\ ~sm_data => Out(read_data_buf, 0, miso, tx_shift)
    /\ pos > 2 =>
         /\ sm_data /\ sclk = 0 =>
              \E in \in SpiByte : /\ Out(Asked, sm_bit_cnt, 2 * in + miso, tx_shift)
                                  /\ In(sm_bit_cnt, in, rx_shift_reg)
         /\ sm_data /\ sclk = 1 =>
              \E in \in SpiByte : /\ Out(Asked, sm_bit_cnt, in, tx_shift)
                                  /\ InAfter(sm_bit_cnt, in, rx_shift_reg)
         /\ waiting /\ done_latched => rx_data = Asked
    /\ \A i \in 1 .. Len(got) : got[i] = mem[op[2] + i - 1]

Regs == SpiTypeOK /\ Flags /\ CallInv /\ GotInv
SpiInv == Regs /\ DriverInv /\ ResetInv /\ CountInv /\ SendInv /\ StateInv /\ ReadInv

-----------------------------------------------------------------------------
(* Calls.                                                                  *)

\* A request is one of those of EepromArray, and its bytes on the wire are the
\* command, the address and its data.
LEMMA CallBytes ==
  ASSUME NEW c \in Calls
  PROVE  /\ c # <<>> /\ c = <<c[1], c[2], c[3]>>
         /\ c[1] \in {"read", "write"} /\ c[2] \in SpiByte /\ c[3] \in Seq(SpiByte)
         /\ Len(c[3]) \in 1 .. MAX_LEN /\ Len(c[3]) \in Nat /\ c[2] + Len(c[3]) - 1 \in SpiByte
         /\ Len(BytesOf(c)) = Len(c[3]) + 2
         /\ BytesOf(c)[1] = (IF c[1] = "write" THEN CMD_WRITE ELSE CMD_READ)
         /\ BytesOf(c)[2] = c[2]
         /\ \A i \in 1 .. Len(c[3]) : BytesOf(c)[i + 2] = c[3][i]
         /\ \A i \in 1 .. Len(c[3]) + 2 : BytesOf(c)[i] \in SpiByte
<1>1. /\ c \in {"read", "write"} \X SpiByte \X Seq(SpiByte)
      /\ Len(c[3]) \in 1 .. MAX_LEN /\ c[2] + Len(c[3]) - 1 \in SpiByte
  BY Zenon DEF Calls
<1>2. /\ c = <<c[1], c[2], c[3]>>
      /\ c[1] \in {"read", "write"} /\ c[2] \in SpiByte /\ c[3] \in Seq(SpiByte)
  BY <1>1
<1>3. c # <<>>
  BY <1>2
<1> DEFINE code == IF c[1] = "write" THEN CMD_WRITE ELSE CMD_READ
           front == <<code, c[2]>>
           data == c[3]
<1>4. code \in SpiByte
  BY ByteIsTwoHalves DEF SpiByte, CMD_WRITE, CMD_READ
<1>5. BytesOf(c) = front \o data
  BY Zenon DEF BytesOf
<1> HIDE DEF code
<1>6. front \in Seq(SpiByte) /\ Len(front) = 2 /\ front[1] = code /\ front[2] = c[2]
  BY <1>2, <1>4
<1>7. data \in Seq(SpiByte) /\ Len(data) \in Nat
  BY <1>2
<1> HIDE DEF front, data
<1>8. /\ Len(front \o data) = Len(data) + 2
      /\ (front \o data)[1] = front[1] /\ (front \o data)[2] = front[2]
      /\ \A i \in 1 .. Len(data) : (front \o data)[i + 2] = data[i]
  <2>1. /\ Len(front \o data) = Len(front) + Len(data)
        /\ \A i \in 1 .. Len(front) + Len(data) : (front \o data)[i] =
             IF i <= Len(front) THEN front[i] ELSE data[i - Len(front)]
    BY <1>6, <1>7, ConcatProperties, Zenon
  <2> DEFINE all == front \o data
             k == Len(data)
  <2>2. k \in Nat
    BY <1>7
  <2>3. /\ Len(all) = 2 + k
        /\ \A i \in 1 .. 2 + k : all[i] = IF i <= 2 THEN front[i] ELSE data[i - 2]
    BY <1>6, <2>1, Zenon
  <2> HIDE DEF all, k
  <2>4. Len(all) = k + 2 /\ all[1] = front[1] /\ all[2] = front[2]
    BY <2>2, <2>3
  <2>5. ASSUME NEW i \in 1 .. k PROVE all[i + 2] = data[i]
    <3>1. i + 2 \in 1 .. 2 + k /\ ~(i + 2 <= 2) /\ (i + 2) - 2 = i
      BY <2>2
    <3> QED
      BY <2>3, <3>1, Zenon
  <2> QED
    BY <2>4, <2>5, Zenon DEF all, k
<1>9. front \o data \in Seq(SpiByte)
  BY <1>6, <1>7, ConcatProperties, Zenon
<1>10. \A i \in 1 .. Len(data) + 2 : (front \o data)[i] \in SpiByte
  BY <1>8, <1>9
<1> QED
  BY <1>1, <1>2, <1>3, <1>5, <1>6, <1>7, <1>8, <1>10 DEF code, data

\* The four operations of the driver begin alike.
Called ==
  /\ op = <<>> /\ op' \in Calls /\ pos' = 1 /\ got' = <<>>
  /\ answer' = <<>> /\ hit' = rst
  /\ UNCHANGED <<waiting, master_vars, emulator_vars, rst>>

\* What a call does, whatever it is called with.
LEMMA CallIsCalled ==
  ASSUME NEW kind \in {"read", "write"}, NEW addr \in SpiByte,
         NEW bytes \in Seq(SpiByte), Len(bytes) \in 1 .. MAX_LEN,
         Call(kind, addr, bytes)
  PROVE  Called
<1>1. addr + Len(bytes) - 1 \in SpiByte
  <2>1. addr + Len(bytes) - 1 <= B - 1 /\ B \in Nat
    BY ByteIsTwoHalves, Zenon DEF Call, InRange, EEPROM_ADDR_MAX
  <2> QED
    BY <2>1 DEF SpiByte
<1> DEFINE c == <<kind, addr, bytes>>
<1>2. c[1] = kind /\ c[2] = addr /\ c[3] = bytes
  OBVIOUS
<1>3. c \in {"read", "write"} \X SpiByte \X Seq(SpiByte)
  OBVIOUS
<1> HIDE DEF c
<1>4. c \in Calls
  BY <1>1, <1>2, <1>3 DEF Calls
<1>5. op' = c
  BY Zenon DEF Call, c
<1> QED
  BY <1>4, <1>5, Zenon DEF Call, Called

\* The next-state relation, without the arguments of the calls.
LEMMA NextIs ==
  ASSUME Next
  PROVE  \/ Called \/ Transfer \/ Rise \/ Fall \/ NextByte \/ Return \/ Crash
         \/ EmulatorReset \/ EmulatorRelease
<1>1. 0 \in SpiByte /\ Data \subseteq SpiByte /\ MAX_LEN \in Nat \ {0}
  BY SpiAssumption, ByteIsTwoHalves DEF SpiByte
<1>2. \A len \in 1 .. MAX_LEN : \A s \in [1 .. len -> SpiByte] :
        s \in Seq(SpiByte) /\ Len(s) \in 1 .. MAX_LEN
  BY <1>1
<1>3. \A v \in SpiByte : <<v>> \in Seq(SpiByte) /\ Len(<<v>>) \in 1 .. MAX_LEN
  BY <1>1
<1>4. ASSUME NEW addr \in SpiByte, ReadByte(addr) PROVE Called
  BY <1>1, <1>3, <1>4, CallIsCalled DEF ReadByte, EEPROM_DUMMY_BYTE
<1>5. ASSUME NEW addr \in SpiByte, NEW byte \in Data, WriteByte(addr, byte)
      PROVE  Called
  BY <1>1, <1>3, <1>5, CallIsCalled DEF WriteByte
<1>6. ASSUME NEW addr \in SpiByte, NEW len \in 1 .. MAX_LEN, ReadBytes(addr, len)
      PROVE  Called
  <2> DEFINE s == [i \in 1 .. len |-> EEPROM_DUMMY_BYTE]
  <2>1. s \in [1 .. len -> SpiByte]
    BY <1>1 DEF EEPROM_DUMMY_BYTE
  <2>2. Call("read", addr, s)
    BY <1>6 DEF ReadBytes
  <2> HIDE DEF s
  <2> QED
    BY <1>2, <2>1, <2>2, CallIsCalled
<1>7. ASSUME NEW addr \in SpiByte, NEW len \in 1 .. MAX_LEN,
             NEW bytes \in [1 .. len -> Data], WriteBytes(addr, bytes)
      PROVE  Called
  <2>1. bytes \in [1 .. len -> SpiByte]
    BY <1>1
  <2>2. Call("write", addr, bytes)
    BY <1>7 DEF WriteBytes
  <2> QED
    BY <1>2, <2>1, <2>2, CallIsCalled
<1> QED
  BY <1>4, <1>5, <1>6, <1>7, Zenon DEF Next

-----------------------------------------------------------------------------
(* The registers keep their widths.                                        *)

Registers ==
  /\ tx_shift_reg \in SpiByte /\ rx_shift_reg \in SpiByte /\ rx_data \in SpiByte
  /\ rx_shift \in SpiByte /\ tx_shift \in SpiByte /\ read_data_buf \in SpiByte
  /\ addr_reg \in SpiByte /\ last_cmd \in SpiByte
Wires == sclk \in 0 .. 1 /\ mosi \in 0 .. 1 /\ miso \in 0 .. 1
Counters == sm_bit_cnt \in 0 .. BYTE_BITS - 1 /\ bit_cnt \in 0 .. BYTE_BITS - 1
Memory == state \in {"CMD", "ADDR", "WRITE", "READ"} /\ mem \in [SpiByte -> SpiByte]
Position ==
  /\ op # <<>> => pos \in 1 .. Len(BytesOf(op))
  /\ Len(got) = IF pos > 2 THEN pos - 3 ELSE 0

\* The type invariant of the model, conjunct by conjunct.
LEMMA TypesAre ==
  SpiTypeOK <=> Registers /\ Wires /\ Counters /\ Memory /\ Position
BY DEF SpiTypeOK, Registers, Wires, Counters, Memory, Position

\* What the operators on registers return.
LEMMA BitsOf ==
  /\ \A v \in SpiByte : Msb(v) \in 0 .. 1
  /\ \A v \in SpiByte, bit \in 0 .. 1 : Shifted(v, bit) \in SpiByte
  /\ \A a \in SpiByte : (a + 1) % B \in SpiByte
  /\ 0 \in SpiByte /\ 0 \in 0 .. 1 /\ 1 \in 0 .. 1
<1>1. \A v \in SpiByte : Msb(v) \in 0 .. 1
  BY OutLoad
<1>2. \A v \in SpiByte, bit \in 0 .. 1 : Shifted(v, bit) \in SpiByte
  BY ShiftedType
<1>3. \A a \in SpiByte : (a + 1) % B \in SpiByte
  <2>1. B \in Nat \ {0}
    BY ByteIsTwoHalves
  <2>2. \A a \in Nat : a % B \in 0 .. B - 1
    BY <2>1
  <2>3. \A a \in SpiByte : a + 1 \in Nat
    BY <2>1 DEF SpiByte
  <2> QED
    BY <2>2, <2>3, Zenon DEF SpiByte
<1>4. 0 \in SpiByte /\ 0 \in 0 .. 1 /\ 1 \in 0 .. 1
  BY ByteIsTwoHalves DEF SpiByte
<1> QED
  BY <1>1, <1>2, <1>3, <1>4, Zenon

\* Whichever byte it takes, the emulator's registers keep their widths.
LEMMA LastBitTypes ==
  ASSUME NEW byte \in SpiByte, Registers, Memory, LastBitOf(byte)
  PROVE  /\ last_cmd' \in SpiByte /\ addr_reg' \in SpiByte
         /\ read_data_buf' \in SpiByte /\ Memory'
<1>1. last_cmd \in SpiByte /\ addr_reg \in SpiByte /\ read_data_buf \in SpiByte
  BY Zenon DEF Registers
<1>2. (addr_reg + 1) % B \in SpiByte
  BY <1>1, BitsOf, Zenon
<1> DEFINE next == (addr_reg + 1) % B
<1>3. next \in SpiByte
  BY <1>2
<1> HIDE DEF next
<1>4. mem \in [SpiByte -> SpiByte] /\ state \in {"CMD", "ADDR", "WRITE", "READ"}
  BY Zenon DEF Memory
<1>5. CASE state = "CMD" /\ last_cmd' = byte
           /\ state' = (IF byte \in {CMD_WRITE, CMD_READ} THEN "ADDR" ELSE "CMD")
           /\ UNCHANGED <<addr_reg, read_data_buf, mem>>
  BY <1>1, <1>4, <1>5, Zenon DEF Memory
<1>6. CASE /\ addr_reg' = byte
           /\ state' = (IF last_cmd = CMD_WRITE THEN "WRITE"
                        ELSE IF last_cmd = CMD_READ THEN "READ" ELSE "CMD")
           /\ read_data_buf' = (IF last_cmd = CMD_READ THEN mem[byte] ELSE read_data_buf)
           /\ UNCHANGED <<last_cmd, mem>>
  <2>1. mem[byte] \in SpiByte
    BY <1>4, Zenon
  <2> QED
    BY <1>1, <1>4, <1>6, <2>1, Zenon DEF Memory
<1>7. CASE /\ mem' = [mem EXCEPT ![addr_reg] = byte]
           /\ addr_reg' = next
           /\ UNCHANGED <<state, last_cmd, read_data_buf>>
  <2>1. mem' \in [SpiByte -> SpiByte]
    BY <1>1, <1>4, <1>7
  <2> QED
    BY <1>1, <1>3, <1>4, <1>7, <2>1, Zenon DEF Memory
<1>8. CASE /\ addr_reg' = next
           /\ read_data_buf' = mem[next]
           /\ UNCHANGED <<state, last_cmd, mem>>
  <2>1. mem[next] \in SpiByte
    BY <1>3, <1>4, Zenon
  <2> QED
    BY <1>1, <1>3, <1>4, <1>8, <2>1, Zenon DEF Memory
<1> QED
  BY <1>5, <1>6, <1>7, <1>8, Zenon DEF LastBitOf, next

\* The byte on the wire.
LEMMA ByteType ==
  ASSUME Regs, op # <<>>
  PROVE  /\ op \in Calls /\ Byte \in SpiByte /\ Len(BytesOf(op)) = Len(op[3]) + 2
         /\ pos \in 1 .. Len(op[3]) + 2 /\ Len(op[3]) \in Nat
<1>1. op \in Calls
  BY Zenon DEF Regs, CallInv
<1>2. pos \in 1 .. Len(BytesOf(op))
  BY TypesAre, Zenon DEF Regs, Position
<1> QED
  BY <1>1, <1>2, CallBytes, Zenon DEF Byte

\* The program starts with the invariant.
LEMMA SpiStarts == Init => SpiInv
<1> SUFFICES ASSUME Init PROVE SpiInv
  OBVIOUS
<1>1. 0 \in SpiByte /\ 0 \in 0 .. 1 /\ 1 \in 0 .. 1 /\ 0 \in 0 .. BYTE_BITS - 1
  BY BitsOf, SpiAssumption
<1>2. Registers /\ Wires /\ Counters
  BY <1>1, Zenon DEF Init, Registers, Wires, Counters
<1>3. Memory
  <2>1. [a \in SpiByte |-> a] \in [SpiByte -> SpiByte]
    OBVIOUS
  <2> QED
    BY <2>1, Zenon DEF Init, Memory
<1>4. Position
  <2>1. op = <<>> /\ pos = 1 /\ got = <<>>
    BY Zenon DEF Init
  <2> QED
    BY <2>1 DEF Position
<1>5. Flags /\ CallInv
  BY Zenon DEF Init, Flags, CallInv
<1>6. GotInv
  <2>1. got = <<>>
    BY Zenon DEF Init
  <2> QED
    BY <2>1 DEF GotInv
<1>7. Regs
  BY <1>2, <1>3, <1>4, <1>5, <1>6, TypesAre, Zenon DEF Regs
<1>8. DriverInv /\ ResetInv /\ CountInv
  BY Zenon DEF Init, DriverInv, ResetInv, CountInv
<1>9. SendInv /\ StateInv /\ ReadInv
  BY Zenon DEF Init, SendInv, StateInv, ReadInv, Live
<1> QED
  BY <1>7, <1>8, <1>9, Zenon DEF SpiInv

\* Every step keeps the widths.
LEMMA RegsStep ==
  ASSUME SpiInv, [Next]_vars
  PROVE  Regs'
<1>1. /\ Registers /\ Wires /\ Counters /\ Memory /\ Position
      /\ Flags /\ CallInv /\ GotInv /\ DriverInv /\ ResetInv /\ Regs
  BY TypesAre, Zenon DEF SpiInv, Regs
<1> USE <1>1
<1> SUFFICES /\ Registers' /\ Wires' /\ Counters' /\ Memory' /\ Position'
             /\ Flags' /\ CallInv' /\ GotInv'
  <2>1. (SpiTypeOK <=> Registers /\ Wires /\ Counters /\ Memory /\ Position)'
    BY TypesAre, PTL
  <2> QED
    BY <2>1, Zenon DEF Regs
<1>2. 0 \in 0 .. BYTE_BITS - 1 /\ BYTE_BITS - 1 \in Nat /\ 1 \in 0 .. BYTE_BITS - 1
  BY SpiAssumption
<1> DEFINE CallKept == op' = op /\ pos' = pos /\ got' = got
<1>3. ASSUME CallKept PROVE Position' /\ CallInv' /\ GotInv'
  BY <1>3, Zenon DEF Position, CallInv, GotInv, BytesOf
<1> HIDE DEF CallKept
<1>4. CASE Called
  <2>1. Registers' /\ Wires' /\ Counters' /\ Memory' /\ Flags' /\ CallInv'
    BY <1>4, Zenon DEF Called, master_vars, emulator_vars, Registers, Wires, Counters,
                       Memory, Flags, CallInv
  <2>2. got' = <<>> /\ pos' = 1 /\ op' \in Calls
    BY <1>4, Zenon DEF Called
  <2>3. GotInv'
    BY <2>2 DEF GotInv
  <2>4. 1 \in 1 .. Len(BytesOf(op'))
    <3>1. Len(BytesOf(op')) = Len(op'[3]) + 2 /\ Len(op'[3]) \in Nat
      BY <2>2, CallBytes, Zenon
    <3> QED
      BY <3>1
  <2>5. Position'
    <3>1. (Len(got) = IF pos > 2 THEN pos - 3 ELSE 0)'
      BY <2>2
    <3>2. (op # <<>> => pos \in 1 .. Len(BytesOf(op)))'
      BY <2>2, <2>4, Zenon DEF BytesOf
    <3> QED
      BY <3>1, <3>2, Zenon DEF Position
  <2> QED
    BY <2>1, <2>3, <2>5, Zenon
<1>5. CASE Transfer
  <2>1. op # <<>>
    BY <1>5, Zenon DEF Transfer
  <2>2. Msb(Byte) \in 0 .. 1 /\ Shifted(Byte, 0) \in SpiByte
    BY <2>1, ByteType, BitsOf, Zenon
  <2>3. Registers' /\ Wires' /\ Counters' /\ Memory' /\ Flags' /\ CallKept
    BY <1>2, <1>5, <2>2, Zenon DEF Transfer, Byte, emulator_vars, reset_vars, Registers,
         Wires, Counters, Memory, Flags, CallKept
  <2> QED
    BY <1>3, <2>3, Zenon
<1>6. CASE Rise
  <2> DEFINE byte == Shifted(rx_shift, mosi)
  <2>1. byte \in SpiByte /\ Shifted(rx_shift_reg, miso) \in SpiByte
    BY BitsOf, Zenon DEF Registers, Wires
  <2> HIDE DEF byte
  <2>2. /\ rx_shift' \in SpiByte /\ last_cmd' \in SpiByte /\ addr_reg' \in SpiByte
        /\ read_data_buf' \in SpiByte /\ Memory'
    <3>1. CASE LastBitOf(byte) /\ rx_shift' = 0
      BY <2>1, <3>1, LastBitTypes, BitsOf, Zenon
    <3>2. CASE /\ rx_shift' \in {byte, rx_shift}
               /\ UNCHANGED <<state, last_cmd, addr_reg, read_data_buf, mem>>
      BY <2>1, <3>2, Zenon DEF Registers, Memory
    <3> QED
      BY <1>6, <3>1, <3>2, Zenon DEF Rise, EmulatorRise, byte
  <2>3. bit_cnt' \in 0 .. BYTE_BITS - 1
    <3>1. bit_cnt \in 0 .. BYTE_BITS - 1
      BY Zenon DEF Counters
    <3>2. bit_cnt' = 0 \/ bit_cnt' = bit_cnt \/ (bit_cnt < BYTE_BITS - 1 /\ bit_cnt' = bit_cnt + 1)
      BY <1>6, Zenon DEF Rise, EmulatorRise
    <3> QED
      BY <1>2, <3>1, <3>2
  <2>4. Registers' /\ Wires' /\ Counters' /\ Flags' /\ CallKept
    BY <1>6, <2>1, <2>2, <2>3, BitsOf, Zenon DEF Rise, driver_vars, reset_vars, Registers,
         Wires, Counters, Flags, CallKept
  <2> QED
    BY <1>3, <2>2, <2>4, Zenon
<1>7. CASE Fall
  <2>1. /\ Msb(tx_shift_reg) \in 0 .. 1 /\ Shifted(tx_shift_reg, 0) \in SpiByte
        /\ rx_shift_reg \in SpiByte
    BY BitsOf, Zenon DEF Registers
  <2>2. miso' \in 0 .. 1 /\ tx_shift' \in SpiByte
    <3> DEFINE reg == IF bit_cnt = 0 THEN read_data_buf ELSE tx_shift
    <3>1. reg \in SpiByte
      BY Zenon DEF Registers
    <3> HIDE DEF reg
    <3>2. Msb(reg) \in 0 .. 1 /\ Shifted(reg, 0) \in SpiByte
      BY <3>1, BitsOf, Zenon
    <3> QED
      BY <1>7, <3>2, BitsOf, Zenon DEF Fall, EmulatorFall, reg
  <2>3. sm_bit_cnt' \in 0 .. BYTE_BITS - 1
    <3>1. sm_bit_cnt \in 0 .. BYTE_BITS - 1
      BY Zenon DEF Counters
    <3>2. sm_bit_cnt' = sm_bit_cnt \/ (sm_bit_cnt < BYTE_BITS - 1 /\ sm_bit_cnt' = sm_bit_cnt + 1)
      BY <1>7, Zenon DEF Fall
    <3> QED
      BY <1>2, <3>1, <3>2
  <2>4. Wires'
    <3>1. mosi' \in 0 .. 1 /\ sclk' \in 0 .. 1
      BY <1>7, <2>1, BitsOf, Zenon DEF Fall
    <3> QED
      BY <2>2, <3>1, Zenon DEF Wires
  <2>5. Registers'
    <3>1. tx_shift_reg' \in SpiByte /\ rx_data' \in SpiByte /\ rx_shift_reg' \in SpiByte
      BY <1>7, <2>1, Zenon DEF Fall, Registers
    <3> QED
      BY <1>7, <2>2, <3>1, Zenon DEF Fall, Registers
  <2>6. Flags'
    <3>1. sm_data' \in BOOLEAN /\ done_latched' \in BOOLEAN
      BY <1>7, Zenon DEF Fall, Flags
    <3> QED
      BY <1>7, <3>1, Zenon DEF Fall, driver_vars, reset_vars, Flags
  <2>7. Counters' /\ Memory' /\ CallKept
    BY <1>7, <2>3, Zenon DEF Fall, driver_vars, Counters, Memory, CallKept
  <2> QED
    BY <1>3, <2>4, <2>5, <2>6, <2>7, Zenon
<1>8. CASE NextByte
  <2>1. op # <<>>
    BY <1>8, Zenon DEF NextByte, DriverInv
  <2>2. pos \in 1 .. Len(op[3]) + 2 /\ Len(op[3]) \in Nat /\ Len(BytesOf(op)) = Len(op[3]) + 2
    BY <2>1, ByteType, Zenon
  <2>3. Registers' /\ Wires' /\ Counters' /\ Memory' /\ Flags' /\ CallInv'
    BY <1>8, Zenon DEF NextByte, master_vars, emulator_vars, reset_vars, Registers, Wires,
         Counters, Memory, Flags, CallInv
  <2>4. GotInv' /\ Len(got') = IF pos > 2 THEN Len(got) + 1 ELSE Len(got)
    <3>1. rx_data \in SpiByte /\ got \in Seq(SpiByte)
      BY Zenon DEF Registers, GotInv
    <3>2. Append(got, rx_data) \in Seq(SpiByte) /\ Len(Append(got, rx_data)) = Len(got) + 1
      BY <3>1
    <3>3. got' = IF pos > 2 THEN Append(got, rx_data) ELSE got
      BY <1>8, Zenon DEF NextByte, Received
    <3> QED
      BY <3>1, <3>2, <3>3, Zenon DEF GotInv
  <2>5. Position'
    <3>1. pos' = pos + 1 /\ op' = op /\ pos < Len(BytesOf(op))
      BY <1>8, Zenon DEF NextByte
    <3>2. Len(got) = IF pos > 2 THEN pos - 3 ELSE 0
      BY Zenon DEF Position
    <3>3. (Len(got) = IF pos > 2 THEN pos - 3 ELSE 0)'
      BY <2>2, <2>4, <3>1, <3>2
    <3>4. pos + 1 \in 1 .. Len(BytesOf(op))
      BY <2>2, <3>1
    <3> QED
      BY <3>1, <3>3, <3>4, Zenon DEF Position, BytesOf
  <2> QED
    BY <2>3, <2>4, <2>5, Zenon
<1>9. ASSUME op' = <<>>, pos' = 1, got' = <<>>
      PROVE  Position' /\ CallInv' /\ GotInv'
  <2>1. (Len(got) = IF pos > 2 THEN pos - 3 ELSE 0)' /\ got' \in Seq(SpiByte)
    BY <1>9
  <2>2. op' = <<>>
    BY <1>9
  <2> QED
    BY <2>1, <2>2, Zenon DEF Position, CallInv, GotInv
<1>10. CASE Return
  <2>1. Registers' /\ Wires' /\ Counters' /\ Memory' /\ Flags'
    BY <1>2, <1>10, BitsOf, Zenon DEF Return, Deselected, master_vars, Registers, Wires,
         Counters, Memory, Flags
  <2>2. op' = <<>> /\ pos' = 1 /\ got' = <<>>
    BY <1>10, Zenon DEF Return
  <2> QED
    BY <1>9, <2>1, <2>2, Zenon
<1>11. CASE Crash
  <2>1. Registers' /\ Wires' /\ Counters' /\ Memory' /\ Flags'
    BY <1>2, <1>11, BitsOf, Zenon DEF Crash, Deselected, Registers, Wires, Counters,
         Memory, Flags
  <2>2. op' = <<>> /\ pos' = 1 /\ got' = <<>>
    BY <1>11, Zenon DEF Crash
  <2> QED
    BY <1>9, <2>1, <2>2, Zenon
<1>12. CASE EmulatorReset
  <2>1. Registers' /\ Wires' /\ Counters' /\ Memory' /\ Flags' /\ CallKept
    BY <1>2, <1>12, BitsOf, Zenon DEF EmulatorReset, driver_vars, master_vars, Registers,
         Wires, Counters, Memory, Flags, CallKept
  <2> QED
    BY <1>3, <2>1, Zenon
<1>13. CASE EmulatorRelease
  <2>1. rx_shift' \in SpiByte
    <3>1. Shifted(rx_shift, mosi) \in SpiByte /\ rx_shift \in SpiByte
      BY BitsOf, Zenon DEF Registers, Wires
    <3> QED
      BY <1>13, <3>1, Zenon DEF EmulatorRelease
  <2>2. bit_cnt' \in 0 .. BYTE_BITS - 1
    <3>1. bit_cnt = 0
      BY <1>13, Zenon DEF EmulatorRelease, ResetInv
    <3>2. bit_cnt + 1 = 1
      BY <3>1
    <3> QED
      BY <1>2, <1>13, <3>1, <3>2, Zenon DEF EmulatorRelease
  <2>3. Registers' /\ Wires' /\ Counters' /\ Memory' /\ Flags' /\ CallKept
    BY <1>13, <2>1, <2>2, Zenon DEF EmulatorRelease, driver_vars, master_vars, Registers,
         Wires, Counters, Memory, Flags, CallKept
  <2> QED
    BY <1>3, <2>3, Zenon
<1>14. CASE UNCHANGED vars
  <2>1. Registers' /\ Wires' /\ Counters' /\ Memory' /\ Flags' /\ CallKept
    BY <1>14, Zenon DEF vars, driver_vars, master_vars, emulator_vars, reset_vars,
         Registers, Wires, Counters, Memory, Flags, CallKept
  <2> QED
    BY <1>3, <2>1, Zenon
<1> QED
  BY <1>4, <1>5, <1>6, <1>7, <1>8, <1>10, <1>11, <1>12, <1>13, <1>14, NextIs, Zenon

-----------------------------------------------------------------------------
(* The edges, as both sides see them.                                      *)

\* The bytes taken, when a byte has been or not.
LEMMA TakenIs ==
  ASSUME Regs, op # <<>>
  PROVE  /\ Consumed => Taken = pos
         /\ ~Consumed => Taken = pos - 1
<1>1. pos \in Int
  BY ByteType
<1>2. ASSUME Consumed PROVE Taken = pos
  BY <1>1, <1>2 DEF Taken
<1>3. ASSUME ~Consumed PROVE Taken = pos - 1
  BY <1>1, <1>3 DEF Taken
<1> QED
  BY <1>2, <1>3

\* While a bit of a call is on the wires, neither side is in reset and both
\* count the same.
LEMMA OnTheWires ==
  ASSUME SpiInv, sm_data, ~hit
  PROVE  /\ op # <<>> /\ Live /\ ~rst /\ waiting /\ ~done_latched
         /\ sm_bit_cnt \in 0 .. BYTE_BITS - 1
         /\ sclk = 0 => bit_cnt = sm_bit_cnt
         /\ sclk = 1 /\ sm_bit_cnt < BYTE_BITS - 1 => bit_cnt = sm_bit_cnt + 1 /\ bit_cnt # 0
         /\ sclk = 1 /\ sm_bit_cnt = BYTE_BITS - 1 => bit_cnt = 0
<1>1. waiting /\ ~done_latched
  BY Zenon DEF SpiInv, DriverInv
<1>2. op # <<>> /\ ~rst
  BY <1>1, Zenon DEF SpiInv, DriverInv, ResetInv
<1>3. bit_cnt = IF sm_bit_cnt + sclk = BYTE_BITS THEN 0 ELSE sm_bit_cnt + sclk
  BY Zenon DEF SpiInv, CountInv
<1>4. sm_bit_cnt \in 0 .. BYTE_BITS - 1 /\ sclk \in 0 .. 1 /\ BYTE_BITS \in Nat
  BY TypesAre, SpiAssumption, Zenon DEF SpiInv, Regs, Counters, Wires
<1>5. sclk = 0 => bit_cnt = sm_bit_cnt
  BY <1>3, <1>4
<1>6. sclk = 1 /\ sm_bit_cnt < BYTE_BITS - 1 => bit_cnt = sm_bit_cnt + 1 /\ bit_cnt # 0
  BY <1>3, <1>4
<1>7. sclk = 1 /\ sm_bit_cnt = BYTE_BITS - 1 => bit_cnt = 0
  BY <1>3, <1>4
<1> QED
  BY <1>1, <1>2, <1>4, <1>5, <1>6, <1>7, Zenon DEF Live

\* A rising edge gives the emulator one more bit; the last one makes the byte.
LEMMA RiseIs ==
  ASSUME SpiInv, ~hit, Rise
  PROVE  /\ sm_data /\ sclk = 0 /\ op # <<>> /\ Live /\ ~Consumed /\ Taken = pos - 1
         /\ bit_cnt = sm_bit_cnt /\ Out(Byte, sm_bit_cnt, 2 * rx_shift + mosi, tx_shift_reg)
         /\ Shifted(rx_shift, mosi) = 2 * rx_shift + mosi
         /\ sm_bit_cnt = BYTE_BITS - 1 =>
              /\ Shifted(rx_shift, mosi) = Byte
              /\ LastBitOf(Byte) /\ bit_cnt' = 0 /\ rx_shift' = 0
              /\ Consumed' /\ Taken' = pos
         /\ sm_bit_cnt < BYTE_BITS - 1 =>
              /\ rx_shift' = 2 * rx_shift + mosi /\ bit_cnt' = bit_cnt + 1
              /\ UNCHANGED <<state, last_cmd, addr_reg, read_data_buf, mem>>
              /\ ~Consumed' /\ Taken' = pos - 1
<1>1. sm_data /\ sclk = 0 /\ sclk' = 1 /\ EmulatorRise
      /\ UNCHANGED <<op, pos, waiting, done_latched, sm_bit_cnt>>
  BY Zenon DEF Rise, driver_vars
<1>2. /\ op # <<>> /\ Live /\ ~rst /\ waiting /\ ~done_latched
      /\ sm_bit_cnt \in 0 .. BYTE_BITS - 1 /\ bit_cnt = sm_bit_cnt
  BY <1>1, OnTheWires, Zenon
<1>3. Regs /\ Regs'
  BY <1>1, RegsStep, Zenon DEF SpiInv, Next
<1>4. ~Consumed
  BY <1>1, <1>2 DEF Consumed
<1>5. Out(Byte, sm_bit_cnt, 2 * rx_shift + mosi, tx_shift_reg)
  BY <1>1, <1>2, Zenon DEF SpiInv, SendInv
<1>6. Byte \in SpiByte
  BY <1>2, <1>3, ByteType, Zenon
<1>7. rx_shift \in SpiByte /\ mosi \in 0 .. 1 /\ B \in Nat \ {0}
  BY <1>3, TypesAre, ByteIsTwoHalves, Zenon DEF Regs, Registers, Wires
<1>8. 2 * rx_shift + mosi \in Nat
  BY <1>7 DEF SpiByte
<1>9. /\ 2 * rx_shift + mosi \in SpiByte
      /\ sm_bit_cnt = BYTE_BITS - 1 => 2 * rx_shift + mosi = Byte
  BY <1>2, <1>5, <1>6, <1>8, OutEnd
<1>10. Shifted(rx_shift, mosi) = 2 * rx_shift + mosi
  <2> DEFINE v == 2 * rx_shift + mosi
  <2>1. v \in SpiByte
    BY <1>9
  <2> HIDE DEF v
  <2>2. v % B = v
    BY <1>7, <2>1 DEF SpiByte
  <2> QED
    BY <2>2, Zenon DEF Shifted, v
<1>11. (op # <<>>)' /\ pos' = pos
  BY <1>1, <1>2, Zenon
<1>12. (Consumed => Taken = pos)' /\ (~Consumed => Taken = pos - 1)'
  <2>1. (Regs /\ op # <<>> => (Consumed => Taken = pos) /\ (~Consumed => Taken = pos - 1))'
    BY TakenIs, PTL
  <2> QED
    BY <1>3, <1>11, <2>1, Zenon
<1>13. ASSUME sm_bit_cnt = BYTE_BITS - 1
       PROVE  /\ Shifted(rx_shift, mosi) = Byte
              /\ LastBitOf(Byte) /\ bit_cnt' = 0 /\ rx_shift' = 0
              /\ Consumed' /\ Taken' = pos
  <2>1. Shifted(rx_shift, mosi) = Byte
    BY <1>9, <1>10, <1>13
  <2>2. ~(bit_cnt < BYTE_BITS - 1)
    BY <1>2, <1>13
  <2>3. LastBitOf(Byte) /\ bit_cnt' = 0 /\ rx_shift' = 0
    BY <1>1, <1>2, <2>1, <2>2, Zenon DEF EmulatorRise
  <2>4. Consumed'
    BY <1>1, <1>2, <1>13, Zenon DEF Consumed
  <2> QED
    BY <1>11, <1>12, <2>1, <2>3, <2>4, Zenon
<1>14. ASSUME sm_bit_cnt < BYTE_BITS - 1
       PROVE  /\ rx_shift' = 2 * rx_shift + mosi /\ bit_cnt' = bit_cnt + 1
              /\ UNCHANGED <<state, last_cmd, addr_reg, read_data_buf, mem>>
              /\ ~Consumed' /\ Taken' = pos - 1
  <2>1. bit_cnt # BYTE_BITS - 1 /\ sm_bit_cnt # BYTE_BITS - 1
    BY <1>2, <1>14
  <2>2. /\ rx_shift' = Shifted(rx_shift, mosi) /\ bit_cnt' = bit_cnt + 1
        /\ UNCHANGED <<state, last_cmd, addr_reg, read_data_buf, mem>>
    BY <1>1, <1>2, <2>1, Zenon DEF EmulatorRise
  <2>3. ~Consumed'
    BY <1>1, <1>2, <2>1, Zenon DEF Consumed
  <2> QED
    BY <1>10, <1>11, <1>12, <2>2, <2>3, Zenon
<1>15. Taken = pos - 1
  BY <1>2, <1>3, <1>4, TakenIs, Zenon
<1> QED
  BY <1>1, <1>2, <1>4, <1>5, <1>10, <1>13, <1>14, <1>15, Zenon

\* A falling edge puts out the next bit of both sides, or ends the byte.
LEMMA FallIs ==
  ASSUME SpiInv, ~hit, Fall
  PROVE  /\ sm_data /\ sclk = 1 /\ op # <<>> /\ Live /\ Taken' = Taken
         /\ sm_bit_cnt \in 0 .. BYTE_BITS - 1
         /\ sm_bit_cnt < BYTE_BITS - 1 => bit_cnt # 0 /\ Taken = pos - 1
         /\ ~(sm_bit_cnt < BYTE_BITS - 1) =>
              sm_bit_cnt = BYTE_BITS - 1 /\ bit_cnt = 0 /\ Taken = pos
<1>1. sm_data /\ sclk = 1 /\ sclk' = 0 /\ UNCHANGED <<op, pos, waiting>>
  BY Zenon DEF Fall, driver_vars
<1>2. /\ op # <<>> /\ Live /\ waiting /\ ~done_latched
      /\ sm_bit_cnt \in 0 .. BYTE_BITS - 1
      /\ sm_bit_cnt < BYTE_BITS - 1 => bit_cnt = sm_bit_cnt + 1 /\ bit_cnt # 0
      /\ sm_bit_cnt = BYTE_BITS - 1 => bit_cnt = 0
  BY <1>1, OnTheWires, Zenon
<1>3. Regs /\ Regs'
  BY <1>1, RegsStep, Zenon DEF SpiInv, Next
<1>4. (op # <<>>)' /\ pos' = pos
  BY <1>1, <1>2, Zenon
<1>5. (Consumed => Taken = pos)' /\ (~Consumed => Taken = pos - 1)'
  <2>1. (Regs /\ op # <<>> => (Consumed => Taken = pos) /\ (~Consumed => Taken = pos - 1))'
    BY TakenIs, PTL
  <2> QED
    BY <1>3, <1>4, <2>1, Zenon
<1>6. (Consumed => Taken = pos) /\ (~Consumed => Taken = pos - 1)
  BY <1>2, <1>3, TakenIs, Zenon
<1>7. ASSUME sm_bit_cnt < BYTE_BITS - 1
      PROVE  bit_cnt # 0 /\ Taken = pos - 1 /\ Taken' = pos - 1
  <2>1. sm_bit_cnt # BYTE_BITS - 1
    BY <1>2, <1>7
  <2>2. ~Consumed
    BY <1>2, <2>1, Zenon DEF Consumed
  <2>3. done_latched' = done_latched /\ sclk' # 1
    <3>1. sclk' # 1
      BY <1>1
    <3> QED
      BY <1>7, <3>1, Zenon DEF Fall
  <2>4. ~Consumed'
    BY <1>2, <2>3, Zenon DEF Consumed
  <2> QED
    BY <1>2, <1>4, <1>5, <1>6, <1>7, <2>2, <2>4, Zenon
<1>8. ASSUME ~(sm_bit_cnt < BYTE_BITS - 1)
      PROVE  sm_bit_cnt = BYTE_BITS - 1 /\ bit_cnt = 0 /\ Taken = pos /\ Taken' = pos
  <2>1. sm_bit_cnt = BYTE_BITS - 1
    BY <1>2, <1>8, SpiAssumption
  <2>2. Consumed
    BY <1>1, <1>2, <2>1, Zenon DEF Consumed
  <2>3. Consumed'
    BY <1>1, <1>2, <1>8, Zenon DEF Consumed, Fall
  <2> QED
    BY <1>2, <1>4, <1>5, <1>6, <2>1, <2>2, <2>3, Zenon
<1> QED
  BY <1>1, <1>2, <1>7, <1>8, Zenon

\* The end of a byte, on the driver's side, leaves the number of bytes taken.
LEMMA DriverTaken ==
  ASSUME SpiInv, Transfer \/ NextByte
  PROVE  /\ op # <<>> /\ op' = op /\ Taken' = Taken
         /\ Transfer => ~sm_data /\ sclk = 0 /\ Taken = pos - 1
         /\ NextByte => ~sm_data /\ ~sm_data' /\ Taken = pos
<1>1. op # <<>> /\ op' = op
  BY Zenon DEF Transfer, NextByte, SpiInv, DriverInv
<1>2. Regs /\ Regs' /\ (op # <<>>)'
  BY <1>1, RegsStep, Zenon DEF SpiInv, Next
<1>3. (Consumed => Taken = pos) /\ (~Consumed => Taken = pos - 1)
  BY <1>1, <1>2, TakenIs, Zenon
<1>4. (Consumed => Taken = pos)' /\ (~Consumed => Taken = pos - 1)'
  <2>1. (Regs /\ op # <<>> => (Consumed => Taken = pos) /\ (~Consumed => Taken = pos - 1))'
    BY TakenIs, PTL
  <2> QED
    BY <1>2, <2>1, Zenon
<1>5. CASE Transfer
  <2>1. ~sm_data /\ sclk = 0 /\ ~waiting
    BY <1>5, Zenon DEF Transfer, SpiInv, DriverInv
  <2>2. ~Consumed
    BY <2>1, Zenon DEF Consumed
  <2>3. sclk' # 1
    BY <1>5, <2>1 DEF Transfer
  <2>4. ~Consumed' /\ pos' = pos
    BY <1>5, <2>3, Zenon DEF Transfer, Consumed
  <2>5. ~NextByte
    BY <2>1, Zenon DEF NextByte
  <2> QED
    BY <1>1, <1>3, <1>4, <2>1, <2>2, <2>4, <2>5, Zenon
<1>6. CASE NextByte
  <2>1. ~sm_data /\ ~sm_data' /\ waiting /\ done_latched
    BY <1>6, Zenon DEF NextByte, master_vars, SpiInv, DriverInv
  <2>2. Consumed /\ ~Consumed'
    BY <1>6, <2>1, Zenon DEF NextByte, Consumed
  <2>3. pos' - 1 = pos
    <3>1. pos' = pos + 1
      BY <1>6, Zenon DEF NextByte
    <3>2. pos \in 1 .. Len(op[3]) + 2
      BY <1>1, <1>2, ByteType, Zenon
    <3> QED
      BY <3>1, <3>2
  <2>4. ~Transfer
    BY <2>1, Zenon DEF Transfer
  <2> QED
    BY <1>1, <1>3, <1>4, <2>1, <2>2, <2>3, <2>4, Zenon
<1> QED
  BY <1>5, <1>6

-----------------------------------------------------------------------------
(* The two sides stay in step.                                             *)

\* No transfer outlives its call, and no reset leaves a bit behind.
LEMMA ControlStep ==
  ASSUME SpiInv, [Next]_vars
  PROVE  DriverInv' /\ ResetInv'
<1> USE DEF SpiInv
<1>1. DriverInv /\ ResetInv /\ (sm_data \in BOOLEAN) /\ (done_latched \in BOOLEAN)
  BY Zenon DEF Regs, Flags
<1>2. CASE Called
  <2>1. op' # <<>>
    BY <1>2, CallBytes, Zenon DEF Called
  <2> QED
    BY <1>1, <1>2, <2>1, Zenon DEF Called, master_vars, emulator_vars, DriverInv, ResetInv
<1>3. CASE Transfer
  BY <1>1, <1>3, Zenon DEF Transfer, emulator_vars, reset_vars, DriverInv, ResetInv
<1>4. CASE Rise
  <2>1. DriverInv'
    BY <1>1, <1>4, Zenon DEF Rise, driver_vars, DriverInv
  <2>2. ResetInv'
    BY <1>1, <1>4, Zenon DEF Rise, EmulatorRise, driver_vars, reset_vars, ResetInv
  <2> QED
    BY <2>1, <2>2
<1>5. CASE Fall
  <2>1. DriverInv'
    BY <1>1, <1>5, Zenon DEF Fall, driver_vars, DriverInv
  <2>2. ResetInv'
    BY <1>1, <1>5, Zenon DEF Fall, driver_vars, reset_vars, ResetInv
  <2> QED
    BY <2>1, <2>2
<1>6. CASE NextByte
  <2>1. op # <<>>
    BY <1>1, <1>6, Zenon DEF NextByte, DriverInv
  <2> QED
    BY <1>1, <1>6, <2>1, Zenon DEF NextByte, master_vars, emulator_vars, reset_vars,
         DriverInv, ResetInv
<1>7. CASE Return
  BY <1>1, <1>7, Zenon DEF Return, Deselected, master_vars, DriverInv, ResetInv
<1>8. CASE Crash
  BY <1>1, <1>8, Zenon DEF Crash, Deselected, DriverInv, ResetInv
<1>9. CASE EmulatorReset
  BY <1>1, <1>9, Zenon DEF EmulatorReset, driver_vars, master_vars, DriverInv, ResetInv
<1>10. CASE EmulatorRelease
  BY <1>1, <1>10, Zenon DEF EmulatorRelease, driver_vars, master_vars, DriverInv, ResetInv
<1>11. CASE UNCHANGED vars
  BY <1>1, <1>11, Zenon DEF vars, driver_vars, master_vars, emulator_vars, reset_vars,
       DriverInv, ResetInv
<1> QED
  BY <1>2, <1>3, <1>4, <1>5, <1>6, <1>7, <1>8, <1>9, <1>10, <1>11, NextIs, Zenon

\* The counters of the two sides stay together.
LEMMA CountStep ==
  ASSUME SpiInv, [Next]_vars
  PROVE  CountInv'
<1>1. CountInv /\ DriverInv /\ ResetInv
  BY Zenon DEF SpiInv
<1>2. BYTE_BITS \in Nat /\ BYTE_BITS >= 2
  BY SpiAssumption
<1>3. CASE Called
  <2>1. ~hit /\ ~sm_data
    BY <1>1, <1>3, Zenon DEF Called, DriverInv, ResetInv
  <2> QED
    BY <1>1, <1>3, <2>1, Zenon DEF Called, master_vars, emulator_vars, CountInv
<1>4. CASE Transfer
  <2>1. ~sm_data /\ sclk' = 0 /\ sm_bit_cnt' = 0 /\ sm_data'
        /\ UNCHANGED <<hit, bit_cnt, rx_shift>>
    BY <1>1, <1>4, Zenon DEF Transfer, emulator_vars, reset_vars, DriverInv
  <2>2. 0 = IF sm_bit_cnt' + sclk' = BYTE_BITS THEN 0 ELSE sm_bit_cnt' + sclk'
    BY <1>2, <2>1
  <2> QED
    BY <1>1, <2>1, <2>2, Zenon DEF CountInv
<1>5. CASE Rise
  <2> SUFFICES ASSUME ~hit PROVE CountInv'
    BY <1>5, Zenon DEF Rise, reset_vars, CountInv
  <2>1. /\ sm_data' /\ sclk' = 1 /\ sm_bit_cnt' = sm_bit_cnt
        /\ sm_data /\ sm_bit_cnt \in 0 .. BYTE_BITS - 1 /\ bit_cnt = sm_bit_cnt
    BY <1>5, RiseIs, OnTheWires, Zenon DEF Rise
  <2>2. CASE sm_bit_cnt = BYTE_BITS - 1
    <3>1. bit_cnt' = 0 /\ rx_shift' = 0
      BY <1>5, <2>2, RiseIs, Zenon
    <3>2. 0 = IF sm_bit_cnt' + sclk' = BYTE_BITS THEN 0 ELSE sm_bit_cnt' + sclk'
      BY <1>2, <2>1, <2>2
    <3> QED
      BY <2>1, <3>1, <3>2, Zenon DEF CountInv
  <2>3. CASE sm_bit_cnt < BYTE_BITS - 1
    <3>1. bit_cnt' = bit_cnt + 1
      BY <1>5, <2>3, RiseIs, Zenon
    <3>2. bit_cnt' # 0
          /\ bit_cnt' = IF sm_bit_cnt' + sclk' = BYTE_BITS THEN 0 ELSE sm_bit_cnt' + sclk'
      BY <1>2, <2>1, <2>3, <3>1
    <3> QED
      BY <2>1, <3>2, Zenon DEF CountInv
  <2>4. sm_bit_cnt = BYTE_BITS - 1 \/ sm_bit_cnt < BYTE_BITS - 1
    BY <1>2, <2>1
  <2> QED
    BY <2>2, <2>3, <2>4
<1>6. CASE Fall
  <2> SUFFICES ASSUME ~hit PROVE CountInv'
    BY <1>6, Zenon DEF Fall, reset_vars, CountInv
  <2>1. /\ sclk' = 0 /\ UNCHANGED <<bit_cnt, rx_shift>>
        /\ sm_data /\ sclk = 1 /\ sm_bit_cnt \in 0 .. BYTE_BITS - 1
    BY <1>6, FallIs, Zenon DEF Fall
  <2>2. CASE sm_bit_cnt < BYTE_BITS - 1
    <3>1. sm_bit_cnt' = sm_bit_cnt + 1 /\ sm_data' = sm_data
      BY <1>6, <2>2, Zenon DEF Fall
    <3>2. bit_cnt = sm_bit_cnt + 1 /\ bit_cnt # 0
      BY <2>1, <2>2, OnTheWires, Zenon
    <3>3. bit_cnt' # 0
          /\ bit_cnt' = IF sm_bit_cnt' + sclk' = BYTE_BITS THEN 0 ELSE sm_bit_cnt' + sclk'
      BY <1>2, <2>1, <2>2, <3>1, <3>2
    <3> QED
      BY <2>1, <3>1, <3>3, Zenon DEF CountInv
  <2>3. CASE ~(sm_bit_cnt < BYTE_BITS - 1)
    <3>1. bit_cnt = 0
      BY <1>6, <2>3, FallIs, Zenon
    <3>2. ~sm_data'
      BY <1>6, <2>3, Zenon DEF Fall
    <3> QED
      BY <1>1, <2>1, <3>1, <3>2, Zenon DEF CountInv
  <2> QED
    BY <2>2, <2>3
<1>7. CASE NextByte
  BY <1>1, <1>7, Zenon DEF NextByte, master_vars, emulator_vars, reset_vars, CountInv
<1>8. CASE Return
  <2>1. ~sm_data' /\ bit_cnt' = 0 /\ rx_shift' = 0
    BY <1>1, <1>8, Zenon DEF Return, Deselected, master_vars, DriverInv
  <2> QED
    BY <2>1, Zenon DEF CountInv
<1>9. CASE Crash
  BY <1>9, Zenon DEF Crash, Deselected, CountInv
<1>10. CASE EmulatorReset
  <2>1. bit_cnt' = 0 /\ rx_shift' = 0 /\ (~hit' => ~sm_data')
    BY <1>1, <1>10, Zenon DEF EmulatorReset, master_vars, DriverInv
  <2> QED
    BY <2>1, Zenon DEF CountInv
<1>11. CASE EmulatorRelease
  BY <1>1, <1>11, Zenon DEF EmulatorRelease, driver_vars, master_vars, ResetInv, CountInv
<1>12. CASE UNCHANGED vars
  BY <1>1, <1>12, Zenon DEF vars, driver_vars, master_vars, emulator_vars, reset_vars,
       CountInv
<1> QED
  BY <1>3, <1>4, <1>5, <1>6, <1>7, <1>8, <1>9, <1>10, <1>11, <1>12, NextIs, Zenon

\* What both have of a byte sent stays together the byte.
LEMMA SendStep ==
  ASSUME SpiInv, [Next]_vars
  PROVE  SendInv'
<1>1. SendInv /\ CountInv /\ DriverInv /\ ResetInv /\ Regs
  BY Zenon DEF SpiInv
<1>2. ASSUME ~sm_data' \/ hit' \/ op' = <<>> PROVE SendInv'
  BY <1>2, Zenon DEF SendInv, Live
<1>3. CASE Called
  <2>1. ~sm_data'
    BY <1>1, <1>3, Zenon DEF Called, master_vars, DriverInv
  <2> QED
    BY <1>2, <2>1
<1>4. CASE Transfer
  <2> SUFFICES ASSUME ~hit PROVE SendInv'
    BY <1>4, Zenon DEF Transfer, reset_vars, SendInv, Live
  <2>1. op # <<>> /\ ~sm_data /\ sclk = 0
    BY <1>4, DriverTaken, Zenon
  <2>2. Out(Byte, 0, Msb(Byte), Shifted(Byte, 0)) /\ Msb(Byte) \in 0 .. 1
    BY <1>1, <2>1, ByteType, OutLoad, Zenon
  <2>3. rx_shift' = 0
    BY <1>1, <1>4, <2>1, Zenon DEF Transfer, emulator_vars, CountInv
  <2>4. /\ sm_bit_cnt' = 0 /\ mosi' = Msb(Byte) /\ tx_shift_reg' = Shifted(Byte, 0)
        /\ Byte' = Byte
    BY <1>4, Zenon DEF Transfer, Byte, BytesOf
  <2>5. 2 * rx_shift' + mosi' = Msb(Byte)
    BY <2>2, <2>3, <2>4
  <2>6. sclk' # 1
    BY <1>4, <2>1 DEF Transfer
  <2>7. Out(Byte', sm_bit_cnt', 2 * rx_shift' + mosi', tx_shift_reg')
    BY <2>2, <2>4, <2>5, Zenon
  <2> QED
    BY <2>6, <2>7, Zenon DEF SendInv
<1>5. CASE Rise
  <2> SUFFICES ASSUME ~hit PROVE SendInv'
    BY <1>5, Zenon DEF Rise, reset_vars, SendInv, Live
  <2>1. sclk' = 1 /\ sm_bit_cnt' = sm_bit_cnt /\ tx_shift_reg' = tx_shift_reg /\ Byte' = Byte
    BY <1>5, Zenon DEF Rise, driver_vars, Byte, BytesOf
  <2>2. Out(Byte, sm_bit_cnt, 2 * rx_shift + mosi, tx_shift_reg)
        /\ (sm_bit_cnt < BYTE_BITS - 1 => rx_shift' = 2 * rx_shift + mosi)
    BY <1>5, RiseIs, Zenon
  <2>3. sclk' # 0
    BY <2>1
  <2>4. sm_bit_cnt' < BYTE_BITS - 1 => Out(Byte', sm_bit_cnt', rx_shift', tx_shift_reg')
    BY <2>1, <2>2, Zenon
  <2> QED
    BY <2>3, <2>4, Zenon DEF SendInv
<1>6. CASE Fall
  <2> SUFFICES ASSUME ~hit PROVE SendInv'
    BY <1>6, Zenon DEF Fall, reset_vars, SendInv, Live
  <2>1. /\ Byte' = Byte /\ rx_shift' = rx_shift /\ sclk' = 0
        /\ sm_data /\ sclk = 1 /\ Live /\ op # <<>> /\ sm_bit_cnt \in 0 .. BYTE_BITS - 1
    BY <1>6, FallIs, Zenon DEF Fall, driver_vars, Byte, BytesOf
  <2>2. CASE sm_bit_cnt < BYTE_BITS - 1
    <3>1. Out(Byte, sm_bit_cnt, rx_shift, tx_shift_reg)
      BY <1>1, <2>1, <2>2, Zenon DEF SendInv
    <3>2. Byte \in SpiByte /\ rx_shift \in Nat
      <4>1. Byte \in SpiByte /\ rx_shift \in SpiByte
        BY <1>1, <2>1, ByteType, TypesAre, Zenon DEF Regs, Registers
      <4> QED
        BY <4>1, ByteIsTwoHalves DEF SpiByte
    <3>3. /\ Out(Byte, sm_bit_cnt + 1, 2 * rx_shift + Msb(tx_shift_reg), Shifted(tx_shift_reg, 0))
      BY <2>1, <2>2, <3>1, <3>2, OutNext
    <3>4. /\ sm_bit_cnt' = sm_bit_cnt + 1 /\ mosi' = Msb(tx_shift_reg)
          /\ tx_shift_reg' = Shifted(tx_shift_reg, 0)
      BY <1>6, <2>2, Zenon DEF Fall
    <3>5. sclk' # 1
      BY <2>1
    <3>6. Out(Byte', sm_bit_cnt', 2 * rx_shift' + mosi', tx_shift_reg')
      BY <2>1, <3>3, <3>4, Zenon
    <3> QED
      BY <3>5, <3>6, Zenon DEF SendInv
  <2>3. CASE ~(sm_bit_cnt < BYTE_BITS - 1)
    BY <1>2, <1>6, <2>3, Zenon DEF Fall
  <2> QED
    BY <2>2, <2>3
<1>7. CASE NextByte
  BY <1>2, <1>7, DriverTaken, Zenon
<1>8. CASE Return \/ Crash
  BY <1>2, <1>8, Zenon DEF Return, Crash
<1>9. CASE EmulatorReset
  BY <1>2, <1>9, Zenon DEF EmulatorReset, driver_vars
<1>10. CASE EmulatorRelease
  <2>1. hit' \/ op' = <<>>
    BY <1>1, <1>10, Zenon DEF EmulatorRelease, driver_vars, ResetInv
  <2> QED
    BY <1>2, <2>1
<1>11. CASE UNCHANGED vars
  <2>1. Byte' = Byte
    BY <1>11, Zenon DEF vars, driver_vars, Byte, BytesOf
  <2> QED
    BY <1>1, <1>11, <2>1, Zenon DEF vars, driver_vars, master_vars, emulator_vars,
         reset_vars, SendInv, Live
<1> QED
  BY <1>3, <1>4, <1>5, <1>6, <1>7, <1>8, <1>9, <1>10, <1>11, NextIs, Zenon

\* The emulator takes each byte for what the driver sent it as.
LEMMA StateStep ==
  ASSUME SpiInv, [Next]_vars
  PROVE  StateInv'
<1>1. StateInv /\ DriverInv /\ ResetInv /\ Regs /\ Regs'
  BY RegsStep, Zenon DEF SpiInv
<1>2. ASSUME ~hit', ~hit, op # <<>>, op' = op, Taken' = Taken,
             UNCHANGED <<state, last_cmd, addr_reg>>
      PROVE  StateInv'
  BY <1>1, <1>2, Zenon DEF StateInv, Live, BytesOf
<1>3. ASSUME hit', op' # <<>> PROVE StateInv'
  BY <1>3, Zenon DEF StateInv, Live
<1>4. ASSUME op' = <<>>, state' = "CMD" PROVE StateInv'
  BY <1>4, Zenon DEF StateInv, Live
<1>5. CASE Called
  <2>1. /\ pos' = 1 /\ state' = "CMD" /\ op' # <<>>
        /\ ~waiting'
    BY <1>1, <1>5, CallBytes, Zenon DEF Called, emulator_vars, StateInv, DriverInv
  <2>2. ~Consumed'
    BY <2>1, Zenon DEF Consumed
  <2>3. Taken' = 0
    BY <2>1, <2>2 DEF Taken
  <2>4. Taken' # 1 /\ ~(Taken' >= 2) /\ ~(Taken' \in 2 .. Len(op'[3]) + 1)
    BY <2>3
  <2> QED
    BY <2>1, <2>3, <2>4, Zenon DEF StateInv
<1>6. CASE Transfer \/ NextByte
  <2>1. /\ op # <<>> /\ op' = op /\ Taken' = Taken /\ hit' = hit
        /\ UNCHANGED <<state, last_cmd, addr_reg>>
    BY <1>6, DriverTaken, Zenon DEF Transfer, NextByte, emulator_vars, reset_vars
  <2>2. CASE hit
    BY <1>3, <2>1, <2>2, Zenon
  <2>3. CASE ~hit
    BY <1>2, <2>1, <2>3, Zenon
  <2> QED
    BY <2>2, <2>3
<1>7. CASE Fall
  <2>1. op # <<>> /\ op' = op /\ hit' = hit /\ UNCHANGED <<state, last_cmd, addr_reg>>
    BY <1>1, <1>7, Zenon DEF Fall, driver_vars, reset_vars, DriverInv
  <2>2. CASE hit
    BY <1>3, <2>1, <2>2, Zenon
  <2>3. CASE ~hit
    BY <1>2, <1>7, <2>1, <2>3, FallIs, Zenon
  <2> QED
    BY <2>2, <2>3
<1>8. CASE Rise
  <2>1. op # <<>> /\ op' = op /\ hit' = hit
    BY <1>1, <1>8, Zenon DEF Rise, driver_vars, reset_vars, DriverInv
  <2>2. CASE hit
    BY <1>3, <2>1, <2>2, Zenon
  <2>3. CASE ~hit /\ sm_bit_cnt < BYTE_BITS - 1
    <3>1. Taken' = Taken /\ UNCHANGED <<state, last_cmd, addr_reg>>
      BY <1>8, <2>3, RiseIs, Zenon
    <3> QED
      BY <1>2, <2>1, <2>3, <3>1, Zenon
  <2>4. CASE ~hit /\ ~(sm_bit_cnt < BYTE_BITS - 1)
    <3>1. sm_bit_cnt = BYTE_BITS - 1
      <4>1. sm_bit_cnt \in 0 .. BYTE_BITS - 1
        BY <1>1, TypesAre, Zenon DEF Regs, Counters
      <4> QED
        BY <2>4, <4>1, SpiAssumption
    <3>2. Live /\ LastBitOf(Byte) /\ Taken = pos - 1 /\ Taken' = pos
      BY <1>8, <2>4, <3>1, RiseIs, Zenon
    <3>3. /\ op \in Calls /\ pos \in 1 .. Len(op[3]) + 2 /\ Len(op[3]) \in Nat
      BY <1>1, <2>1, ByteType, Zenon
    <3>4. /\ op[1] \in {"read", "write"} /\ op[2] \in SpiByte
          /\ op[2] + Len(op[3]) - 1 \in SpiByte
          /\ BytesOf(op)[1] = (IF op[1] = "write" THEN CMD_WRITE ELSE CMD_READ)
          /\ BytesOf(op)[2] = op[2]
      BY <3>3, CallBytes, Zenon
    <3>5. CMD_WRITE # CMD_READ
      BY DEF CMD_WRITE, CMD_READ
    <3>6. CASE pos = 1
      <4>1. Taken = 0 /\ Taken' = 1
        BY <3>2, <3>6
      <4>2. state = "CMD"
        BY <1>1, <3>2, <4>1, Zenon DEF StateInv
      <4>3. Byte = BytesOf(op)[1]
        BY <3>6, Zenon DEF Byte
      <4>4. last_cmd' = BytesOf(op)[1] /\ state' = "ADDR"
        BY <3>2, <3>4, <4>2, <4>3, Zenon DEF LastBitOf
      <4>5. Taken' # 0 /\ ~(Taken' >= 2) /\ ~(Taken' \in 2 .. Len(op[3]) + 1)
        BY <4>1
      <4> QED
        BY <2>1, <4>4, <4>5, Zenon DEF StateInv, Live, BytesOf
    <3>7. CASE pos = 2
      <4>1. Taken = 1 /\ Taken' = 2
        BY <3>2, <3>7
      <4>2. state = "ADDR" /\ last_cmd = BytesOf(op)[1]
        BY <1>1, <3>2, <4>1, Zenon DEF StateInv
      <4>3. Byte = op[2]
        BY <3>4, <3>7, Zenon DEF Byte
      <4>4. addr_reg' = op[2] /\ state' = IF op[1] = "write" THEN "WRITE" ELSE "READ"
        BY <3>2, <3>4, <3>5, <4>2, <4>3, Zenon DEF LastBitOf
      <4>5. op[2] + Taken' - 2 = op[2] /\ Taken' # 0 /\ Taken' # 1
        BY <3>4, <4>1, ByteIsTwoHalves DEF SpiByte
      <4> QED
        BY <2>1, <4>4, <4>5, Zenon DEF StateInv, Live
    <3>8. CASE pos > 2
      <4>1. Taken >= 2 /\ Taken' # 0 /\ Taken' # 1 /\ Taken' >= 2
            /\ Taken \in 2 .. Len(op[3]) + 1
        BY <3>2, <3>3, <3>8
      <4>2. state = IF op[1] = "write" THEN "WRITE" ELSE "READ"
        BY <1>1, <3>2, <4>1, Zenon DEF StateInv
      <4>3. addr_reg = op[2] + Taken - 2
        BY <1>1, <3>2, <4>1, Zenon DEF StateInv
      <4>4. addr_reg' = (addr_reg + 1) % B /\ state' = state
        BY <3>2, <4>2, Zenon DEF LastBitOf
      <4>5. ASSUME Taken' \in 2 .. Len(op[3]) + 1 PROVE addr_reg' = op[2] + Taken' - 2
        <5>1. /\ op[2] \in Nat /\ op[2] + Len(op[3]) - 1 \in 0 .. B - 1 /\ B \in Nat \ {0}
          BY <3>4, ByteIsTwoHalves DEF SpiByte
        <5> DEFINE a == op[2]
                   len == Len(op[3])
        <5>2. /\ a \in Nat /\ len \in Nat /\ a + len - 1 \in 0 .. B - 1 /\ B \in Nat \ {0}
              /\ pos \in 2 .. len + 1 /\ addr_reg = a + (pos - 1) - 2
          BY <3>2, <3>3, <4>3, <4>5, <5>1, Zenon
        <5> HIDE DEF a, len
        <5>3. addr_reg + 1 = a + pos - 2 /\ a + pos - 2 \in 0 .. B - 1
          BY <5>2
        <5>4. addr_reg + 1 = op[2] + pos - 2 /\ op[2] + pos - 2 \in 0 .. B - 1
          BY <5>3, Zenon DEF a
        <5>5. \A v \in 0 .. B - 1 : v % B = v
          BY <5>1
        <5>6. addr_reg' = op[2] + pos - 2
          BY <4>4, <5>4, <5>5, Zenon
        <5> QED
          BY <3>2, <5>6
      <4>6. state' = IF op[1] = "write" THEN "WRITE" ELSE "READ"
        BY <4>2, <4>4, Zenon
      <4> QED
        BY <2>1, <4>1, <4>5, <4>6, Zenon DEF StateInv, Live
    <3> QED
      BY <3>3, <3>6, <3>7, <3>8
  <2> QED
    BY <2>2, <2>3, <2>4
<1>9. CASE Return \/ Crash
  BY <1>4, <1>9, Zenon DEF Return, Crash, Deselected
<1>10. CASE EmulatorReset
  BY <1>3, <1>4, <1>10, Zenon DEF EmulatorReset, driver_vars
<1>11. CASE EmulatorRelease
  <2>1. op' = op /\ hit' = hit /\ state' = state /\ (op # <<>> => hit)
    BY <1>1, <1>11, Zenon DEF EmulatorRelease, driver_vars, ResetInv
  <2> QED
    BY <1>1, <1>3, <1>4, <2>1, Zenon DEF StateInv
<1>12. CASE UNCHANGED vars
  <2>1. Taken' = Taken
    BY <1>12, Zenon DEF vars, driver_vars, master_vars, Taken, Consumed
  <2>2. op' = op /\ hit' = hit /\ UNCHANGED <<state, last_cmd, addr_reg>>
    BY <1>12, Zenon DEF vars, driver_vars, emulator_vars, reset_vars
  <2> QED
    BY <1>1, <2>1, <2>2, Zenon DEF StateInv, Live, BytesOf
<1> QED
  BY <1>5, <1>6, <1>7, <1>8, <1>9, <1>10, <1>11, <1>12, NextIs, Zenon

\* The three parts of the invariant about a read.
ReadTaken ==
  Taken >= 2 => /\ read_data_buf = mem[addr_reg]
                /\ ~sm_data => Out(read_data_buf, 0, miso, tx_shift)
ReadBit ==
  pos > 2 =>
    /\ sm_data /\ sclk = 0 =>
         \E in \in SpiByte : /\ Out(Asked, sm_bit_cnt, 2 * in + miso, tx_shift)
                             /\ In(sm_bit_cnt, in, rx_shift_reg)
    /\ sm_data /\ sclk = 1 =>
         \E in \in SpiByte : /\ Out(Asked, sm_bit_cnt, in, tx_shift)
                             /\ InAfter(sm_bit_cnt, in, rx_shift_reg)
    /\ waiting /\ done_latched => rx_data = Asked
ReadGot == \A i \in 1 .. Len(got) : got[i] = mem[op[2] + i - 1]

\* The part of the invariant about a read, by what the parts are about: the bytes
\* loaded, the bit on the wire and the bytes gathered.
LEMMA ReadIs ==
  ReadInv <=> (Live /\ op[1] = "read" => ReadTaken /\ ReadBit /\ ReadGot)
BY Zenon DEF ReadInv, ReadTaken, ReadBit, ReadGot

\* The address register of a read is inside the memory, and points to the byte
\* asked for while it is loaded.
LEMMA ReadAddress ==
  ASSUME SpiInv, Live, op[1] = "read", Taken >= 2
  PROVE  /\ state = "READ" /\ read_data_buf \in SpiByte
         /\ Taken = pos - 1 /\ pos > 2 => read_data_buf = Asked
<1>1. Regs /\ StateInv /\ op # <<>> /\ ReadTaken
  BY ReadIs, Zenon DEF SpiInv, Live
<1>2. state = "READ"
  <2>1. "read" # "write"
    OBVIOUS
  <2> QED
    BY <1>1, <2>1, Zenon DEF StateInv
<1>3. read_data_buf \in SpiByte
  BY <1>1, TypesAre, Zenon DEF Regs, Registers
<1>4. ASSUME Taken = pos - 1, pos > 2 PROVE read_data_buf = Asked
  <2>1. /\ pos \in 1 .. Len(op[3]) + 2 /\ Len(op[3]) \in Nat /\ op[2] \in SpiByte
    BY <1>1, ByteType, CallBytes, Zenon
  <2>2. Taken \in 2 .. Len(op[3]) + 1
    BY <1>4, <2>1
  <2>3. addr_reg = op[2] + Taken - 2
    BY <1>1, <2>2, Zenon DEF StateInv
  <2>4. addr_reg = op[2] + pos - 3
    BY <1>4, <2>1, <2>3, ByteIsTwoHalves DEF SpiByte
  <2> QED
    BY <1>1, <2>4, Zenon DEF ReadTaken, Asked
<1> QED
  BY <1>2, <1>3, <1>4, Zenon

\* What a read has gathered when a byte has come is what is stored.
LEMMA ReceivedIs ==
  ASSUME Regs, op # <<>>, ReadBit, ReadGot, waiting, done_latched
  PROVE  /\ Len(Received) = (IF pos > 2 THEN pos - 2 ELSE 0)
         /\ \A i \in 1 .. Len(Received) : Received[i] = mem[op[2] + i - 1]
<1>1. /\ got \in Seq(SpiByte) /\ Len(got) = (IF pos > 2 THEN pos - 3 ELSE 0)
      /\ pos \in 1 .. Len(op[3]) + 2 /\ Len(op[3]) \in Nat /\ op[2] \in SpiByte
  BY ByteType, CallBytes, TypesAre, Zenon DEF Regs, GotInv, Position
<1>2. CASE ~(pos > 2)
  <2>1. Received = got /\ Len(got) = 0
    BY <1>1, <1>2, Zenon DEF Received
  <2> QED
    BY <1>2, <2>1, Zenon DEF ReadGot
<1>3. CASE pos > 2
  <2> DEFINE all == Received
             k == Len(got)
  <2>1. all = Append(got, rx_data) /\ k = pos - 3 /\ k \in Nat
    BY <1>1, <1>3 DEF Received
  <2>2. Len(all) = k + 1 /\ all[k + 1] = rx_data /\ \A i \in 1 .. k : all[i] = got[i]
    BY <1>1, <2>1
  <2>3. rx_data = mem[op[2] + pos - 3]
    BY <1>3, Zenon DEF ReadBit, Asked
  <2>4. op[2] + (k + 1) - 1 = op[2] + pos - 3 /\ k + 1 = pos - 2
    BY <1>1, <1>3, <2>1, ByteIsTwoHalves DEF SpiByte
  <2>5. all[k + 1] = mem[op[2] + (k + 1) - 1]
    BY <2>2, <2>3, <2>4, Zenon
  <2>6. \A i \in 1 .. k : all[i] = mem[op[2] + i - 1]
    BY <2>2, Zenon DEF ReadGot
  <2> HIDE DEF all, k
  <2>7. \A i \in 1 .. k + 1 : i \in 1 .. k \/ i = k + 1
    BY <2>1
  <2>8. \A i \in 1 .. Len(all) : all[i] = mem[op[2] + i - 1]
    BY <2>2, <2>5, <2>6, <2>7, Zenon
  <2> QED
    BY <1>3, <2>2, <2>4, <2>8, Zenon DEF all
<1> QED
  BY <1>2, <1>3

\* The byte asked for is inside the memory.
LEMMA AskedType ==
  ASSUME Regs, op # <<>>, pos > 2
  PROVE  Asked \in SpiByte
<1> DEFINE a == op[2]
           len == Len(op[3])
<1>1. /\ a \in SpiByte /\ a + len - 1 \in SpiByte
      /\ pos \in 1 .. len + 2 /\ len \in Nat /\ mem \in [SpiByte -> SpiByte]
  BY ByteType, CallBytes, TypesAre, Zenon DEF Regs, Memory
<1> HIDE DEF a, len
<1>2. a + pos - 3 \in SpiByte
  BY <1>1, ByteIsTwoHalves DEF SpiByte
<1> QED
  BY <1>1, <1>2, Zenon DEF Asked, a

\* A byte on its way out of the memory, or loaded to go, stays what it is.
LEMMA ReadStep ==
  ASSUME SpiInv, [Next]_vars
  PROVE  ReadInv'
<1>1. /\ ReadInv /\ CountInv /\ DriverInv /\ ResetInv /\ Regs /\ Regs'
  BY RegsStep, Zenon DEF SpiInv
<1>2. ReadInv' <=> ((Live /\ op[1] = "read")' => ReadTaken' /\ ReadBit' /\ ReadGot')
  <2>1. (ReadInv <=> (Live /\ op[1] = "read" => ReadTaken /\ ReadBit /\ ReadGot))'
    BY ReadIs, PTL
  <2> QED
    BY <2>1, Zenon
<1>3. ASSUME hit' \/ op' = <<>> PROVE ReadInv'
  BY <1>3, Zenon DEF ReadInv, Live
<1>4. CASE Called
  <2>1. /\ pos' = 1 /\ got' = <<>> /\ ~waiting'
    BY <1>1, <1>4, Zenon DEF Called, DriverInv
  <2>2. ~Consumed'
    BY <2>1, Zenon DEF Consumed
  <2>3. Taken' = 0
    BY <2>1, <2>2 DEF Taken
  <2>4. ~(Taken' >= 2) /\ ~(pos' > 2) /\ Len(got') = 0
    BY <2>1, <2>3
  <2>5. ReadGot'
    BY <2>4 DEF ReadGot
  <2> QED
    BY <1>2, <2>4, <2>5, Zenon DEF ReadTaken, ReadBit
<1> DEFINE Goes == op # <<>> /\ op' = op /\ hit' = hit /\ mem' = mem
<1>5. CASE Transfer
  <2>1. Goes /\ Taken' = Taken /\ Taken = pos - 1 /\ ~sm_data /\ sclk = 0
    BY <1>5, DriverTaken, Zenon DEF Transfer, emulator_vars, reset_vars
  <2>2. CASE hit
    BY <1>3, <2>1, <2>2
  <2>3. CASE ~hit /\ op[1] # "read"
    BY <1>2, <2>1, <2>3, Zenon
  <2>4. CASE ~hit /\ op[1] = "read"
    <3>1. Live /\ ReadTaken /\ ReadGot
      BY <1>1, <2>1, <2>4, ReadIs, Zenon DEF Live
    <3>2. ReadGot'
      BY <1>5, <2>1, <3>1, Zenon DEF Transfer, ReadGot
    <3>3. sm_data' /\ ~done_latched' /\ sm_bit_cnt' = 0 /\ sclk' = 0 /\ pos' = pos
          /\ UNCHANGED <<read_data_buf, addr_reg, miso, tx_shift, rx_shift_reg>>
      BY <1>5, <2>1, Zenon DEF Transfer, emulator_vars
    <3>4. ReadTaken'
      BY <2>1, <3>1, <3>3, Zenon DEF ReadTaken
    <3>5. ASSUME pos > 2
          PROVE  \E in \in SpiByte : /\ Out(Asked, 0, 2 * in + miso, tx_shift)
                                     /\ In(0, in, rx_shift_reg)
      <4>1. Taken >= 2
        <5>1. pos \in 1 .. Len(op[3]) + 2 /\ Len(op[3]) \in Nat
          BY <1>1, <2>1, ByteType, Zenon
        <5> QED
          BY <2>1, <3>5, <5>1
      <4>2. Out(Asked, 0, miso, tx_shift)
        BY <2>1, <2>4, <3>1, <3>5, <4>1, ReadAddress, Zenon DEF ReadTaken
      <4>3. In(0, 0, rx_shift_reg)
        BY <1>1, TypesAre, InNone, Zenon DEF Regs, Registers
      <4>4. 2 * 0 + miso = miso
        <5>1. miso \in 0 .. 1
          BY <1>1, TypesAre, Zenon DEF Regs, Wires
        <5> QED
          BY <5>1
      <4>5. 0 \in SpiByte
        BY BitsOf
      <4>6. Out(Asked, 0, 2 * 0 + miso, tx_shift)
        BY <4>2, <4>4, Zenon
      <4> QED
        BY <4>3, <4>5, <4>6, Zenon
    <3>6. Asked' = Asked
      BY <2>1, <3>3, Zenon DEF Asked
    <3>7. sclk' # 1
      BY <3>3
    <3>8. ReadBit'
      BY <3>3, <3>5, <3>6, <3>7, Zenon DEF ReadBit
    <3> QED
      BY <1>2, <3>2, <3>4, <3>8, Zenon
  <2> QED
    BY <2>2, <2>3, <2>4
<1>6. CASE Rise
  <2>1. op # <<>> /\ op' = op /\ hit' = hit
    BY <1>1, <1>6, Zenon DEF Rise, driver_vars, reset_vars, DriverInv
  <2>2. CASE hit
    BY <1>3, <2>1, <2>2
  <2>3. CASE ~hit /\ op[1] # "read"
    BY <1>2, <2>1, <2>3, Zenon
  <2>4. CASE ~hit /\ op[1] = "read"
    <3>1. Live /\ ReadTaken /\ ReadGot /\ ReadBit /\ StateInv
      BY <1>1, <2>1, <2>4, ReadIs, Zenon DEF Live, SpiInv
    <3>2. /\ sm_data /\ sclk = 0 /\ sm_data' /\ sclk' = 1 /\ pos' = pos /\ got' = got
          /\ UNCHANGED <<sm_bit_cnt, waiting, done_latched, miso, tx_shift>>
          /\ rx_shift_reg' = Shifted(rx_shift_reg, miso) /\ ~done_latched
      BY <1>1, <1>6, Zenon DEF Rise, driver_vars, DriverInv
    <3>3. sm_bit_cnt \in 0 .. BYTE_BITS - 1 /\ miso \in 0 .. 1 /\ mem \in [SpiByte -> SpiByte]
      BY <1>1, TypesAre, Zenon DEF Regs, Counters, Wires, Memory
    <3>4. /\ pos \in 1 .. Len(op[3]) + 2 /\ Len(op[3]) \in Nat
          /\ op \in Calls
      BY <1>1, <2>1, ByteType, Zenon
    <3>5. mem' = mem /\ ReadTaken'
      <4>1. CASE sm_bit_cnt < BYTE_BITS - 1
        <5>1. /\ Taken' = Taken /\ UNCHANGED <<addr_reg, read_data_buf, mem>>
          BY <1>6, <2>4, <4>1, RiseIs, Zenon
        <5> QED
          BY <3>1, <3>2, <5>1, Zenon DEF ReadTaken
      <4>2. CASE ~(sm_bit_cnt < BYTE_BITS - 1)
        <5>1. sm_bit_cnt = BYTE_BITS - 1
          BY <3>3, <4>2, SpiAssumption
        <5>2. LastBitOf(Byte) /\ Taken = pos - 1 /\ Taken' = pos
          BY <1>6, <2>4, <5>1, RiseIs, Zenon
        <5>3. CASE pos = 1
          <6>1. Taken = 0 /\ ~(Taken' >= 2)
            BY <5>2, <5>3
          <6>2. state = "CMD"
            BY <3>1, <6>1, Zenon DEF StateInv
          <6> QED
            BY <5>2, <6>1, <6>2, Zenon DEF LastBitOf, ReadTaken
        <5>4. CASE pos = 2
          <6>1. Taken = 1
            BY <5>2, <5>4
          <6>2. /\ state = "ADDR" /\ last_cmd = BytesOf(op)[1]
                /\ BytesOf(op)[1] = (IF op[1] = "write" THEN CMD_WRITE ELSE CMD_READ)
            BY <3>1, <3>4, <6>1, CallBytes, Zenon DEF StateInv
          <6>3. last_cmd = CMD_READ
            BY <2>4, <6>2
          <6>4. mem' = mem /\ addr_reg' = Byte /\ read_data_buf' = mem[Byte]
            BY <5>2, <6>2, <6>3, Zenon DEF LastBitOf
          <6> QED
            BY <3>2, <6>4, Zenon DEF ReadTaken
        <5>5. CASE pos > 2
          <6>1. Taken >= 2
            BY <3>4, <5>2, <5>5
          <6>2. state = "READ"
            BY <2>4, <3>1, <6>1, ReadAddress, Zenon
          <6>3. mem' = mem /\ read_data_buf' = mem[addr_reg']
            BY <5>2, <6>2, Zenon DEF LastBitOf
          <6> QED
            BY <3>2, <6>3, Zenon DEF ReadTaken
        <5> QED
          BY <3>4, <5>3, <5>4, <5>5
      <4> QED
        BY <4>1, <4>2
    <3>6. ReadGot'
      BY <2>1, <3>1, <3>2, <3>5, Zenon DEF ReadGot
    <3>7. ASSUME pos > 2
          PROVE  \E in \in SpiByte :
                   /\ Out(Asked, sm_bit_cnt, in, tx_shift)
                   /\ InAfter(sm_bit_cnt, in, Shifted(rx_shift_reg, miso))
      <4>1. PICK in \in SpiByte : /\ Out(Asked, sm_bit_cnt, 2 * in + miso, tx_shift)
                                  /\ In(sm_bit_cnt, in, rx_shift_reg)
        BY <3>1, <3>2, <3>7, Zenon DEF ReadBit
      <4>2. InAfter(sm_bit_cnt, 2 * in + miso, Shifted(rx_shift_reg, miso))
        BY <3>3, <4>1, InBit
      <4>3. Asked \in SpiByte
        BY <1>1, <2>1, <3>7, AskedType
      <4>4. 2 * in + miso \in Nat
        BY <3>3, ByteIsTwoHalves DEF SpiByte
      <4>5. 2 * in + miso \in SpiByte
        BY <3>3, <4>1, <4>3, <4>4, OutEnd
      <4> QED
        BY <4>1, <4>2, <4>5, Zenon
    <3>8. sclk' # 0 /\ Asked' = Asked
      <4>1. sclk' # 0
        BY <3>2
      <4> QED
        BY <2>1, <3>2, <3>5, <4>1, Zenon DEF Asked
    <3>9. ReadBit'
      BY <3>2, <3>7, <3>8, Zenon DEF ReadBit
    <3> QED
      BY <1>2, <3>5, <3>6, <3>9, Zenon
  <2> QED
    BY <2>2, <2>3, <2>4
<1>7. CASE Fall
  <2>1. Goes /\ UNCHANGED <<read_data_buf, addr_reg, pos, got>>
    BY <1>1, <1>7, Zenon DEF Fall, driver_vars, reset_vars, DriverInv
  <2>2. CASE hit
    BY <1>3, <2>1, <2>2
  <2>3. CASE ~hit /\ op[1] # "read"
    BY <1>2, <2>1, <2>3, Zenon
  <2>4. CASE ~hit /\ op[1] = "read"
    <3>1. Live /\ ReadTaken /\ ReadGot /\ ReadBit /\ Taken' = Taken
          /\ sm_bit_cnt \in 0 .. BYTE_BITS - 1 /\ sm_data /\ sclk = 1
      BY <1>1, <1>7, <2>1, <2>4, FallIs, ReadIs, Zenon
    <3>2. ReadGot' /\ Asked' = Asked
      BY <2>1, <3>1, Zenon DEF ReadGot, Asked
    <3>3. sclk' = 0 /\ rx_shift_reg' = rx_shift_reg
      BY <1>7, Zenon DEF Fall
    <3>4. sclk' # 1
      BY <3>3
    <3>5. /\ pos \in 1 .. Len(op[3]) + 2 /\ Len(op[3]) \in Nat /\ op \in Calls
          /\ mem \in [SpiByte -> SpiByte]
      BY <1>1, <2>1, ByteType, TypesAre, Zenon DEF Regs, Memory
    <3>6. ASSUME pos > 2 PROVE Asked \in SpiByte
      BY <1>1, <2>1, <3>6, AskedType
    <3>7. ASSUME pos > 2
          PROVE  \E in \in SpiByte : /\ Out(Asked, sm_bit_cnt, in, tx_shift)
                                     /\ InAfter(sm_bit_cnt, in, rx_shift_reg)
      BY <3>1, <3>7, Zenon DEF ReadBit
    <3>8. CASE sm_bit_cnt < BYTE_BITS - 1
      <4>1. bit_cnt # 0 /\ Taken = pos - 1
        BY <1>7, <2>4, <3>8, FallIs, Zenon
      <4>2. sm_data' /\ sm_bit_cnt' = sm_bit_cnt + 1 /\ ~done_latched'
        BY <1>1, <1>7, <3>1, <3>8, Zenon DEF Fall, DriverInv
      <4>3. ReadTaken'
        BY <2>1, <3>1, <4>2, Zenon DEF ReadTaken
      <4>4. ASSUME pos > 2
            PROVE  \E in \in SpiByte : /\ Out(Asked, sm_bit_cnt + 1, 2 * in + miso', tx_shift')
                                       /\ In(sm_bit_cnt + 1, in, rx_shift_reg)
        <5>1. Taken >= 2
          BY <3>5, <4>1, <4>4
        <5>2. state = "READ"
          BY <2>4, <3>1, <5>1, ReadAddress, Zenon
        <5>3. miso' = Msb(tx_shift) /\ tx_shift' = Shifted(tx_shift, 0)
          BY <1>7, <4>1, <5>2, Zenon DEF Fall, EmulatorFall
        <5>4. PICK in \in SpiByte : /\ Out(Asked, sm_bit_cnt, in, tx_shift)
                                    /\ InAfter(sm_bit_cnt, in, rx_shift_reg)
          BY <3>7, <4>4
        <5>5. in \in Nat /\ Asked \in SpiByte
          <6>1. in \in Nat
            BY ByteIsTwoHalves DEF SpiByte
          <6> QED
            BY <3>6, <4>4, <6>1
        <5>6. Out(Asked, sm_bit_cnt + 1, 2 * in + Msb(tx_shift), Shifted(tx_shift, 0))
          BY <3>1, <3>8, <5>4, <5>5, OutNext
        <5>7. In(sm_bit_cnt + 1, in, rx_shift_reg)
          BY <3>1, <3>8, <5>4, InNext
        <5> QED
          BY <5>3, <5>6, <5>7, Zenon
      <4>5. ReadBit'
        BY <2>1, <3>2, <3>3, <3>4, <4>2, <4>4, Zenon DEF ReadBit
      <4> QED
        BY <1>2, <3>2, <4>3, <4>5, Zenon
    <3>9. CASE ~(sm_bit_cnt < BYTE_BITS - 1)
      <4>1. sm_bit_cnt = BYTE_BITS - 1 /\ bit_cnt = 0 /\ Taken = pos
        BY <1>7, <2>4, <3>9, FallIs, Zenon
      <4>2. ~sm_data' /\ rx_data' = rx_shift_reg
        BY <1>7, <3>9, Zenon DEF Fall
      <4>3. ReadTaken'
        <5> SUFFICES ASSUME Taken >= 2 PROVE ReadTaken'
          BY <3>1, Zenon DEF ReadTaken
        <5>1. state = "READ" /\ read_data_buf \in SpiByte
          BY <2>4, <3>1, ReadAddress, Zenon
        <5>2. miso' = Msb(read_data_buf) /\ tx_shift' = Shifted(read_data_buf, 0)
          BY <1>7, <4>1, <5>1, Zenon DEF Fall, EmulatorFall
        <5>3. Out(read_data_buf, 0, miso', tx_shift')
          BY <5>1, <5>2, OutLoad, Zenon
        <5> QED
          BY <2>1, <3>1, <5>3, Zenon DEF ReadTaken
      <4>4. ASSUME pos > 2 PROVE rx_data' = Asked
        <5>1. PICK in \in SpiByte : /\ Out(Asked, sm_bit_cnt, in, tx_shift)
                                    /\ InAfter(sm_bit_cnt, in, rx_shift_reg)
          BY <3>7, <4>4
        <5>2. in \in Nat /\ Asked \in SpiByte
          <6>1. in \in Nat
            BY ByteIsTwoHalves DEF SpiByte
          <6> QED
            BY <3>6, <4>4, <6>1
        <5>3. in = Asked
          BY <3>1, <4>1, <5>1, <5>2, OutEnd
        <5>4. rx_shift_reg = in
          BY <4>1, <5>1, InEnd
        <5> QED
          BY <4>2, <5>3, <5>4, Zenon
      <4>5. ReadBit'
        BY <2>1, <3>2, <4>2, <4>4, Zenon DEF ReadBit
      <4> QED
        BY <1>2, <3>2, <4>3, <4>5, Zenon
    <3> QED
      BY <3>8, <3>9
  <2> QED
    BY <2>2, <2>3, <2>4
<1>8. CASE NextByte
  <2>1. /\ Goes /\ Taken' = Taken /\ ~sm_data /\ ~sm_data' /\ waiting /\ done_latched /\ ~waiting'
        /\ UNCHANGED <<read_data_buf, addr_reg, miso, tx_shift>> /\ got' = Received
    BY <1>8, DriverTaken, Zenon DEF NextByte, emulator_vars, reset_vars
  <2>2. CASE hit
    BY <1>3, <2>1, <2>2
  <2>3. CASE ~hit /\ op[1] # "read"
    BY <1>2, <2>1, <2>3, Zenon
  <2>4. CASE ~hit /\ op[1] = "read"
    <3>1. Live /\ ReadTaken /\ ReadGot /\ ReadBit
      BY <1>1, <2>1, <2>4, ReadIs, Zenon DEF Live
    <3>2. ReadTaken' /\ ReadBit'
      BY <2>1, <3>1, Zenon DEF ReadTaken, ReadBit
    <3>3. \A i \in 1 .. Len(Received) : Received[i] = mem[op[2] + i - 1]
      BY <1>1, <2>1, <2>4, <3>1, ReceivedIs, Zenon
    <3>4. ReadGot'
      BY <2>1, <3>3, Zenon DEF ReadGot
    <3> QED
      BY <1>2, <3>2, <3>4, Zenon
  <2> QED
    BY <2>2, <2>3, <2>4
<1>9. CASE Return \/ Crash
  BY <1>3, <1>9, Zenon DEF Return, Crash
<1>10. CASE EmulatorReset
  BY <1>3, <1>10, Zenon DEF EmulatorReset, driver_vars
<1>11. CASE EmulatorRelease
  <2>1. hit' \/ op' = <<>>
    BY <1>1, <1>11, Zenon DEF EmulatorRelease, driver_vars, ResetInv
  <2> QED
    BY <1>3, <2>1
<1>12. CASE UNCHANGED vars
  <2>1. Taken' = Taken /\ Asked' = Asked /\ (Live <=> Live')
    BY <1>12, Zenon DEF vars, driver_vars, master_vars, emulator_vars, reset_vars, Taken,
         Consumed, Asked, Live
  <2> QED
    BY <1>1, <1>12, <2>1, Zenon DEF vars, driver_vars, master_vars, emulator_vars,
         reset_vars, ReadInv
<1> QED
  BY <1>4, <1>5, <1>6, <1>7, <1>8, <1>9, <1>10, <1>11, <1>12, NextIs, Zenon

\* The conjunction is an invariant of the model.
LEMMA SpiInvariance == Spec => []SpiInv
<1>1. Init => SpiInv
  BY SpiStarts
<1>2. SpiInv /\ [Next]_vars => SpiInv'
  BY RegsStep, ControlStep, CountStep, SendStep, StateStep, ReadStep, Zenon DEF SpiInv
<1> QED
  BY <1>1, <1>2, PTL DEF Spec

\* For every width of a byte, memory board and master are at the same bit of the
\* same byte, unless the board was reset in the call under way: the two machines
\* share nothing but four wires (spi_master.sv, spi_eeprom_emulator.v).
THEOREM StaysInStep == Spec => []InStep
<1>1. ASSUME SpiInv PROVE InStep
  <2>1. SpiTypeOK /\ Regs /\ CountInv /\ StateInv /\ DriverInv
    BY <1>1, Zenon DEF SpiInv, Regs
  <2>2. ASSUME ~hit, sm_data PROVE bit_cnt = (sm_bit_cnt + sclk) % BYTE_BITS
    <3>1. bit_cnt = IF sm_bit_cnt + sclk = BYTE_BITS THEN 0 ELSE sm_bit_cnt + sclk
      BY <2>1, <2>2, Zenon DEF CountInv
    <3>2. sm_bit_cnt \in 0 .. BYTE_BITS - 1 /\ sclk \in 0 .. 1 /\ BYTE_BITS \in Nat \ {0}
      <4>1. sm_bit_cnt \in 0 .. BYTE_BITS - 1 /\ sclk \in 0 .. 1
        BY <2>1, TypesAre, Zenon DEF Regs, Counters, Wires
      <4> QED
        BY <4>1, SpiAssumption
    <3> DEFINE k == sm_bit_cnt + sclk
    <3>3. k \in Nat /\ k < 2 * BYTE_BITS /\ (k = BYTE_BITS \/ k < BYTE_BITS)
      BY <3>2
    <3> HIDE DEF k
    <3>4. k % BYTE_BITS = IF k < BYTE_BITS THEN k ELSE k - BYTE_BITS
      BY <3>2, <3>3, ModTwice
    <3>5. bit_cnt = k % BYTE_BITS
      <4>1. bit_cnt = IF k = BYTE_BITS THEN 0 ELSE k
        BY <3>1 DEF k
      <4> QED
        BY <3>2, <3>3, <3>4, <4>1
    <3> QED
      BY <3>5 DEF k
  <2>3. ASSUME ~hit, ~sm_data PROVE bit_cnt = 0
    BY <2>1, <2>3, Zenon DEF CountInv
  <2> DEFINE Expected == CASE op = <<>> \/ pos = 1 -> "CMD"
                           [] op # <<>> /\ pos = 2 -> "ADDR"
                           [] op # <<>> /\ pos > 2 /\ op[1] = "write" -> "WRITE"
                           [] op # <<>> /\ pos > 2 /\ op[1] = "read" -> "READ"
  <2>4. ASSUME ~hit, ~waiting PROVE state = Expected
    <3>1. CASE op = <<>>
      <4>1. state = "CMD"
        BY <2>1, <3>1, Zenon DEF StateInv
      <4> QED
        BY <3>1, <4>1, Zenon
    <3>2. CASE op # <<>>
      <4>1. Live /\ ~Consumed
        BY <2>4, <3>2, Zenon DEF Live, Consumed
      <4>2. Taken = pos - 1 /\ pos \in 1 .. Len(op[3]) + 2 /\ Len(op[3]) \in Nat
        BY <2>1, <3>2, <4>1, TakenIs, ByteType, Zenon
      <4>3. op[1] \in {"read", "write"}
        BY <2>1, <3>2, ByteType, CallBytes, Zenon
      <4>4. CASE pos = 1
        <5>1. Taken = 0 /\ ~(pos > 2) /\ pos # 2
          BY <4>2, <4>4
        <5>2. state = "CMD"
          BY <2>1, <4>1, <5>1, Zenon DEF StateInv
        <5> QED
          BY <4>4, <5>1, <5>2, Zenon
      <4>5. CASE pos = 2
        <5>1. Taken = 1 /\ ~(pos > 2) /\ pos # 1
          BY <4>2, <4>5
        <5>2. state = "ADDR"
          BY <2>1, <4>1, <5>1, Zenon DEF StateInv
        <5> QED
          BY <3>2, <4>5, <5>1, <5>2, Zenon
      <4>6. CASE pos > 2
        <5>1. Taken >= 2 /\ pos # 2 /\ pos # 1
          BY <4>2, <4>6
        <5>2. state = IF op[1] = "write" THEN "WRITE" ELSE "READ"
          BY <2>1, <4>1, <5>1, Zenon DEF StateInv
        <5>3. "read" # "write"
          OBVIOUS
        <5> QED
          BY <3>2, <4>3, <4>6, <5>1, <5>2, <5>3, Zenon
      <4>7. pos = 1 \/ pos = 2 \/ pos > 2
        BY <4>2
      <4> QED
        BY <4>4, <4>5, <4>6, <4>7, Zenon
    <3> QED
      BY <3>1, <3>2
  <2> QED
    BY <2>1, <2>2, <2>3, <2>4, Zenon DEF InStep
<1> QED
  BY <1>1, SpiInvariance, PTL

-----------------------------------------------------------------------------
(* The promise of EepromArray.                                             *)

\* How many bytes are stored, from how many are taken.
LEMMA StoredIs ==
  /\ op = <<>> \/ pos <= 2 \/ op[1] = "read" \/ hit => Stored = 0
  /\ Regs /\ Live /\ pos > 2 /\ op[1] = "write" => Stored = Taken - 2
<1>1. op = <<>> \/ pos <= 2 \/ op[1] = "read" \/ hit => Stored = 0
  BY Zenon DEF Stored
<1>2. ASSUME Regs, Live, pos > 2, op[1] = "write" PROVE Stored = Taken - 2
  <2>1. op # <<>> /\ ~hit /\ op[1] # "read"
    <3>1. "write" # "read"
      OBVIOUS
    <3> QED
      BY <1>2, <3>1, Zenon DEF Live
  <2>2. pos \in 1 .. Len(op[3]) + 2 /\ Len(op[3]) \in Nat
    BY <1>2, <2>1, ByteType, Zenon
  <2>3. ~(pos <= 2) /\ (pos - 3) + 1 = pos - 2 /\ (pos - 3) + 0 = (pos - 1) - 2
    BY <1>2, <2>2
  <2>4. Stored = pos - 3 + (IF Consumed THEN 1 ELSE 0)
    BY <2>1, <2>3, Zenon DEF Stored, Consumed
  <2>5. (Consumed => Taken = pos) /\ (~Consumed => Taken = pos - 1)
    BY <1>2, <2>1, TakenIs, Zenon
  <2>6. CASE Consumed
    BY <2>3, <2>4, <2>5, <2>6, Zenon
  <2>7. CASE ~Consumed
    BY <2>3, <2>4, <2>5, <2>7, Zenon
  <2> QED
    BY <2>6, <2>7
<1> QED
  BY <1>1, <1>2

\* Steps that take no byte store none.
LEMMA StoredKept ==
  ASSUME Regs, Regs', op # <<>>, op' = op, hit' = hit, Taken' = Taken,
         pos' = pos \/ (pos <= 2 /\ pos' <= 3 /\ (pos' = 3 => Taken' = 2))
                    \/ (pos > 2 /\ pos' > 2)
  PROVE  Stored' = Stored
<1>1. /\ (op = <<>> \/ pos <= 2 \/ op[1] = "read" \/ hit => Stored = 0)'
      /\ (Regs /\ Live /\ pos > 2 /\ op[1] = "write" => Stored = Taken - 2)'
  <2>1. /\ (/\ (op = <<>> \/ pos <= 2 \/ op[1] = "read" \/ hit => Stored = 0)
            /\ (Regs /\ Live /\ pos > 2 /\ op[1] = "write" => Stored = Taken - 2))'
    BY StoredIs, PTL
  <2> QED
    BY <2>1, Zenon
<1>2. op[1] \in {"read", "write"} /\ (op # <<>>)'
  BY ByteType, CallBytes, Zenon
<1>3. CASE op[1] = "read" \/ hit
  BY <1>1, <1>3, StoredIs, Zenon
<1>4. CASE op[1] = "write" /\ ~hit
  <2>1. Live /\ Live'
    BY <1>2, <1>4, Zenon DEF Live
  <2>2. pos \in Nat /\ pos' \in Nat
    <3>1. pos \in 1 .. Len(op[3]) + 2 /\ Len(op[3]) \in Nat
      BY ByteType, Zenon
    <3>2. (Regs /\ op # <<>> => pos \in 1 .. Len(op[3]) + 2 /\ Len(op[3]) \in Nat)'
      BY ByteType, PTL
    <3>3. pos' \in 1 .. Len(op'[3]) + 2 /\ Len(op'[3]) \in Nat
      BY <1>2, <3>2, Zenon
    <3> QED
      BY <3>1, <3>3
  <2>3. CASE pos > 2 /\ pos' > 2
    BY <1>1, <1>4, <2>1, <2>3, StoredIs, Zenon
  <2>4. CASE pos <= 2 /\ pos' <= 2
    BY <1>1, <2>4, StoredIs, Zenon
  <2>5. CASE pos <= 2 /\ pos' > 2
    <3>1. Taken' = 2 /\ pos' # pos
      BY <2>2, <2>5
    <3>2. Stored' = Taken' - 2 /\ Stored = 0
      BY <1>1, <1>4, <2>1, <2>5, StoredIs, Zenon
    <3> QED
      BY <3>1, <3>2
  <2>6. (pos > 2 /\ pos' > 2) \/ (pos <= 2 /\ pos' <= 2) \/ (pos <= 2 /\ pos' > 2)
    BY <2>2
  <2> QED
    BY <2>3, <2>4, <2>5, <2>6, Zenon
<1> QED
  BY <1>2, <1>3, <1>4, Zenon

\* A call is a request of EepromArray.
LEMMA CallsAreRequests == Calls \subseteq Array!Requests
<1> SUFFICES ASSUME NEW c \in Calls PROVE c \in Array!Requests
  OBVIOUS
<1>1. /\ c \in {"read", "write"} \X SpiByte \X Seq(SpiByte)
      /\ Len(c[3]) \in 1 .. MAX_LEN /\ c[2] + Len(c[3]) - 1 \in SpiByte
  BY Zenon DEF Calls
<1>2. /\ c = <<c[1], c[2], c[3]>> /\ c[1] \in {"read", "write"} /\ c[2] \in SpiByte
      /\ c[3] \in Seq(SpiByte)
  BY <1>1
<1>3. c[3] \in [1 .. Len(c[3]) -> SpiByte]
  <2> DEFINE s == c[3]
  <2>1. s \in Seq(SpiByte)
    BY <1>2
  <2> HIDE DEF s
  <2>2. s \in [1 .. Len(s) -> SpiByte]
    BY <2>1
  <2> QED
    BY <2>2 DEF s
<1>4. c[3] \in UNION {[1 .. n -> SpiByte] : n \in 1 .. MAX_LEN}
  BY <1>1, <1>3
<1> DEFINE Data1 == UNION {[1 .. n -> SpiByte] : n \in 1 .. MAX_LEN}
<1>5. c \in {"read", "write"} \X SpiByte \X Data1
  <2> HIDE DEF Data1
  <2>1. c[3] \in Data1
    BY <1>4 DEF Data1
  <2> QED
    BY <1>2, <2>1
<1> QED
  BY <1>1, <1>5, Zenon DEF Array!Requests

\* A rising edge stores the byte that it completes, if it is one of a write; what
\* it does in a call that was disturbed is between the two.
LEMMA RiseStores ==
  ASSUME SpiInv, Rise
  PROVE  [Array!Next]_(Array!vars)
<1>1. Regs /\ Regs' /\ StateInv /\ ReadInv /\ DriverInv
  BY RegsStep, Zenon DEF SpiInv, Next
<1>2. op # <<>> /\ op' = op /\ pos' = pos /\ hit' = hit /\ answer' = answer /\ sm_data
  BY <1>1, Zenon DEF Rise, driver_vars, reset_vars, DriverInv
<1>3. /\ (op = <<>> \/ pos <= 2 \/ op[1] = "read" \/ hit => Stored = 0)'
      /\ (Regs /\ Live /\ pos > 2 /\ op[1] = "write" => Stored = Taken - 2)'
  <2>1. /\ (/\ (op = <<>> \/ pos <= 2 \/ op[1] = "read" \/ hit => Stored = 0)
            /\ (Regs /\ Live /\ pos > 2 /\ op[1] = "write" => Stored = Taken - 2))'
    BY StoredIs, PTL
  <2> QED
    BY <2>1, Zenon
<1>4. CASE hit
  <2>1. Stored' = Stored
    BY <1>2, <1>3, <1>4, StoredIs, Zenon
  <2>2. mem' \in [SpiByte -> SpiByte]
    <3>1. (SpiTypeOK <=> Registers /\ Wires /\ Counters /\ Memory /\ Position)'
      BY TypesAre, PTL
    <3> QED
      BY <1>1, <3>1, Zenon DEF Regs, Memory
  <2>3. Array!Scramble
    BY <1>2, <1>4, <2>1, <2>2, Zenon DEF Array!Scramble
  <2> QED
    BY <2>3, Zenon DEF Array!Next
<1>5. CASE ~hit /\ sm_bit_cnt < BYTE_BITS - 1
  <2>1. Taken' = Taken /\ mem' = mem
    BY <1>5, RiseIs, Zenon
  <2>2. Stored' = Stored
    BY <1>1, <1>2, <2>1, StoredKept, Zenon
  <2> QED
    BY <1>2, <2>1, <2>2, Zenon DEF Array!vars
<1>6. CASE ~hit /\ ~(sm_bit_cnt < BYTE_BITS - 1)
  <2>1. sm_bit_cnt = BYTE_BITS - 1
    <3>1. sm_bit_cnt \in 0 .. BYTE_BITS - 1
      BY <1>1, TypesAre, Zenon DEF Regs, Counters
    <3> QED
      BY <1>6, <3>1, SpiAssumption
  <2>2. Live /\ LastBitOf(Byte) /\ Taken = pos - 1 /\ Taken' = pos
    BY <1>6, <2>1, RiseIs, Zenon
  <2>3. /\ op \in Calls /\ pos \in 1 .. Len(op[3]) + 2 /\ Len(op[3]) \in Nat
        /\ op[1] \in {"read", "write"} /\ op[2] \in SpiByte
        /\ \A i \in 1 .. Len(op[3]) : BytesOf(op)[i + 2] = op[3][i]
    BY <1>1, <1>2, ByteType, CallBytes, Zenon
  <2>4. CASE pos <= 2 \/ op[1] = "read"
    <3>1. Stored' = Stored
      BY <1>2, <1>3, <2>4, StoredIs, Zenon
    <3>2. state # "WRITE"
      <4>1. CASE pos = 1
        <5>1. Taken = 0
          BY <2>2, <4>1
        <5>2. state = "CMD"
          BY <1>1, <2>2, <5>1, Zenon DEF StateInv
        <5> QED
          BY <5>2
      <4>2. CASE pos = 2
        <5>1. Taken = 1
          BY <2>2, <4>2
        <5>2. state = "ADDR"
          BY <1>1, <2>2, <5>1, Zenon DEF StateInv
        <5> QED
          BY <5>2
      <4>3. CASE pos > 2 /\ op[1] = "read"
        <5>1. Taken >= 2
          BY <2>2, <2>3, <4>3
        <5>2. state = "READ"
          BY <2>2, <4>3, <5>1, ReadAddress, Zenon
        <5> QED
          BY <5>2
      <4>4. pos = 1 \/ pos = 2 \/ pos > 2
        BY <2>3
      <4>5. ~(pos <= 2 /\ pos > 2)
        BY <2>3
      <4> QED
        BY <2>4, <4>1, <4>2, <4>3, <4>4, <4>5, Zenon
    <3>3. mem' = mem
      BY <2>2, <3>2, Zenon DEF LastBitOf
    <3> QED
      BY <1>2, <3>1, <3>3, Zenon DEF Array!vars
  <2>5. CASE pos > 2 /\ op[1] = "write"
    <3> DEFINE a == op[2]
               len == Len(op[3])
    <3>1. Stored = pos - 3 /\ Stored' = pos - 2 /\ Stored' = Stored + 1
      <4>1. Stored = Taken - 2
        BY <1>1, <2>2, <2>5, StoredIs, Zenon
      <4>2. (Live /\ pos > 2)'
        BY <1>2, <2>2, <2>5, Zenon DEF Live
      <4>3. Stored' = Taken' - 2
        BY <1>1, <1>2, <1>3, <2>5, <4>2, Zenon
      <4> QED
        BY <2>2, <2>3, <4>1, <4>3
    <3>2. Taken >= 2 /\ Taken \in 2 .. len + 1 /\ len \in Nat
      BY <2>2, <2>3, <2>5
    <3>3. state = "WRITE" /\ addr_reg = a + Taken - 2
      BY <1>1, <2>2, <2>5, <3>2, Zenon DEF StateInv
    <3>4. mem' = [mem EXCEPT ![addr_reg] = Byte]
      BY <2>2, <3>3, Zenon DEF LastBitOf
    <3>5. /\ addr_reg = a + Stored /\ Stored < len /\ Stored + 1 \in 1 .. len
          /\ (Stored + 1) + 2 = pos
      <4>1. a \in Nat
        BY <2>3, ByteIsTwoHalves DEF SpiByte
      <4> HIDE DEF a, len
      <4>2. addr_reg = a + (pos - 1) - 2 /\ pos \in Int
        BY <2>2, <2>3, <3>3
      <4> QED
        BY <2>2, <3>1, <3>2, <4>1, <4>2
    <3>6. Byte = op[3][Stored + 1]
      BY <2>3, <3>5, Zenon DEF Byte
    <3>7. Array!Store
      BY <1>2, <1>6, <2>5, <3>1, <3>4, <3>5, <3>6, Zenon DEF Array!Store
    <3> QED
      BY <3>7, Zenon DEF Array!Next
  <2>6. (pos <= 2 \/ op[1] = "read") \/ (pos > 2 /\ op[1] = "write")
    <3>1. pos <= 2 \/ pos > 2
      BY <2>3
    <3> QED
      BY <2>3, <3>1, Zenon
  <2> QED
    BY <2>4, <2>5, <2>6, Zenon
<1> QED
  BY <1>4, <1>5, <1>6

\* A call that ends has stored all of a write, or read what is stored.
LEMMA ReturnFinishes ==
  ASSUME SpiInv, Return
  PROVE  [Array!Next]_(Array!vars)
<1>1. Regs /\ ReadInv /\ DriverInv
  BY Zenon DEF SpiInv
<1>2. /\ op # <<>> /\ op' = <<>> /\ ~hit' /\ mem' = mem /\ waiting /\ done_latched
      /\ pos = Len(BytesOf(op))
  BY <1>1, Zenon DEF Return, Deselected, DriverInv
<1>3. Stored' = 0
  BY <1>2, Zenon DEF Stored
<1>4. CASE hit
  <2>1. Stored = 0
    BY <1>4, StoredIs
  <2>2. Array!Abandon
    BY <1>2, <1>3, <1>4, <2>1, Zenon DEF Array!Abandon
  <2> QED
    BY <2>2, Zenon DEF Array!Next
<1>5. CASE ~hit
  <2>0. hit = FALSE /\ hit' = FALSE
    BY <1>1, <1>5, Zenon DEF Return, Regs, Flags
  <2>1. /\ op \in Calls /\ Len(BytesOf(op)) = Len(op[3]) + 2
        /\ Len(op[3]) \in 1 .. MAX_LEN /\ op[1] \in {"read", "write"}
    BY <1>1, <1>2, ByteType, CallBytes, Zenon
  <2>2. pos = Len(op[3]) + 2 /\ pos > 2 /\ pos - 2 = Len(op[3]) /\ Len(op[3]) \in Nat
    BY <1>2, <2>1, SpiAssumption
  <2>3. Live /\ Consumed
    BY <1>2, <1>5, Zenon DEF Live, Consumed
  <2>4. CASE op[1] = "write"
    <3>1. Taken = pos
      BY <1>1, <1>2, <2>3, TakenIs, Zenon
    <3>2. Stored = Len(op[3])
      BY <1>1, <2>2, <2>3, <2>4, <3>1, StoredIs, Zenon
    <3>3. answer' = answer
      <4>1. "write" # "read"
        OBVIOUS
      <4> QED
        BY <2>4, <4>1, Zenon DEF Return
    <3>4. hit' = hit
      BY <1>5, <2>0, Zenon
    <3>5. Array!Finish
      BY <1>2, <1>3, <1>5, <2>4, <3>2, <3>3, <3>4, Zenon DEF Array!Finish
    <3> QED
      BY <3>5, Zenon DEF Array!Next
  <2>5. CASE op[1] = "read"
    <3>1. ReadBit /\ ReadGot
      BY <1>1, <2>3, <2>5, ReadIs, Zenon
    <3>2. /\ Len(Received) = Len(op[3])
          /\ \A i \in 1 .. Len(Received) : Received[i] = mem[op[2] + i - 1]
      BY <1>1, <1>2, <2>2, <3>1, ReceivedIs, Zenon
    <3>3. Received \in Seq(SpiByte)
      <4>1. rx_data \in SpiByte /\ got \in Seq(SpiByte)
        BY <1>1, TypesAre, Zenon DEF Regs, Registers, GotInv
      <4>2. Append(got, rx_data) \in Seq(SpiByte)
        BY <4>1
      <4> QED
        BY <4>1, <4>2, Zenon DEF Received
    <3>4. Received = [i \in 1 .. Len(op[3]) |-> mem[op[2] + i - 1]]
      <4> DEFINE s == Received
                 len == Len(op[3])
                 cells == [i \in 1 .. len |-> mem[op[2] + i - 1]]
      <4>1. s \in Seq(SpiByte) /\ Len(s) = len
        BY <3>2, <3>3
      <4>2. \A i \in 1 .. len : s[i] = cells[i]
        BY <3>2, Zenon
      <4>3. DOMAIN cells = 1 .. len /\ cells = [i \in DOMAIN cells |-> cells[i]]
        BY Zenon
      <4> HIDE DEF s, len, cells
      <4>4. DOMAIN s = 1 .. len /\ s = [i \in DOMAIN s |-> s[i]]
        BY <4>1
      <4>5. s = cells
        BY <4>2, <4>3, <4>4
      <4> QED
        BY <4>5 DEF s, len, cells
    <3>5. answer' = Received /\ hit' = hit
      BY <1>5, <2>0, <2>5, Zenon DEF Return
    <3>6. Array!Finish
      BY <1>2, <1>3, <1>5, <2>5, <3>4, <3>5, Zenon DEF Array!Finish
    <3> QED
      BY <3>6, Zenon DEF Array!Next
  <2> QED
    BY <2>1, <2>4, <2>5, Zenon
<1> QED
  BY <1>4, <1>5

\* Every step is one of EepromArray or shows nothing of it.
LEMMA ArraySteps ==
  ASSUME SpiInv, [Next]_vars
  PROVE  [Array!Next]_(Array!vars)
<1>1. Regs /\ Regs' /\ DriverInv /\ ResetInv
  BY RegsStep, Zenon DEF SpiInv
<1>2. ASSUME op' = <<>> PROVE Stored' = 0
  BY <1>2, Zenon DEF Stored
<1>3. CASE Called
  <2>1. op = <<>> /\ op' \in Array!Requests /\ mem' = mem /\ answer' = <<>> /\ hit' = rst
    BY <1>3, CallsAreRequests, Zenon DEF Called, emulator_vars
  <2>2. rst \in BOOLEAN
    BY <1>1, Zenon DEF Regs, Flags
  <2>3. pos' <= 2
    BY <1>3 DEF Called
  <2>4. Stored' = 0
    BY <2>3, Zenon DEF Stored
  <2>5. Array!Begin
    BY <2>1, <2>2, <2>4, Zenon DEF Array!Begin
  <2> QED
    BY <2>5, Zenon DEF Array!Next
<1>4. CASE Transfer
  <2>1. op # <<>> /\ op' = op /\ Taken' = Taken
    BY <1>4, DriverTaken, Zenon
  <2>2. UNCHANGED <<pos, hit, answer, mem>>
    BY <1>4, Zenon DEF Transfer, emulator_vars, reset_vars
  <2>3. Stored' = Stored
    BY <1>1, <2>1, <2>2, StoredKept, Zenon
  <2> QED
    BY <2>1, <2>2, <2>3, Zenon DEF Array!vars
<1>5. CASE Rise
  BY <1>5, RiseStores
<1>6. CASE Fall
  <2>1. op # <<>> /\ UNCHANGED <<op, pos, hit, answer, mem>>
    BY <1>1, <1>6, Zenon DEF Fall, driver_vars, reset_vars, DriverInv
  <2>2. CASE hit
    BY <2>1, <2>2, Zenon DEF Stored, Array!vars
  <2>3. CASE ~hit
    <3>1. Stored' = Stored
      BY <1>1, <1>6, <2>1, <2>3, FallIs, StoredKept, Zenon
    <3> QED
      BY <2>1, <3>1, Zenon DEF Array!vars
  <2> QED
    BY <2>2, <2>3
<1>7. CASE NextByte
  <2>1. op # <<>> /\ op' = op /\ Taken' = Taken /\ Taken = pos
    BY <1>7, DriverTaken, Zenon
  <2>2. pos' = pos + 1 /\ UNCHANGED <<hit, answer, mem>>
    BY <1>7, Zenon DEF NextByte, emulator_vars, reset_vars
  <2>3. pos \in 1 .. Len(op[3]) + 2 /\ Len(op[3]) \in Nat
    BY <1>1, <2>1, ByteType, Zenon
  <2>4. \/ pos <= 2 /\ pos' <= 3 /\ (pos' = 3 => Taken' = 2)
        \/ pos > 2 /\ pos' > 2
    BY <2>1, <2>2, <2>3
  <2>5. Stored' = Stored
    BY <1>1, <2>1, <2>2, <2>4, StoredKept, Zenon
  <2> QED
    BY <2>1, <2>2, <2>5, Zenon DEF Array!vars
<1>8. CASE Return
  BY <1>8, ReturnFinishes
<1>9. CASE Crash
  <2>1. Array!Reset
    BY <1>2, <1>9, Zenon DEF Crash, Deselected, Array!Reset
  <2> QED
    BY <2>1, Zenon DEF Array!Next
<1>10. CASE EmulatorReset
  <2>1. UNCHANGED <<op, answer, mem>> /\ hit' = (op # <<>>)
    BY <1>10, Zenon DEF EmulatorReset, driver_vars
  <2>2. CASE op # <<>>
    <3>1. hit'
      BY <2>1, <2>2, Zenon
    <3>2. Stored' = 0
      BY <3>1, Zenon DEF Stored
    <3>3. Array!Disturb
      BY <2>1, <2>2, <3>1, <3>2, Zenon DEF Array!Disturb
    <3> QED
      BY <3>3, Zenon DEF Array!Next
  <2>3. CASE op = <<>>
    <3>1. Stored' = 0 /\ Stored = 0
      BY <2>1, <2>3, Zenon DEF Stored
    <3>2. hit' = hit
      <4>1. ~hit /\ ~hit' /\ hit \in BOOLEAN /\ hit' \in BOOLEAN
        BY <1>1, <2>1, <2>3, Zenon DEF ResetInv, Regs, Flags
      <4> QED
        BY <4>1, Zenon
    <3> QED
      BY <2>1, <3>1, <3>2, Zenon DEF Array!vars
  <2> QED
    BY <2>2, <2>3
<1>11. CASE EmulatorRelease
  <2>1. UNCHANGED <<op, pos, waiting, done_latched, sm_bit_cnt, sclk, hit, answer, mem>>
    BY <1>11, Zenon DEF EmulatorRelease, driver_vars, master_vars
  <2> QED
    BY <2>1, Zenon DEF Stored, Array!vars
<1>12. CASE UNCHANGED vars
  <2>1. UNCHANGED <<op, pos, waiting, done_latched, sm_bit_cnt, sclk, hit, answer, mem>>
    BY <1>12, Zenon DEF vars, driver_vars, master_vars, emulator_vars, reset_vars
  <2> QED
    BY <2>1, Zenon DEF Stored, Array!vars
<1> QED
  BY <1>3, <1>4, <1>5, <1>6, <1>7, <1>8, <1>9, <1>10, <1>11, <1>12, NextIs, Zenon

\* For every width of a byte, driver, master and memory board keep the promise of
\* EepromArray (EEPROM.c, spi_master.sv, spi_eeprom_emulator.v): a byte is stored
\* whole or not at all, at its address; a read returns what is stored; a reset
\* of the master at any edge of the clock changes nothing that was stored.
THEOREM SpiIsEepromArray == Spec => ImplementsArray
<1>1. Init => Array!Init
  <2> SUFFICES ASSUME Init PROVE Array!Init
    OBVIOUS
  <2>1. Stored = 0
    BY Zenon DEF Init, Stored
  <2> QED
    BY <2>1, Zenon DEF Init, Array!Init
<1>2. SpiInv /\ [Next]_vars => [Array!Next]_(Array!vars)
  BY ArraySteps
<1> QED
  BY <1>1, <1>2, SpiInvariance, PTL DEF Spec, ImplementsArray, Array!Spec
=============================================================================
