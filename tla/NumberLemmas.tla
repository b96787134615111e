---------------------------- MODULE NumberLemmas ----------------------------
(***************************************************************************)
(* What the proofs need of numbers and the library does not state: powers  *)
(* of two, induction and recursion over an index, and remainders.          *)
(***************************************************************************)
EXTENDS Integers, FiniteSets, FiniteSetTheorems, WellFoundedInduction, TLAPS

-----------------------------------------------------------------------------
(* Powers of two.                                                          *)

\* The library has the powers of two as the numbers of subsets.
LEMMA PowerIsPositive ==
  ASSUME NEW n \in Nat
  PROVE  /\ 2 ^ n \in Nat \ {0}
         /\ IsFiniteSet(SUBSET (1 .. n)) /\ Cardinality(SUBSET (1 .. n)) = 2 ^ n
<1> DEFINE S == 1 .. n
<1>1. IsFiniteSet(S) /\ Cardinality(S) = n
  BY FS_Interval
<1>2. IsFiniteSet(SUBSET S) /\ Cardinality(SUBSET S) = 2 ^ n
  <2> HIDE DEF S
  <2> QED
    BY <1>1, FS_SUBSET
<1>3. Cardinality(SUBSET S) \in Nat
  <2> HIDE DEF S
  <2> QED
    BY <1>2, FS_CardinalityType
<1>4. Cardinality(SUBSET S) # 0
  <2>1. SUBSET S # {}
    OBVIOUS
  <2> HIDE DEF S
  <2> QED
    BY <1>2, <2>1, FS_EmptySet
<1> QED
  BY <1>2, <1>3, <1>4

\* Half of the subsets of 1 .. n + 1 have n + 1 in them.
LEMMA PowerDoubles ==
  ASSUME NEW n \in Nat
  PROVE  2 ^ (n + 1) = 2 * 2 ^ n
<1> DEFINE S == SUBSET (1 .. n)
           x == n + 1
           T == {s \cup {x} : s \in S}
           f == [s \in S |-> s \cup {x}]
<1>1. IsFiniteSet(S) /\ Cardinality(S) = 2 ^ n /\ 2 ^ n \in Nat
  BY PowerIsPositive
<1>2. Cardinality(SUBSET (1 .. x)) = 2 ^ x
  <2>1. x \in Nat
    OBVIOUS
  <2> HIDE DEF x
  <2> QED
    BY <2>1, PowerIsPositive
<1>3. \A s \in S : x \notin s
  OBVIOUS
<1>4. f \in Bijection(S, T)
  <2>1. f \in [S -> T]
    OBVIOUS
  <2>2. \A a, b \in S : f[a] = f[b] => a = b
    BY <1>3
  <2>3. \A t \in T : \E s \in S : f[s] = t
    OBVIOUS
  <2> HIDE DEF S, T, f
  <2> QED
    BY <2>1, <2>2, <2>3 DEF Bijection, Injection, Surjection, IsInjective
<1>5. IsFiniteSet(T) /\ Cardinality(T) = 2 ^ n
  <2> HIDE DEF S, T, f
  <2>1. ExistsBijection(S, T)
    BY <1>4 DEF ExistsBijection
  <2> QED
    BY <1>1, <2>1, FS_Bijection
<1>6. S \cap T = {}
  BY <1>3
<1>7. S \cup T = SUBSET (1 .. x)
  <2>1. ASSUME NEW s \in SUBSET (1 .. x)
        PROVE  s \in S \cup T
    <3>1. 1 .. x = (1 .. n) \cup {x}
      OBVIOUS
    <3>2. CASE x \in s
      <4>1. s \ {x} \in S /\ s = (s \ {x}) \cup {x}
        BY <3>1, <3>2
      <4> QED
        BY <4>1
    <3>3. CASE x \notin s
      BY <3>1, <3>3
    <3> QED
      BY <3>2, <3>3
  <2>2. \A s \in S : s \in SUBSET (1 .. x) /\ s \cup {x} \in SUBSET (1 .. x)
    OBVIOUS
  <2>3. ASSUME NEW t \in T PROVE t \in SUBSET (1 .. x)
    <3>1. PICK s \in S : t = s \cup {x}
      BY Zenon
    <3> QED
      BY <2>2, <3>1, Zenon
  <2>4. \A s \in S : s \in SUBSET (1 .. x)
    BY <2>2, Zenon
  <2> HIDE DEF S, T
  <2>5. SUBSET (1 .. x) \subseteq S \cup T
    BY <2>1, Zenon
  <2>6. S \cup T \subseteq SUBSET (1 .. x)
    BY <2>3, <2>4, Zenon
  <2> QED
    BY <2>5, <2>6, Zenon
<1>8. Cardinality(S \cup T) = Cardinality(S) + Cardinality(T) - 0
  <2> HIDE DEF S, T
  <2> QED
    BY <1>1, <1>5, <1>6, FS_Union, FS_EmptySet
<1>9. 2 ^ (n + 1) = Cardinality(S \cup T)
  <2> HIDE DEF S, T
  <2> QED
    BY <1>2, <1>7, Zenon
<1>10. 2 ^ (n + 1) = 2 ^ n + 2 ^ n
  <2> HIDE DEF S, T
  <2> QED
    BY <1>1, <1>5, <1>8, <1>9
<1> QED
  BY <1>1, <1>10

\* Two to the nought is one.
LEMMA PowerOfZero == 2 ^ 0 = 1
<1>1. Cardinality(SUBSET (1 .. 0)) = 2 ^ 0
  <2>1. 0 \in Nat
    OBVIOUS
  <2> QED
    BY <2>1, PowerIsPositive, Zenon
<1>2. 1 .. 0 = {}
  OBVIOUS
<1>3. SUBSET (1 .. 0) = {{}}
  BY <1>2
<1>4. Cardinality({{}}) = 1
  BY FS_Singleton, Zenon
<1> QED
  BY <1>1, <1>3, <1>4, Zenon

-----------------------------------------------------------------------------
(* Induction.                                                              *)

\* Every set of numbers that is not empty has a least one.  An interval is a
\* strict subset of every longer one, and strict inclusion between finite
\* sets is well founded.
LEMMA LeastNumber ==
  ASSUME NEW X, X \subseteq Nat, X # {}
  PROVE  \E m \in X : \A k \in X : m <= k
<1> DEFINE T == {1 .. n : n \in X}
<1>1. IsWellFoundedOn(StrictSubsetOrdering(Nat), FiniteSubsetsOf(Nat))
  BY FS_StrictSubsetOrderingWellFounded
<1>2. T \subseteq FiniteSubsetsOf(Nat)
  <2> SUFFICES ASSUME NEW n \in X PROVE 1 .. n \in FiniteSubsetsOf(Nat)
    BY Zenon
  <2>1. n \in Nat
    OBVIOUS
  <2>2. IsFiniteSet(1 .. n)
    BY <2>1, FS_Interval
  <2>3. 1 .. n \subseteq Nat
    BY <2>1
  <2> QED
    BY <2>2, <2>3, Zenon DEF FiniteSubsetsOf
<1>3. T # {}
  BY Zenon
<1>4. PICK t \in T : \A u \in T : ~(<<u, t>> \in StrictSubsetOrdering(Nat))
  <2> HIDE DEF T
  <2> QED
    BY <1>1, <1>2, <1>3, WFMin
<1>5. PICK m \in X : t = 1 .. m
  BY Zenon
<1>6. ASSUME NEW k \in X, ~(m <= k)
      PROVE  FALSE
  <2>1. m \in Nat /\ k \in Nat /\ k < m
    BY <1>6
  <2>2. 1 .. k \subseteq 1 .. m /\ 1 .. k # 1 .. m
    <3>1. m \in 1 .. m /\ m \notin 1 .. k
      BY <2>1
    <3> QED
      BY <2>1, <3>1
  <2>3. 1 .. k \subseteq Nat /\ 1 .. m \subseteq Nat
    BY <2>1
  <2>4. <<1 .. k, 1 .. m>> \in StrictSubsetOrdering(Nat)
    BY <2>2, <2>3, Zenon DEF StrictSubsetOrdering
  <2>5. 1 .. k \in T
    BY Zenon
  <2> QED
    BY <1>4, <1>5, <2>4, <2>5, Zenon
<1> QED
  BY <1>6

\* Induction: a set that has 0, and the successor of each of its numbers,
\* has them all.
LEMMA NumbersFromZero ==
  ASSUME NEW X, 0 \in X, \A n \in Nat : n \in X => n + 1 \in X
  PROVE  Nat \subseteq X
<1> DEFINE Y == Nat \ X
<1> SUFFICES ASSUME Y # {} PROVE FALSE
  BY Zenon
<1>1. Y \subseteq Nat
  OBVIOUS
<1>2. PICK m \in Y : \A k \in Y : m <= k
  <2> HIDE DEF Y
  <2> QED
    BY <1>1, LeastNumber
<1>3. m \in Nat /\ m \notin X
  BY Zenon
<1>4. m # 0
  BY <1>3, Zenon
<1>5. m - 1 \in Nat /\ (m - 1) + 1 = m
  BY <1>3, <1>4
<1>6. m - 1 \in X
  <2>1. m - 1 \notin Y
    <3> HIDE DEF Y
    <3> QED
      BY <1>2, <1>3, <1>5
  <2> QED
    BY <1>5, <2>1, Zenon
<1> QED
  BY <1>3, <1>5, <1>6

\* Recursion: what starts with a number and goes on by a function G has a value
\* at every index up to N.
LEMMA RecursionExists ==
  \A N \in Nat : \A a \in Int : \A G \in [Int \X (1 .. N) -> Int] :
    \E f \in [0 .. N -> Int] :
      f[0] = a /\ \A i \in 1 .. N : f[i] = G[<<f[i - 1], i>>]
<1> SUFFICES ASSUME NEW N \in Nat, NEW a \in Int, NEW G \in [Int \X (1 .. N) -> Int]
             PROVE  \E f \in [0 .. N -> Int] :
                      f[0] = a /\ \A i \in 1 .. N : f[i] = G[<<f[i - 1], i>>]
  OBVIOUS
<1> DEFINE Upto(n, f) == f[0] = a /\ \A i \in 1 .. n : f[i] = G[<<f[i - 1], i>>]
           X == {n \in Nat : n <= N => \E f \in [0 .. n -> Int] : Upto(n, f)}
<1>1. 0 \in X
  <2> DEFINE f == [i \in 0 .. 0 |-> a]
  <2>1. f \in [0 .. 0 -> Int] /\ Upto(0, f)
    OBVIOUS
  <2> QED
    BY <2>1
<1>2. ASSUME NEW n \in Nat, n \in X PROVE n + 1 \in X
  <2> SUFFICES ASSUME n + 1 <= N PROVE \E f \in [0 .. n + 1 -> Int] : Upto(n + 1, f)
    OBVIOUS
  <2>1. PICK f \in [0 .. n -> Int] : Upto(n, f)
    BY <1>2
  <2> DEFINE next == G[<<f[n], n + 1>>]
             h == [i \in 0 .. n + 1 |-> IF i = n + 1 THEN next ELSE f[i]]
  <2>2. n + 1 \in 1 .. N /\ f[n] \in Int
    OBVIOUS
  <2>3. next \in Int
    BY <2>2
  <2>4. h \in [0 .. n + 1 -> Int]
    BY <2>3
  <2>5. h[0] = a
    BY <2>1
  <2>6. ASSUME NEW i \in 1 .. n + 1 PROVE h[i] = G[<<h[i - 1], i>>]
    <3>1. h[i - 1] = f[i - 1]
      OBVIOUS
    <3>2. CASE i = n + 1
      <4>1. h[i] = next /\ i - 1 = n
        BY <3>2
      <4> HIDE DEF h
      <4> QED
        BY <3>1, <3>2, <4>1, Zenon
    <3>3. CASE i # n + 1
      <4>1. i \in 1 .. n /\ h[i] = f[i]
        BY <3>3
      <4> HIDE DEF h
      <4> QED
        BY <2>1, <3>1, <4>1, Zenon
    <3> QED
      BY <3>2, <3>3
  <2> HIDE DEF h
  <2> QED
    BY <2>4, <2>5, <2>6
<1>3. N \in X
  <2> HIDE DEF X
  <2> QED
    BY <1>1, <1>2, NumbersFromZero
<1> QED
  BY <1>3

-----------------------------------------------------------------------------
(* Remainders.                                                             *)

\* Division has one remainder.
LEMMA RemainderUnique ==
  \A x \in Int : \A T \in Nat \ {0} : \A q \in Int : \A r \in 0 .. T - 1 :
    x = q * T + r => x % T = r
<1> SUFFICES ASSUME NEW x \in Int, NEW T \in Nat \ {0}, NEW q \in Int,
                    NEW r \in 0 .. T - 1, x = q * T + r
             PROVE  x % T = r
  OBVIOUS
<1> DEFINE p == x \div T
           m == x % T
<1>1. p \in Int /\ m \in 0 .. T - 1 /\ x = T * p + m
  OBVIOUS
<1> HIDE DEF p, m
<1> DEFINE d == q - p
<1>2. d \in Int /\ q = p + d
  BY <1>1
<1>3. q * T = p * T + d * T
  <2> HIDE DEF d
  <2> QED
    BY <1>1, <1>2
<1>4. d * T = m - r
  BY <1>1, <1>3
<1> HIDE DEF d
<1>5. d \in {0} \/ d >= 1 \/ d <= -1
  BY <1>2
<1>6. d >= 1 => d * T >= T
  BY <1>2
<1>7. d <= -1 => d * T <= -T
  BY <1>2
<1>8. d = 0 => d * T = 0
  BY <1>2
<1>9. d * T = 0
  <2> DEFINE e == d * T
  <2>1. e \in Int
    BY <1>2
  <2> HIDE DEF e
  <2>2. e = m - r /\ (d >= 1 => e >= T) /\ (d <= -1 => e <= -T) /\ (d = 0 => e = 0)
    BY <1>4, <1>6, <1>7, <1>8 DEF e
  <2> QED
    BY <1>1, <1>5, <2>1, <2>2 DEF e
<1>10. m = r
  BY <1>1, <1>4, <1>9
<1> QED
  BY <1>10 DEF m

\* A turn more or less is the same time.
LEMMA TurnsDoNotShow ==
  \A x \in Int : \A T \in Nat \ {0} :
    /\ (x + T) % T = x % T
    /\ (x - T) % T = x % T
<1> SUFFICES ASSUME NEW x \in Int, NEW T \in Nat \ {0}
             PROVE  (x + T) % T = x % T /\ (x - T) % T = x % T
  OBVIOUS
<1> DEFINE p == x \div T
           m == x % T
<1>1. p \in Int /\ m \in 0 .. T - 1 /\ x = p * T + m
  OBVIOUS
<1> HIDE DEF p, m
<1>2. x + T = (p + 1) * T + m /\ x - T = (p - 1) * T + m
  BY <1>1
<1>3. p + 1 \in Int /\ p - 1 \in Int /\ x + T \in Int /\ x - T \in Int
  BY <1>1
<1>4. (x + T) % T = m
  BY <1>1, <1>2, <1>3, RemainderUnique, Zenon
<1>5. (x - T) % T = m
  BY <1>1, <1>2, <1>3, RemainderUnique, Zenon
<1> QED
  BY <1>4, <1>5 DEF m

\* Adding before or after the turns are taken off is the same.
LEMMA AddThenTurn ==
  \A x \in Int : \A d \in Int : \A T \in Nat \ {0} :
    ((x % T) + d) % T = (x + d) % T
<1> SUFFICES ASSUME NEW x \in Int, NEW d \in Int, NEW T \in Nat \ {0}
             PROVE  ((x % T) + d) % T = (x + d) % T
  OBVIOUS
<1> DEFINE p == x \div T
           m == x % T
<1>1. p \in Int /\ m \in Int /\ x = p * T + m
  OBVIOUS
<1> HIDE DEF p, m
<1> DEFINE y == m + d
           q == y \div T
           r == y % T
<1>2. y \in Int
  BY <1>1
<1> HIDE DEF y
<1>3. q \in Int /\ r \in 0 .. T - 1 /\ y = q * T + r
  BY <1>2
<1> HIDE DEF q, r
<1>4. x + d = (p + q) * T + r
  <2>1. (p + q) * T = p * T + q * T
    BY <1>1, <1>3
  <2>2. x + d = p * T + y
    BY <1>1 DEF y
  <2> QED
    BY <1>1, <1>3, <2>1, <2>2
<1>5. p + q \in Int /\ x + d \in Int
  BY <1>1, <1>3
<1>6. (x + d) % T = r
  BY <1>3, <1>4, <1>5, RemainderUnique, Zenon
<1> QED
  BY <1>6 DEF r, y, m

\* A number is its quotient times the divisor, and the remainder.
LEMMA Division ==
  \A x \in Int : \A T \in Nat \ {0} :
    x \div T \in Int /\ x % T \in 0 .. T - 1 /\ x = (x \div T) * T + (x % T)
OBVIOUS

\* Division has one quotient.
LEMMA QuotientUnique ==
  \A x \in Int : \A T \in Nat \ {0} : \A q \in Int : \A r \in 0 .. T - 1 :
    x = q * T + r => x \div T = q
<1> SUFFICES ASSUME NEW x \in Int, NEW T \in Nat \ {0}, NEW q \in Int,
                    NEW r \in 0 .. T - 1, x = q * T + r
             PROVE  x \div T = q
  OBVIOUS
<1> DEFINE p == x \div T
           d == q - p
<1>1. x % T = r
  BY RemainderUnique, Zenon
<1>2. p \in Int /\ x = p * T + (x % T)
  BY Division, Zenon
<1> HIDE DEF p
<1>3. d \in Int /\ q = p + d
  BY <1>2
<1> HIDE DEF d
<1>4. q * T = p * T + d * T
  BY <1>2, <1>3
<1>5. p * T \in Int /\ q * T \in Int /\ d * T \in Int
  BY <1>2, <1>3
<1>6. d * T = 0
  <2> DEFINE a == q * T
             b == p * T
             c == d * T
  <2>1. x = a + r /\ x = b + r /\ a = b + c /\ a \in Int /\ b \in Int /\ c \in Int
    BY <1>1, <1>2, <1>4, <1>5, Zenon
  <2> HIDE DEF a, b, c
  <2>2. c = 0
    BY <2>1
  <2> QED
    BY <2>2 DEF c
<1>7. d >= 1 => d * T >= T
  BY <1>3
<1>8. d <= -1 => d * T <= 0 - T
  BY <1>3
<1>9. d = 0
  <2> DEFINE c == d * T
  <2>1. c = 0 /\ (d >= 1 => c >= T) /\ (d <= -1 => c <= 0 - T)
    BY <1>6, <1>7, <1>8
  <2> HIDE DEF c
  <2> QED
    BY <1>3, <2>1
<1> QED
  BY <1>2, <1>3, <1>9 DEF p

\* Two numbers less than T apart have the same remainder only if they are
\* the same.
LEMMA NearbyRemaindersDiffer ==
  \A T \in Nat \ {0} : \A x \in Int : \A y \in Int :
    x # y /\ x - y < T /\ y - x < T => x % T # y % T
<1> SUFFICES ASSUME NEW T \in Nat \ {0}, NEW x \in Int, NEW y \in Int,
                    x - y < T, y - x < T, x % T = y % T
             PROVE  x = y
  OBVIOUS
<1> DEFINE p == x \div T
           q == y \div T
           m == x % T
           d == p - q
<1>1. p \in Int /\ q \in Int /\ m \in 0 .. T - 1 /\ x = p * T + m
  OBVIOUS
<1>2. y = q * T + m
  OBVIOUS
<1> HIDE DEF p, q, m
<1>3. d \in Int /\ p = q + d
  BY <1>1
<1> HIDE DEF d
<1>4. p * T = q * T + d * T
  BY <1>1, <1>3
<1>5. d >= 1 => d * T >= T
  BY <1>3
<1>6. d <= -1 => d * T <= 0 - T
  BY <1>3
<1>7. d = 0 => d * T = 0
  BY <1>3
<1> DEFINE a == p * T
           b == q * T
           c == d * T
<1>8. /\ x = a + m /\ y = b + m /\ a = b + c
      /\ a \in Int /\ b \in Int /\ c \in Int
      /\ d >= 1 => c >= T
      /\ d <= -1 => c <= 0 - T
      /\ d = 0 => c = 0
  BY <1>1, <1>2, <1>3, <1>4, <1>5, <1>6, <1>7
<1> HIDE DEF a, b, c
<1> QED
  BY <1>1, <1>3, <1>8

\* Half of a quotient, and the bit under it.
LEMMA HalfOfQuotient ==
  \A x \in Nat : \A P \in Nat \ {0} :
    x \div P = 2 * (x \div (2 * P)) + ((x \div P) % 2)
<1> SUFFICES ASSUME NEW x \in Nat, NEW P \in Nat \ {0}
             PROVE  x \div P = 2 * (x \div (2 * P)) + ((x \div P) % 2)
  OBVIOUS
<1> DEFINE y == x \div P
           m == x % P
           h == y \div 2
           b == y % 2
           T == 2 * P
           r == P * b + m
<1>1. y \in Int /\ m \in 0 .. P - 1 /\ x = P * y + m
  OBVIOUS
<1> HIDE DEF y, m
<1>2. h \in Int /\ b \in 0 .. 1 /\ y = 2 * h + b
  BY <1>1
<1> HIDE DEF h, b
<1>3. r \in 0 .. T - 1
  <2>1. CASE b = 0
    <3>1. P * b = 0
      BY <2>1
    <3> QED
      BY <1>1, <3>1
  <2>2. CASE b = 1
    <3>1. P * b = P
      BY <2>2
    <3> QED
      BY <1>1, <3>1
  <2> QED
    BY <1>2, <2>1, <2>2
<1>4. x = h * T + r
  <2>1. P * y = P * (2 * h) + P * b
    BY <1>2
  <2>2. P * (2 * h) = h * T
    BY <1>2
  <2>3. P * b \in Int /\ h * T \in Int /\ P * y \in Int
    BY <1>1, <1>2
  <2> DEFINE a == P * y
             c == P * b
             d == h * T
  <2>4. a = d + c /\ a \in Int /\ c \in Int /\ d \in Int /\ x = a + m /\ r = c + m
    BY <1>1, <2>1, <2>2, <2>3, Zenon
  <2> HIDE DEF a, c, d, r, T
  <2>5. x = d + r
    BY <1>1, <2>4
  <2> QED
    BY <2>5 DEF d
<1>5. T \in Nat \ {0}
  OBVIOUS
<1>6. x \div T = h
  <2> HIDE DEF T, r
  <2> QED
    BY <1>2, <1>3, <1>4, <1>5, QuotientUnique
<1>7. 2 * P = T
  OBVIOUS
<1>8. y = 2 * (x \div T) + (y % 2)
  BY <1>2, <1>6, Zenon DEF b
<1> QED
  BY <1>8, Zenon DEF y
=============================================================================
