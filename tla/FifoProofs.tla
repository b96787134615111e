----------------------------- MODULE FifoProofs ----------------------------
(* A clock of the FIFO is a step of a queue of DEPTH items.                *)
EXTENDS Fifo, TLAPS

\* Whether an item goes in, or the oldest one out, on a clock.
Writes(push) == push /\ ~fifo.full
Takes(pop)   == pop /\ ~fifo.empty

\* The next place of the ring is a place and another one.
LEMMA SuccType ==
  ASSUME DepthOK, NEW p \in Place
  PROVE  Succ(p) \in Place /\ Succ(p) # p
BY DEF DepthOK, Place, Succ

\* What the cases of control_unit come to: each pointer moves by itself, and
\* the flags change only when one of them does and the other does not.
LEMMA ClockFields ==
  ASSUME DepthOK, FifoInv,
         NEW push \in BOOLEAN, NEW pop \in BOOLEAN, NEW data \in Char,
         Clock(push, pop, data)
  PROVE  /\ fifo' \in Fifos
         /\ fifo'.wptr = IF Writes(push) THEN Succ(fifo.wptr) ELSE fifo.wptr
         /\ fifo'.rptr = IF Takes(pop) THEN Succ(fifo.rptr) ELSE fifo.rptr
         /\ fifo'.mem = IF Writes(push) THEN [fifo.mem EXCEPT ![fifo.wptr] = data]
                                        ELSE fifo.mem
         /\ fifo'.full = IF Writes(push) /\ ~Takes(pop) THEN Succ(fifo.wptr) = fifo.rptr
                         ELSE IF Takes(pop) /\ ~Writes(push) THEN FALSE ELSE fifo.full
         /\ fifo'.empty = IF Takes(pop) /\ ~Writes(push) THEN Succ(fifo.rptr) = fifo.wptr
                          ELSE IF Writes(push) /\ ~Takes(pop) THEN FALSE ELSE fifo.empty
<1> DEFINE g == Control(fifo, push, pop)
<1>1. fifo \in Fifos /\ fifo.wptr \in Place /\ fifo.rptr \in Place
      /\ fifo.full \in BOOLEAN /\ fifo.empty \in BOOLEAN
      /\ fifo.mem \in [Place -> Char]
  BY DEF FifoInv, Fifos
<1>2. /\ Succ(fifo.wptr) \in Place /\ Succ(fifo.wptr) # fifo.wptr
      /\ Succ(fifo.rptr) \in Place /\ Succ(fifo.rptr) # fifo.rptr
  BY <1>1, SuccType
<1>3. /\ g \in Fifos
      /\ g.wptr = IF Writes(push) THEN Succ(fifo.wptr) ELSE fifo.wptr
      /\ g.rptr = IF Takes(pop) THEN Succ(fifo.rptr) ELSE fifo.rptr
      /\ g.mem = fifo.mem
      /\ g.full = IF Writes(push) /\ ~Takes(pop) THEN Succ(fifo.wptr) = fifo.rptr
                  ELSE IF Takes(pop) /\ ~Writes(push) THEN FALSE ELSE fifo.full
      /\ g.empty = IF Takes(pop) /\ ~Writes(push) THEN Succ(fifo.rptr) = fifo.wptr
                   ELSE IF Writes(push) /\ ~Takes(pop) THEN FALSE ELSE fifo.empty
  <2>1. CASE push /\ ~pop /\ ~fifo.full
    <3>1. g = Pushed(fifo)
      BY <2>1 DEF Control
    <3> QED
      BY <1>1, <1>2, <2>1, <3>1 DEF Pushed, Writes, Takes, Fifos
  <2>2. CASE pop /\ ~push /\ ~fifo.empty
    <3>1. g = Popped(fifo)
      BY <2>2 DEF Control
    <3> QED
      BY <1>1, <1>2, <2>2, <3>1 DEF Popped, Writes, Takes, Fifos
  <2>3. CASE push /\ pop /\ fifo.full
    <3>1. g = [fifo EXCEPT !.rptr = Succ(@), !.full = FALSE]
      BY <2>3 DEF Control
    <3> QED
      BY <1>1, <1>2, <2>3, <3>1 DEF Writes, Takes, Fifos, FifoInv
  <2>4. CASE push /\ pop /\ fifo.empty /\ ~fifo.full
    <3>1. g = [fifo EXCEPT !.wptr = Succ(@), !.empty = FALSE]
      BY <2>4 DEF Control
    <3> QED
      BY <1>1, <1>2, <2>4, <3>1 DEF Writes, Takes, Fifos, FifoInv
  <2>5. CASE push /\ pop /\ ~fifo.empty /\ ~fifo.full
    <3>1. g = [fifo EXCEPT !.wptr = Succ(@), !.rptr = Succ(@)]
      BY <2>5 DEF Control
    <3> QED
      BY <1>1, <1>2, <2>5, <3>1 DEF Writes, Takes, Fifos
  <2>6. CASE /\ ~(push /\ ~pop /\ ~fifo.full)
             /\ ~(pop /\ ~push /\ ~fifo.empty)
             /\ ~(push /\ pop)
    <3>1. g = fifo
      BY <2>6 DEF Control
    <3> QED
      BY <1>1, <2>6, <3>1 DEF Writes, Takes
  <2> QED
    BY <1>1, <2>1, <2>2, <2>3, <2>4, <2>5, <2>6
<1> HIDE DEF g
<1>4. fifo' = [g EXCEPT !.mem = IF Writes(push) THEN [@ EXCEPT ![fifo.wptr] = data]
                                                ELSE @]
  BY DEF Clock, Writes, g
<1>5. (IF Writes(push) THEN [g.mem EXCEPT ![fifo.wptr] = data] ELSE g.mem)
        \in [Place -> Char]
  BY <1>1, <1>3
<1> QED
  BY <1>3, <1>4, <1>5 DEF Fifos

\* Count follows the pointers, and the item that goes in is put where the queue
\* ends, which is the place of no item that is in it.
LEMMA CountAndPlaces ==
  ASSUME DepthOK, FifoInv
  PROVE  /\ Count \in 0 .. DEPTH
         /\ \A i \in 1 .. Count : PlaceOf(i) \in Place
         /\ Count = DEPTH <=> fifo.full
         /\ Count = 0 <=> fifo.empty
         /\ ~fifo.full => /\ PlaceOf(Count + 1) = fifo.wptr
                          /\ \A i \in 1 .. Count : PlaceOf(i) # fifo.wptr
<1>1. /\ fifo.wptr \in Place /\ fifo.rptr \in Place
      /\ fifo.full \in BOOLEAN /\ fifo.empty \in BOOLEAN
  BY DEF FifoInv, Fifos
<1>2. CASE fifo.full
  <2>1. Count = DEPTH /\ ~fifo.empty
    BY <1>2 DEF Count, FifoInv
  <2> QED
    BY <1>1, <1>2, <2>1 DEF DepthOK, Place, PlaceOf
<1>3. CASE fifo.empty /\ ~fifo.full
  <2>1. Count = 0 /\ fifo.wptr = fifo.rptr
    BY <1>1, <1>3 DEF Count, FifoInv
  <2> QED
    BY <1>1, <1>3, <2>1 DEF DepthOK, Place, PlaceOf
<1>4. CASE ~fifo.empty /\ ~fifo.full
  <2>1. /\ Count = IF fifo.rptr <= fifo.wptr THEN fifo.wptr - fifo.rptr
                                             ELSE DEPTH + fifo.wptr - fifo.rptr
        /\ fifo.wptr # fifo.rptr
    BY <1>1, <1>4 DEF Count, FifoInv
  <2> QED
    BY <1>1, <1>4, <2>1 DEF DepthOK, Place, PlaceOf
<1> QED
  BY <1>1, <1>2, <1>3, <1>4

\* What the flags and the output say of the queue.
LEMMA FlagsTell ==
  ASSUME DepthOK, FifoInv
  PROVE  /\ Contents \in Seq(Char) /\ Len(Contents) = Count
         /\ Len(Contents) \in 0 .. DEPTH
         /\ fifo.empty <=> Contents = <<>>
         /\ fifo.full <=> Len(Contents) = DEPTH
         /\ Contents # <<>> => PopData = Contents[1]
<1> DEFINE n == Count
           q == Contents
<1>1. /\ n \in 0 .. DEPTH /\ \A i \in 1 .. n : PlaceOf(i) \in Place
      /\ n = DEPTH <=> fifo.full
      /\ n = 0 <=> fifo.empty
  BY CountAndPlaces
<1>2. /\ fifo.mem \in [Place -> Char] /\ fifo.rptr \in Place
      /\ fifo.full \in BOOLEAN /\ fifo.empty \in BOOLEAN
  BY DEF FifoInv, Fifos
<1>3. q = [i \in 1 .. n |-> fifo.mem[PlaceOf(i)]]
  BY DEF Contents
<1>4. DEPTH \in Nat /\ \A i \in 1 .. n : fifo.mem[PlaceOf(i)] \in Char
  BY <1>1, <1>2 DEF DepthOK
<1>5. n # 0 => q[1] = PopData
  <2>1. PlaceOf(1) = fifo.rptr
    BY <1>2 DEF PlaceOf, Place, DepthOK
  <2> QED
    BY <1>1, <1>3, <1>4, <2>1 DEF PopData
<1> HIDE DEF n, q
<1>6. q \in Seq(Char) /\ Len(q) = n /\ (q = <<>> <=> n = 0)
  <2>1. q \in Seq(Char) /\ Len(q) = n
    BY <1>1, <1>3, <1>4
  <2> QED
    BY <1>1, <2>1
<1> QED
  BY <1>1, <1>2, <1>4, <1>5, <1>6 DEF n, q

\* The invariant is inductive, and the number of items counts what went in and
\* out.
LEMMA ClockInvariant ==
  ASSUME DepthOK, FifoInv,
         NEW push \in BOOLEAN, NEW pop \in BOOLEAN, NEW data \in Char,
         Clock(push, pop, data)
  PROVE  /\ FifoInv'
         /\ Count' = Count + (IF Writes(push) THEN 1 ELSE 0)
                           - (IF Takes(pop) THEN 1 ELSE 0)
<1> DEFINE w == fifo.wptr
           r == fifo.rptr
           full == fifo.full
           empty == fifo.empty
           into == Writes(push)
           out  == Takes(pop)
<1>1. /\ w \in Place /\ r \in Place /\ full \in BOOLEAN /\ empty \in BOOLEAN
      /\ into \in BOOLEAN /\ out \in BOOLEAN
      /\ into => ~full
      /\ out => ~empty
      /\ full => ~empty
      /\ w = r <=> full \/ empty
  BY DEF FifoInv, Fifos, Writes, Takes
<1>2. /\ fifo' \in Fifos
      /\ w' = IF into THEN Succ(w) ELSE w
      /\ r' = IF out THEN Succ(r) ELSE r
      /\ full' = IF into /\ ~out THEN Succ(w) = r
                 ELSE IF out /\ ~into THEN FALSE ELSE full
      /\ empty' = IF out /\ ~into THEN Succ(r) = w
                  ELSE IF into /\ ~out THEN FALSE ELSE empty
  BY ClockFields
<1>3. /\ Count = IF full THEN DEPTH ELSE IF empty THEN 0
                 ELSE IF r <= w THEN w - r ELSE DEPTH + w - r
      /\ Count' = IF full' THEN DEPTH ELSE IF empty' THEN 0
                  ELSE IF r' <= w' THEN w' - r' ELSE DEPTH + w' - r'
  BY DEF Count
<1> HIDE DEF w, r, full, empty, into, out
<1>4. /\ full' => ~empty'
      /\ w' = r' <=> full' \/ empty'
  BY <1>1, <1>2 DEF DepthOK, Place, Succ
<1>5. FifoInv'
  BY <1>2, <1>4 DEF FifoInv, w, r, full, empty
<1>6. Count' = Count + (IF into THEN 1 ELSE 0) - (IF out THEN 1 ELSE 0)
  BY <1>1, <1>2, <1>3 DEF DepthOK, Place, Succ
<1> QED
  BY <1>5, <1>6 DEF into, out

\* The i-th item after a clock is the one after it before, if the oldest was
\* taken, and the last is the one that went in.
LEMMA ItemsMove ==
  ASSUME DepthOK, FifoInv,
         NEW push \in BOOLEAN, NEW pop \in BOOLEAN, NEW data \in Char,
         Clock(push, pop, data), NEW i \in 1 .. Count'
  PROVE  LET j == IF Takes(pop) THEN i + 1 ELSE i
         IN  fifo'.mem[PlaceOf(i)'] =
               IF j <= Count THEN fifo.mem[PlaceOf(j)] ELSE data
<1> DEFINE j == IF Takes(pop) THEN i + 1 ELSE i
<1>1. /\ Count' = Count + (IF Writes(push) THEN 1 ELSE 0)
                        - (IF Takes(pop) THEN 1 ELSE 0)
      /\ Count \in 0 .. DEPTH
  BY ClockInvariant, CountAndPlaces
<1>2. fifo.rptr \in Place /\ fifo.wptr \in Place /\ fifo.mem \in [Place -> Char]
  BY DEF FifoInv, Fifos
<1>3. j \in 1 .. Count + 1 /\ (j = Count + 1 => Writes(push))
  BY <1>1
<1>4. fifo'.rptr = IF Takes(pop) THEN Succ(fifo.rptr) ELSE fifo.rptr
  BY ClockFields
<1>5. Writes(push) => Count < DEPTH
  <2>1. fifo.full \in BOOLEAN
    BY DEF FifoInv, Fifos
  <2>2. ~fifo.full => Count # DEPTH
    BY <2>1, CountAndPlaces
  <2> QED
    BY <1>1, <2>2 DEF DepthOK, Writes
<1>6. PlaceOf(i)' = PlaceOf(j)
  <2>1. PlaceOf(i)' = IF fifo'.rptr + i <= DEPTH THEN fifo'.rptr + i - 1
                                                 ELSE fifo'.rptr + i - 1 - DEPTH
    BY DEF PlaceOf
  <2> QED
    BY <1>1, <1>2, <1>3, <1>4, <1>5, <2>1 DEF DepthOK, PlaceOf, Place, Succ
<1>7. fifo'.mem = IF Writes(push) THEN [fifo.mem EXCEPT ![fifo.wptr] = data]
                                  ELSE fifo.mem
  BY ClockFields
<1>8. CASE j <= Count
  <2>1. PlaceOf(j) \in Place /\ (~fifo.full => PlaceOf(j) # fifo.wptr)
    BY <1>1, <1>3, <1>8, CountAndPlaces
  <2>2. fifo'.mem[PlaceOf(j)] = fifo.mem[PlaceOf(j)]
    BY <1>2, <1>7, <2>1 DEF Writes
  <2> QED
    BY <1>6, <1>8, <2>2
<1>9. CASE ~(j <= Count)
  <2>1. j = Count + 1 /\ Writes(push)
    BY <1>1, <1>3, <1>9
  <2>2. PlaceOf(j) = fifo.wptr
    BY <2>1, CountAndPlaces DEF Writes
  <2>3. fifo'.mem[fifo.wptr] = data
    BY <1>2, <1>7, <2>1
  <2> QED
    BY <1>6, <1>9, <2>2, <2>3
<1> QED
  BY <1>8, <1>9

\* What goes in comes out once, in order: on every clock the FIFO does what a
\* queue of DEPTH items does, whatever comes together and wherever its pointers
\* stand.
THEOREM FifoIsQueue ==
  ASSUME DepthOK, FifoInv,
         NEW push \in BOOLEAN, NEW pop \in BOOLEAN, NEW data \in Char,
         Clock(push, pop, data)
  PROVE  /\ FifoInv'
         /\ Contents' = QueueAfter(Contents, push, pop, data)
<1> DEFINE q == Contents
           left == IF pop /\ q # <<>> THEN Tail(q) ELSE q
<1>1. /\ Count \in 0 .. DEPTH
      /\ Count = DEPTH <=> fifo.full
      /\ Count = 0 <=> fifo.empty
      /\ \A i \in 1 .. Count : PlaceOf(i) \in Place
  BY CountAndPlaces
<1>2. fifo.mem \in [Place -> Char]
  BY DEF FifoInv, Fifos
<1>3. /\ q \in Seq(Char) /\ Len(q) = Count
      /\ \A i \in 1 .. Count : q[i] = fifo.mem[PlaceOf(i)]
  BY <1>1, <1>2 DEF DepthOK, Contents
<1>4. /\ Takes(pop) <=> pop /\ q # <<>>
      /\ Writes(push) <=> push /\ Len(q) < DEPTH
      /\ Takes(pop) => Count # 0
  BY <1>1, <1>3 DEF DepthOK, Takes, Writes
<1>5. Count' = Count + (IF Writes(push) THEN 1 ELSE 0) - (IF Takes(pop) THEN 1 ELSE 0)
  BY ClockInvariant
<1> HIDE DEF q
<1>6. /\ left \in Seq(Char)
      /\ Len(left) = Count - (IF Takes(pop) THEN 1 ELSE 0)
      /\ \A i \in 1 .. Len(left) :
           left[i] = q[IF Takes(pop) THEN i + 1 ELSE i]
  <2>1. CASE Takes(pop)
    <3>1. left = Tail(q) /\ q # <<>>
      BY <1>4, <2>1
    <3> HIDE DEF left
    <3>2. /\ Tail(q) \in Seq(Char) /\ Len(Tail(q)) = Len(q) - 1
          /\ \A i \in 1 .. Len(q) - 1 : Tail(q)[i] = q[i + 1]
      BY <1>3, <3>1
    <3> QED
      BY <1>3, <2>1, <3>1, <3>2
  <2>2. CASE ~Takes(pop)
    <3>1. left = q
      BY <1>4, <2>2
    <3> HIDE DEF left
    <3> QED
      BY <1>1, <1>3, <2>2, <3>1
  <2> QED
    BY <2>1, <2>2
<1> HIDE DEF left
<1> DEFINE next == IF push /\ Len(q) < DEPTH THEN Append(left, data) ELSE left
<1>7. /\ next \in Seq(Char) /\ Len(next) = Count'
      /\ \A i \in 1 .. Count' :
           next[i] = IF i <= Len(left) THEN left[i] ELSE data
  <2>1. CASE Writes(push)
    <3>1. next = Append(left, data)
      BY <1>4, <2>1
    <3> HIDE DEF next
    <3>2. /\ Append(left, data) \in Seq(Char)
          /\ Len(Append(left, data)) = Len(left) + 1
          /\ \A i \in 1 .. Len(left) : Append(left, data)[i] = left[i]
          /\ Append(left, data)[Len(left) + 1] = data
      BY <1>6
    <3>3. Len(left) \in Nat /\ Count' = Len(left) + 1
      BY <1>1, <1>5, <1>6, <2>1
    <3> QED
      BY <3>1, <3>2, <3>3
  <2>2. CASE ~Writes(push)
    <3>1. next = left
      BY <1>4, <2>2
    <3> HIDE DEF next
    <3>2. Len(left) = Count'
      BY <1>1, <1>5, <1>6, <2>2
    <3> QED
      BY <1>6, <3>1, <3>2
  <2> QED
    BY <2>1, <2>2
<1> HIDE DEF next
<1>8. Contents' = [i \in 1 .. Count' |-> fifo'.mem[PlaceOf(i)']]
  BY DEF Contents
<1>9. ASSUME NEW i \in 1 .. Count'
      PROVE  fifo'.mem[PlaceOf(i)'] = next[i]
  <2> DEFINE j == IF Takes(pop) THEN i + 1 ELSE i
  <2>1. fifo'.mem[PlaceOf(i)'] = IF j <= Count THEN fifo.mem[PlaceOf(j)] ELSE data
    BY ItemsMove
  <2>2. i \in Nat /\ i >= 1 /\ i <= Count' /\ Count' \in Nat
    BY <1>1, <1>5
  <2>3. CASE j <= Count
    <3>1. i <= Len(left) /\ j \in 1 .. Count
      BY <1>1, <1>6, <2>2, <2>3
    <3>2. next[i] = left[i]
      BY <1>7, <2>2, <3>1
    <3>3. left[i] = q[j]
      BY <1>6, <2>2, <3>1
    <3>4. q[j] = fifo.mem[PlaceOf(j)]
      BY <1>3, <3>1
    <3> QED
      BY <2>1, <2>3, <3>2, <3>3, <3>4
  <2>4. CASE ~(j <= Count)
    <3>1. ~(i <= Len(left))
      BY <1>1, <1>6, <2>2, <2>4
    <3>2. next[i] = data
      BY <1>7, <3>1
    <3> QED
      BY <2>1, <2>4, <3>2
  <2> QED
    BY <2>3, <2>4
<1>10. next = [i \in 1 .. Count' |-> next[i]]
  BY <1>7
<1>11. Contents' = next
  BY <1>8, <1>9, <1>10
<1>12. Contents' = QueueAfter(Contents, push, pop, data)
  BY <1>11 DEF QueueAfter, next, left, q
<1> QED
  BY <1>12, ClockInvariant
=============================================================================
