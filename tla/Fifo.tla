------------------------------- MODULE Fifo --------------------------------
(***************************************************************************)
(* The FIFO between the time controller's UART and its commands and        *)
(* reports (rtl/fifo_module.v): a register file with two pointers that     *)
(* wrap by their width, and two flags that tell full from empty when the   *)
(* pointers meet.  push and pop may come on the same clock.                *)
(***************************************************************************)
EXTENDS Naturals, Sequences

CONSTANTS
  DEPTH,   \* a power of two in every instance: a pointer wraps by itself
  Char     \* the items

\* What an instance has to assume of its depth.
DepthOK == DEPTH \in Nat /\ DEPTH > 1

VARIABLE fifo

Place == 0 .. DEPTH - 1

Fifos == [mem : [Place -> Char], wptr : Place, rptr : Place,
          full : BOOLEAN, empty : BOOLEAN]

\* The pointers' addition.
Succ(p) == IF p = DEPTH - 1 THEN 0 ELSE p + 1

-----------------------------------------------------------------------------
Pushed(f) == [f EXCEPT !.wptr = Succ(@), !.empty = FALSE,
                       !.full = (Succ(f.wptr) = f.rptr)]

\* The flag is not raised when the pointers meet.
Popped_NeverEmpty(f) == [f EXCEPT !.rptr = Succ(@), !.full = FALSE]
Popped(f) == [f EXCEPT !.rptr = Succ(@), !.full = FALSE,
                       !.empty = (Succ(f.rptr) = f.wptr)]

\* control_unit: the pointers and flags after a clock.
Control(f, push, pop) ==
  CASE push /\ ~pop /\ ~f.full  -> Pushed(f)
    [] pop /\ ~push /\ ~f.empty -> Popped(f)
    [] push /\ pop /\ f.full    -> [f EXCEPT !.rptr = Succ(@), !.full = FALSE]
    [] push /\ pop /\ f.empty /\ ~f.full ->
         [f EXCEPT !.wptr = Succ(@), !.empty = FALSE]
    [] push /\ pop /\ ~f.empty /\ ~f.full ->
         [f EXCEPT !.wptr = Succ(@), !.rptr = Succ(@)]
    [] OTHER -> f

\* The item at the head, whether or not there is one.
PopData == fifo.mem[fifo.rptr]

Clock(push, pop, data) ==
  fifo' = [Control(fifo, push, pop) EXCEPT
             !.mem = IF push /\ ~fifo.full THEN [@ EXCEPT ![fifo.wptr] = data]
                                           ELSE @]

Fresh(mem) == [mem |-> mem, wptr |-> 0, rptr |-> 0, full |-> FALSE, empty |-> TRUE]

\* The register file is not reset.
Reset == fifo' = Fresh(fifo.mem)

-----------------------------------------------------------------------------
(* What it holds, oldest first.                                            *)

Count ==
  CASE fifo.full -> DEPTH
    [] fifo.empty /\ ~fifo.full -> 0
    [] ~fifo.empty /\ ~fifo.full ->
         IF fifo.rptr <= fifo.wptr THEN fifo.wptr - fifo.rptr
                                   ELSE DEPTH + fifo.wptr - fifo.rptr

\* The place of the i-th item.
PlaceOf(i) == IF fifo.rptr + i <= DEPTH THEN fifo.rptr + i - 1
                                        ELSE fifo.rptr + i - 1 - DEPTH

Contents == [i \in 1 .. Count |-> fifo.mem[PlaceOf(i)]]

\* What a FIFO of DEPTH items promises of a clock: the oldest item may be taken
\* and a new one added; one added to a full queue is dropped, even when another
\* is taken on the same clock.
QueueAfter(queue, push, pop, data) ==
  LET left == IF pop /\ queue # <<>> THEN Tail(queue) ELSE queue
  IN  IF push /\ Len(queue) < DEPTH THEN Append(left, data) ELSE left

\* The pointers meet exactly when the FIFO is full or empty, which the flags
\* tell apart.
FifoInv ==
  /\ fifo \in Fifos
  /\ fifo.full => ~fifo.empty
  /\ fifo.wptr = fifo.rptr <=> fifo.full \/ fifo.empty
=============================================================================
