----------------------------- MODULE EepromArray -----------------------------
(***************************************************************************)
(* What the EEPROM promises to the warning log: requests are served one    *)
(* at a time; a write stores its bytes one by one, each of them whole, in  *)
(* the order of their addresses; a read returns what is stored; a reset    *)
(* may end a request between two bytes.  A request during which the memory *)
(* board itself was reset promises nothing.                                *)
(***************************************************************************)
EXTENDS Naturals, Sequences

CONSTANTS Address, Cell, MaxLen, Initial

VARIABLES
  mem,
  request,  \* <<>>, or <<kind, address, bytes>>: for a read, zeroes
  stored,   \* how many bytes of a write are stored
  answer,   \* what the last request returned, if it was a read
  disturbed \* the memory board was reset during this request

vars == <<mem, request, stored, answer, disturbed>>

Init == /\ mem = Initial /\ request = <<>> /\ stored = 0 /\ answer = <<>>
        /\ disturbed = FALSE

\* Up to MaxLen bytes, none of them beyond the last address.
Requests ==
  {r \in {"read", "write"} \X Address \X UNION {[1 .. n -> Cell] : n \in 1 .. MaxLen} :
     r[2] + Len(r[3]) - 1 \in Address}

Begin ==
  /\ request = <<>> /\ request' \in Requests
  /\ stored' = 0 /\ disturbed' \in BOOLEAN /\ answer' = <<>>
  /\ UNCHANGED mem

Store ==
  /\ ~disturbed
  /\ request # <<>> /\ request[1] = "write" /\ stored < Len(request[3])
  /\ mem' = [mem EXCEPT ![request[2] + stored] = request[3][stored + 1]]
  /\ stored' = stored + 1
  /\ UNCHANGED <<request, answer, disturbed>>

Finish ==
  /\ request # <<>> /\ ~disturbed
  /\ \/ request[1] = "write" /\ stored = Len(request[3]) /\ UNCHANGED answer
     \/ /\ request[1] = "read"
        /\ answer' = [i \in 1 .. Len(request[3]) |-> mem[request[2] + i - 1]]
  /\ request' = <<>> /\ stored' = 0
  /\ UNCHANGED <<mem, disturbed>>

Reset ==
  /\ request # <<>> /\ request' = <<>> /\ stored' = 0 /\ disturbed' = FALSE
  /\ UNCHANGED <<mem, answer>>

\* The memory board is reset; until the request is over, its cells and the
\* answer are anything.
Disturb ==
  /\ request # <<>> /\ disturbed' /\ stored' = 0
  /\ UNCHANGED <<mem, request, answer>>

Scramble ==
  /\ disturbed /\ disturbed' /\ mem' \in [Address -> Cell]
  /\ UNCHANGED <<request, stored, answer>>

Abandon ==
  /\ disturbed /\ ~disturbed' /\ request' = <<>>
  /\ UNCHANGED <<mem, stored>>

Next == Begin \/ Store \/ Finish \/ Reset \/ Disturb \/ Scramble \/ Abandon

Spec == Init /\ [][Next]_vars
=============================================================================
