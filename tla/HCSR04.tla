------------------------------- MODULE HCSR04 -------------------------------
(***************************************************************************)
(* The distance sensor's controller (hcsr04.v), the register that keeps    *)
(* its result for the processor (hcsr04_v1_0_S00_AXI.v) and the driver's   *)
(* accesses to it (HAL/HCSR04).                                            *)
(*                                                                         *)
(* The sensor answers the end of a trigger pulse with an echo, whose       *)
(* length the controller counts in centimetres, or not at all.             *)
(***************************************************************************)
EXTENDS Naturals

CONSTANT Echoes   \* the lengths, in cm, that an echo may have

ASSUME EchoAssumption == Echoes \subseteq Nat

VARIABLES
  hc_state,
  done_latched, distance_latched,
  hc_owes,   \* the sensor has been triggered and its echo has not ended
  \* History variables: no action of the code reads them.
  hc_lost,   \* an echo has been lost since reset
  hc_echo    \* the length of the echo since the last Start: <<>> or <<cm>>

hc_vars == <<hc_state, done_latched, distance_latched, hc_owes, hc_lost, hc_echo>>

DISTANCE_RANGE == 512                     \* the counter has 9 bits

InitHcsr04 ==
  /\ hc_state = "IDLE"
  /\ done_latched = FALSE /\ distance_latched = 0
  /\ hc_owes = FALSE /\ hc_lost = FALSE /\ hc_echo = <<>>

-----------------------------------------------------------------------------
(* The driver.                                                             *)

\* The write of START_MASK clears the latch, and begins a trigger pulse
\* only when the controller is idle.
HCSR04_Start ==
  /\ done_latched' = FALSE
  /\ hc_state' = IF hc_state = "IDLE" THEN "STAR" ELSE hc_state
  /\ hc_echo' = <<>>
  /\ UNCHANGED <<distance_latched, hc_owes, hc_lost>>

HCSR04_ClearDone ==
  /\ done_latched' = FALSE
  /\ UNCHANGED <<hc_state, distance_latched, hc_owes, hc_lost, hc_echo>>

-----------------------------------------------------------------------------
(* The controller and the sensor.                                          *)

TriggerEnds ==
  /\ hc_state = "STAR"
  /\ hc_state' = "WAIT" /\ hc_owes' = TRUE
  /\ UNCHANGED <<done_latched, distance_latched, hc_lost, hc_echo>>

EchoRises ==
  /\ hc_state = "WAIT" /\ hc_owes
  /\ hc_state' = "REP"
  /\ UNCHANGED <<done_latched, distance_latched, hc_owes, hc_lost, hc_echo>>

\* SR04_DONE is high for one clock and the register takes it up at once.
EchoFalls_BackToWait(cm) ==
  /\ hc_state = "REP"
  /\ hc_state' = "WAIT"
  /\ done_latched' = TRUE /\ distance_latched' = cm % DISTANCE_RANGE
  /\ hc_owes' = FALSE /\ hc_echo' = <<cm>>
  /\ UNCHANGED hc_lost
EchoFalls(cm) ==
  /\ hc_state = "REP"
  /\ hc_state' = "IDLE"
  /\ done_latched' = TRUE /\ distance_latched' = cm % DISTANCE_RANGE
  /\ hc_owes' = FALSE /\ hc_echo' = <<cm>>
  /\ UNCHANGED hc_lost

\* No echo comes.  WAIT has no other way out: the controller stays there.
LoseEcho ==
  /\ hc_state = "WAIT" /\ hc_owes
  /\ hc_owes' = FALSE /\ hc_lost' = TRUE
  /\ UNCHANGED <<hc_state, done_latched, distance_latched, hc_echo>>

NextHcsr04 ==
  \/ TriggerEnds \/ EchoRises \/ LoseEcho
  \/ \E cm \in Echoes : EchoFalls(cm)

\* An echo has ended, or will never come.
HcSettled == hc_state \in {"IDLE", "WAIT"} /\ ~hc_owes
=============================================================================
