-------------------------- MODULE MCCircuitBreaker --------------------------
(***************************************************************************)
(* Instances of CircuitBreaker for TLC.  A tick is 30 seconds: an open     *)
(* circuit and the failure window last two ticks, the count of half-open   *)
(* successes one.                                                          *)
(***************************************************************************)
EXTENDS CircuitBreaker

ASSUME SuccessWindow < OpenDuration
=============================================================================
