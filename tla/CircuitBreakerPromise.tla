----------------------- MODULE CircuitBreakerPromise -----------------------
(***************************************************************************)
(* The circuit breaker the documentation describes: the state diagram of   *)
(* docs/sequence-diagrams/provider-failover.md and the header of           *)
(* circuit-breaker.service.ts.  It has no callers and no Redis: every      *)
(* change of state happens at once, with its reason.                       *)
(***************************************************************************)
EXTENDS Naturals

CONSTANTS
    FailureThreshold,  \* failures in the window that open the circuit
    SuccessThreshold,  \* successive successes that close it again
    OpenDuration       \* how long an open circuit fails fast, in ticks

VARIABLES
    state,      \* CLOSED, OPEN or HALF_OPEN
    failures,   \* failures counted in the current window; 0 unless CLOSED
    successes,  \* successes of the current probing; 0 unless HALF_OPEN
    openFor     \* ticks since the circuit last opened

vars == <<state, failures, successes, openFor>>

Init ==
    /\ state = "CLOSED"
    /\ failures = 0
    /\ successes = 0
    /\ openFor = OpenDuration

CountFailure ==
    /\ state = "CLOSED"
    /\ failures' = failures + 1
    /\ UNCHANGED <<state, successes, openFor>>

\* CLOSED --> OPEN: 5 failures in 60s window
Trip ==
    /\ state = "CLOSED"
    /\ failures >= FailureThreshold
    /\ state' = "OPEN"
    /\ failures' = 0
    /\ openFor' = 0
    /\ UNCHANGED successes

\* OPEN --> HALF_OPEN: 60s elapsed
Probe ==
    /\ state = "OPEN"
    /\ openFor >= OpenDuration
    /\ state' = "HALF_OPEN"
    /\ UNCHANGED <<failures, successes, openFor>>

CountSuccess ==
    /\ state = "HALF_OPEN"
    /\ successes' = successes + 1
    /\ UNCHANGED <<state, failures, openFor>>

\* HALF_OPEN --> CLOSED: 2 successive successes
Close ==
    /\ state = "HALF_OPEN"
    /\ successes >= SuccessThreshold
    /\ state' = "CLOSED"
    /\ successes' = 0
    /\ UNCHANGED <<failures, openFor>>

\* HALF_OPEN --> OPEN: Any failure
Reopen ==
    /\ state = "HALF_OPEN"
    /\ state' = "OPEN"
    /\ successes' = 0
    /\ openFor' = 0
    /\ UNCHANGED failures

\* A window ends, or a success clears the count.
ForgetFailures == failures' = 0 /\ UNCHANGED <<state, successes, openFor>>
ForgetSuccesses == successes' = 0 /\ UNCHANGED <<state, failures, openFor>>

\* Time passes, and the windows that end with it are forgotten.
Tick ==
    /\ openFor' \in {openFor, openFor + 1}
    /\ failures' \in {0, failures}
    /\ successes' \in {0, successes}
    /\ UNCHANGED state

Next ==
    \/ CountFailure \/ Trip \/ Probe \/ CountSuccess \/ Close \/ Reopen
    \/ ForgetFailures \/ ForgetSuccesses \/ Tick

Spec == Init /\ [][Next]_vars
=============================================================================
