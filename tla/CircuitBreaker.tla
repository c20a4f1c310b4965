--------------------------- MODULE CircuitBreaker ---------------------------
(***************************************************************************)
(* CircuitBreakerService for one provider: its keys in Redis, its row in   *)
(* provider_health, and the calls of DeliveryService.tryProvider (and of   *)
(* OtpCodeDeliveryService) that read and change them from several workers  *)
(* and replicas.  One step per Redis or PostgreSQL command, as each is     *)
(* awaited.  The Prometheus gauge and the log are left out.                *)
(***************************************************************************)
EXTENDS Naturals

CONSTANTS
    Callers,           \* concurrent executions of tryProvider
    FailureThreshold,  \* DEFAULT_CONFIG.failureThreshold
    SuccessThreshold,  \* DEFAULT_CONFIG.successThreshold
    OpenDuration,      \* openDurationMs, in ticks
    FailureWindow,     \* TTL of cb:{provider}:failures, in ticks
    SuccessWindow,     \* TTL of cb:{provider}:half_open_successes, in ticks
    MaxCrashes         \* bound on calls that end before their last step

ASSUME CircuitBreakerAssumption ==
    /\ FailureThreshold \in Nat \ {0}
    /\ SuccessThreshold \in Nat \ {0}
    /\ OpenDuration \in Nat \ {0}
    /\ FailureWindow \in Nat \ {0}
    /\ SuccessWindow \in Nat \ {0}
    /\ MaxCrashes \in Nat

VARIABLES
    state,        \* cb:{provider}:state, absent meaning CLOSED
    failures, failuresTtl,    \* cb:{provider}:failures
    successes, successesTtl,  \* cb:{provider}:half_open_successes
    lastAttempt,  \* ticks since cb:{provider}:last_attempt was written; the
                  \* count stops at OpenDuration, where an absent key starts
    health,       \* provider_health.circuitState
    pc, target, then,  \* callers: next step, transition asked for, what follows
    openedFor,    \* ticks since state was last set to OPEN (history)
    crashes       \* calls cut short so far

redis  == <<state, failures, failuresTtl, successes, successesTtl, lastAttempt>>
caller == <<pc, target, then>>
vars   == <<redis, health, caller, openedFor, crashes>>

CircuitState == {"CLOSED", "OPEN", "HALF_OPEN"}

CallerPc ==
    {"idle", "checkElapsed", "send", "success", "incSuccesses", "delSuccesses", "delFailures",
     "failure", "incFailures", "getState", "setState", "setLastAttempt", "upsertHealth"}

TypeOK ==
    /\ state        \in CircuitState
    /\ failures     \in Nat
    /\ failuresTtl  \in 0..FailureWindow
    /\ successes    \in Nat
    /\ successesTtl \in 0..SuccessWindow
    /\ lastAttempt  \in 0..OpenDuration
    /\ health       \in CircuitState
    /\ pc           \in [Callers -> CallerPc]
    /\ target       \in [Callers -> CircuitState]
    /\ then         \in [Callers -> {"idle", "send", "delSuccesses"}]
    /\ openedFor    \in 0..OpenDuration
    /\ crashes      \in 0..MaxCrashes

Init ==
    /\ state = "CLOSED"
    /\ failures = 0 /\ failuresTtl = 0
    /\ successes = 0 /\ successesTtl = 0
    /\ lastAttempt = OpenDuration
    /\ health = "CLOSED"
    /\ pc = [c \in Callers |-> "idle"]
    /\ target = [c \in Callers |-> "CLOSED"]
    /\ then = [c \in Callers |-> "idle"]
    /\ openedFor = OpenDuration
    /\ crashes = 0

GoTo(c, step) ==
    /\ pc' = [pc EXCEPT ![c] = step]
    /\ UNCHANGED <<target, then>>

\* The call transitionTo(newState), continuing at step `after`.
CallTransitionTo(c, newState, after) ==
    /\ pc' = [pc EXCEPT ![c] = "getState"]
    /\ target' = [target EXCEPT ![c] = newState]
    /\ then' = [then EXCEPT ![c] = after]

-----------------------------------------------------------------------------
(***************************************************************************)
(* allowRequest, the provider's answer, recordSuccess and recordFailure.   *)
(***************************************************************************)

\* CLOSED and HALF_OPEN let every request through.
AllowRequest(c) ==
    /\ pc[c] = "idle"
    /\ GoTo(c, IF state = "OPEN" THEN "checkElapsed" ELSE "send")
    /\ UNCHANGED <<redis, health, openedFor, crashes>>

\* Plausible slip: a refused request also counts as the last attempt.
CheckElapsed_Touches(c) ==
    /\ pc[c] = "checkElapsed"
    /\ \/ /\ lastAttempt < OpenDuration
          /\ lastAttempt' = 0
          /\ GoTo(c, "idle")
       \/ /\ lastAttempt >= OpenDuration
          /\ CallTransitionTo(c, "HALF_OPEN", "send")
          /\ UNCHANGED lastAttempt
    /\ UNCHANGED <<state, failures, failuresTtl, successes, successesTtl, health,
                   openedFor, crashes>>

\* An open circuit refuses until openDurationMs have passed.
CheckElapsed(c) ==
    /\ pc[c] = "checkElapsed"
    /\ \/ /\ lastAttempt < OpenDuration
          /\ GoTo(c, "idle")
       \/ /\ lastAttempt >= OpenDuration
          /\ CallTransitionTo(c, "HALF_OPEN", "send")
    /\ UNCHANGED <<redis, health, openedFor, crashes>>

ProviderAnswers(c) ==
    /\ pc[c] = "send"
    /\ \E answer \in {"success", "failure"} : GoTo(c, answer)
    /\ UNCHANGED <<redis, health, openedFor, crashes>>

RecordSuccess(c) ==
    /\ pc[c] = "success"
    /\ GoTo(c, IF state = "HALF_OPEN" THEN "incSuccesses" ELSE "delFailures")
    /\ UNCHANGED <<redis, health, openedFor, crashes>>

\* Plausible slip: the probes counted are not cleared once the circuit closes.
IncSuccesses_NotCleared(c) ==
    /\ pc[c] = "incSuccesses"
    /\ successes' = successes + 1
    /\ successesTtl' = IF successesTtl = 0 THEN SuccessWindow ELSE successesTtl
    /\ IF successes + 1 >= SuccessThreshold
         THEN CallTransitionTo(c, "CLOSED", "delFailures")
         ELSE GoTo(c, "delFailures")
    /\ UNCHANGED <<state, failures, failuresTtl, lastAttempt, health, openedFor,
                   crashes>>

\* INCR and EXPIRE NX in one pipeline: the first increment starts the window.
IncSuccesses(c) ==
    /\ pc[c] = "incSuccesses"
    /\ successes' = successes + 1
    /\ successesTtl' = IF successesTtl = 0 THEN SuccessWindow ELSE successesTtl
    /\ IF successes + 1 >= SuccessThreshold
         THEN CallTransitionTo(c, "CLOSED", "delSuccesses")
         ELSE GoTo(c, "delFailures")
    /\ UNCHANGED <<state, failures, failuresTtl, lastAttempt, health, openedFor,
                   crashes>>

DelSuccesses(c) ==
    /\ pc[c] = "delSuccesses"
    /\ successes' = 0 /\ successesTtl' = 0
    /\ GoTo(c, "delFailures")
    /\ UNCHANGED <<state, failures, failuresTtl, lastAttempt, health, openedFor,
                   crashes>>

DelFailures(c) ==
    /\ pc[c] = "delFailures"
    /\ failures' = 0 /\ failuresTtl' = 0
    /\ GoTo(c, "idle")
    /\ UNCHANGED <<state, successes, successesTtl, lastAttempt, health,
                   openedFor, crashes>>

RecordFailure(c) ==
    /\ pc[c] = "failure"
    /\ \/ state = "HALF_OPEN" /\ CallTransitionTo(c, "OPEN", "idle")
       \/ state = "OPEN" /\ GoTo(c, "idle")
       \/ state = "CLOSED" /\ GoTo(c, "incFailures")
    /\ UNCHANGED <<redis, health, openedFor, crashes>>

\* Plausible slip: the circuit opens one failure late.
IncFailures_OffByOne(c) ==
    /\ pc[c] = "incFailures"
    /\ failures' = failures + 1
    /\ failuresTtl' = IF failuresTtl = 0 THEN FailureWindow ELSE failuresTtl
    /\ IF failures >= FailureThreshold
         THEN CallTransitionTo(c, "OPEN", "idle")
         ELSE GoTo(c, "idle")
    /\ UNCHANGED <<state, successes, successesTtl, lastAttempt, health,
                   openedFor, crashes>>

IncFailures(c) ==
    /\ pc[c] = "incFailures"
    /\ failures' = failures + 1
    /\ failuresTtl' = IF failuresTtl = 0 THEN FailureWindow ELSE failuresTtl
    /\ IF failures + 1 >= FailureThreshold
         THEN CallTransitionTo(c, "OPEN", "idle")
         ELSE GoTo(c, "idle")
    /\ UNCHANGED <<state, successes, successesTtl, lastAttempt, health,
                   openedFor, crashes>>

-----------------------------------------------------------------------------
(***************************************************************************)
(* transitionTo: read the state, write it, write the time, persist it.     *)
(***************************************************************************)
TransitionGetState(c) ==
    /\ pc[c] = "getState"
    /\ GoTo(c, IF state = target[c] THEN then[c] ELSE "setState")
    /\ UNCHANGED <<redis, health, openedFor, crashes>>

SetState(c) ==
    /\ pc[c] = "setState"
    /\ state' = target[c]
    /\ openedFor' = IF target[c] = "OPEN" THEN 0 ELSE openedFor
    /\ GoTo(c, "setLastAttempt")
    /\ UNCHANGED <<failures, failuresTtl, successes, successesTtl, lastAttempt, health,
                   crashes>>

\* Plausible slip: the time of the transition is not written.
SetLastAttempt_Skipped(c) ==
    /\ pc[c] = "setLastAttempt"
    /\ GoTo(c, "upsertHealth")
    /\ UNCHANGED <<redis, health, openedFor, crashes>>

SetLastAttempt(c) ==
    /\ pc[c] = "setLastAttempt"
    /\ lastAttempt' = 0
    /\ GoTo(c, "upsertHealth")
    /\ UNCHANGED <<state, failures, failuresTtl, successes, successesTtl, health,
                   openedFor, crashes>>

\* Plausible slip: only OPEN and CLOSED are persisted.
UpsertHealth_SkipsHalfOpen(c) ==
    /\ pc[c] = "upsertHealth"
    /\ health' = IF target[c] = "HALF_OPEN" THEN health ELSE target[c]
    /\ GoTo(c, then[c])
    /\ UNCHANGED <<redis, openedFor, crashes>>

UpsertHealth(c) ==
    /\ pc[c] = "upsertHealth"
    /\ health' = target[c]
    /\ GoTo(c, then[c])
    /\ UNCHANGED <<redis, openedFor, crashes>>

-----------------------------------------------------------------------------
\* A command throws or the process dies: the rest of the call never happens.
CallCutShort(c) ==
    /\ pc[c] # "idle"
    /\ crashes < MaxCrashes
    /\ crashes' = crashes + 1
    /\ GoTo(c, "idle")
    /\ UNCHANGED <<redis, health, openedFor>>

\* A tick of the clock; a key whose TTL runs out is gone.
Tick ==
    /\ lastAttempt' = IF lastAttempt < OpenDuration THEN lastAttempt + 1 ELSE lastAttempt
    /\ failuresTtl' = IF failuresTtl > 0 THEN failuresTtl - 1 ELSE 0
    /\ failures' = IF failuresTtl = 1 THEN 0 ELSE failures
    /\ successesTtl' = IF successesTtl > 0 THEN successesTtl - 1 ELSE 0
    /\ successes' = IF successesTtl = 1 THEN 0 ELSE successes
    /\ openedFor' = IF openedFor < OpenDuration THEN openedFor + 1 ELSE openedFor
    /\ UNCHANGED <<state, health, caller, crashes>>

TryProvider(c) ==
    \/ AllowRequest(c) \/ CheckElapsed(c) \/ ProviderAnswers(c)
    \/ RecordSuccess(c) \/ IncSuccesses(c) \/ DelSuccesses(c) \/ DelFailures(c)
    \/ RecordFailure(c) \/ IncFailures(c)
    \/ TransitionGetState(c) \/ SetState(c) \/ SetLastAttempt(c) \/ UpsertHealth(c)

Next ==
    \/ \E c \in Callers : TryProvider(c) \/ CallCutShort(c)
    \/ Tick

Spec == Init /\ [][Next]_vars

\* Traffic does not stop, and neither does the clock.
FairSpec == Spec /\ WF_vars(Tick) /\ \A c \in Callers : WF_vars(TryProvider(c))

-----------------------------------------------------------------------------
(***************************************************************************)
(* Properties.                                                             *)
(***************************************************************************)

\* A caller about to write the state it decided on.
Moving(c, newState) == pc[c] \in {"getState", "setState"} /\ target[c] = newState

\* "CLOSED --> OPEN: 5 failures in 60s window": as long as calls run to their
\* end, the failures that fill the window open the circuit, however their
\* callers interleave.  While it is CLOSED with a full count, some caller is
\* about to open it, or has just closed it and is about to clear the count.
FullWindowTrips ==
    crashes = 0 /\ state = "CLOSED" /\ failures >= FailureThreshold =>
        \E c \in Callers :
            \/ Moving(c, "OPEN")
            \/ /\ target[c] = "CLOSED"
               /\ pc[c] \in {"setLastAttempt", "upsertHealth", "delSuccesses", "delFailures"}

\* provider_health "stores circuit breaker state for each provider": it agrees
\* with Redis whenever no caller is between the two writes.
HealthAgrees ==
    (\A c \in Callers : pc[c] \notin {"setLastAttempt", "upsertHealth"}) => health = state

\* Under traffic an open circuit is tried again.
Recovers == state = "OPEN" ~> state # "OPEN"

\* The documented state machine.  A decision taken is a count that is full,
\* even when its key expires before the state is written.
Promise == INSTANCE CircuitBreakerPromise WITH
    failures  <- IF state # "CLOSED" THEN 0
                 ELSE IF \E c \in Callers : Moving(c, "OPEN") THEN FailureThreshold
                 ELSE failures,
    successes <- IF state # "HALF_OPEN" THEN 0
                 ELSE IF \E c \in Callers : Moving(c, "CLOSED") THEN SuccessThreshold
                 ELSE successes,
    openFor   <- openedFor

\* One call at a time, the service implements the documented state machine:
\* the circuit opens after a full window only, stays open for its duration,
\* and closes after successive successes of the same probing period only.
Documented == Promise!Spec
=============================================================================
