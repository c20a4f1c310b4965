------------------------ MODULE CircuitBreakerProofs ------------------------
(***************************************************************************)
(* What CircuitBreaker guarantees for every number of callers and every    *)
(* threshold, duration and window.                                         *)
(***************************************************************************)
EXTENDS CircuitBreaker, TLAPS

\* A step of any caller, and a tick, keep every variable within its type.
LEMMA TypeOKStep == ASSUME TypeOK, [Next]_vars PROVE TypeOK'
<1> USE CircuitBreakerAssumption
        DEF CircuitBreakerAssumption, TypeOK, redis, caller, CircuitState, CallerPc
<1>1. ASSUME NEW c \in Callers, AllowRequest(c)
      PROVE  TypeOK'
  BY <1>1 DEF AllowRequest, GoTo
<1>2. ASSUME NEW c \in Callers, CheckElapsed(c)
      PROVE  TypeOK'
  BY <1>2 DEF CheckElapsed, GoTo, CallTransitionTo
<1>3. ASSUME NEW c \in Callers, ProviderAnswers(c)
      PROVE  TypeOK'
  BY <1>3 DEF ProviderAnswers, GoTo
<1>4. ASSUME NEW c \in Callers, RecordSuccess(c)
      PROVE  TypeOK'
  BY <1>4 DEF RecordSuccess, GoTo
<1>5. ASSUME NEW c \in Callers, IncSuccesses(c)
      PROVE  TypeOK'
  BY <1>5 DEF IncSuccesses, GoTo, CallTransitionTo
<1>6. ASSUME NEW c \in Callers, DelSuccesses(c)
      PROVE  TypeOK'
  BY <1>6 DEF DelSuccesses, GoTo
<1>7. ASSUME NEW c \in Callers, DelFailures(c)
      PROVE  TypeOK'
  BY <1>7 DEF DelFailures, GoTo
<1>8. ASSUME NEW c \in Callers, RecordFailure(c)
      PROVE  TypeOK'
  BY <1>8 DEF RecordFailure, GoTo, CallTransitionTo
<1>9. ASSUME NEW c \in Callers, IncFailures(c)
      PROVE  TypeOK'
  BY <1>9 DEF IncFailures, GoTo, CallTransitionTo
<1>10. ASSUME NEW c \in Callers, TransitionGetState(c)
      PROVE  TypeOK'
  BY <1>10 DEF TransitionGetState, GoTo
<1>11. ASSUME NEW c \in Callers, SetState(c)
      PROVE  TypeOK'
  BY <1>11 DEF SetState, GoTo
<1>12. ASSUME NEW c \in Callers, SetLastAttempt(c)
      PROVE  TypeOK'
  BY <1>12 DEF SetLastAttempt, GoTo
<1>13. ASSUME NEW c \in Callers, UpsertHealth(c)
      PROVE  TypeOK'
  BY <1>13 DEF UpsertHealth, GoTo
<1>14. ASSUME NEW c \in Callers, CallCutShort(c)
      PROVE  TypeOK'
  BY <1>14 DEF CallCutShort, GoTo
<1>15. CASE Tick
  BY <1>15 DEF Tick
<1>16. CASE UNCHANGED vars
  BY <1>16 DEF vars
<1> HIDE DEF TypeOK
<1> QED
  BY <1>1, <1>2, <1>3, <1>4, <1>5, <1>6, <1>7, <1>8, <1>9, <1>10, <1>11, <1>12, <1>13,
     <1>14, <1>15, <1>16
     DEF Next, TryProvider

\* Every reachable state of the circuit breaker is well typed; the clock and
\* the TTLs stay within their windows.
THEOREM TypeCorrect == Spec => []TypeOK
<1>1. Init => TypeOK
  BY CircuitBreakerAssumption
     DEF Init, TypeOK, CircuitBreakerAssumption, CircuitState, CallerPc
<1>2. TypeOK /\ [Next]_vars => TypeOK'
  BY TypeOKStep
<1> QED BY <1>1, <1>2, PTL DEF Spec

-----------------------------------------------------------------------------
(***************************************************************************)
(* A full failure window always opens the circuit.  The inductive          *)
(* invariant adds that whoever closes the circuit goes on to clear the     *)
(* counters: without it, a caller leaving upsertHealth with another        *)
(* continuation could leave the circuit CLOSED with a full window.         *)
(***************************************************************************)
ClosersClear ==
    \A c \in Callers :
        /\ pc[c] \in {"getState", "setState", "setLastAttempt", "upsertHealth"}
        /\ target[c] = "CLOSED"
        => then[c] = "delSuccesses"

TripInv == FullWindowTrips /\ ClosersClear

\* No step of a caller and no tick breaks TripInv.
LEMMA TripInvStep ==
    ASSUME TypeOK, TripInv, [Next]_vars
    PROVE  TripInv'
<1> USE CircuitBreakerAssumption
        DEF CircuitBreakerAssumption, TypeOK, redis, caller, CircuitState, CallerPc,
            TripInv, FullWindowTrips, ClosersClear, Moving
<1>1. ASSUME NEW c \in Callers, AllowRequest(c)
      PROVE  TripInv'
  BY <1>1 DEF AllowRequest, GoTo
<1>2. ASSUME NEW c \in Callers, CheckElapsed(c)
      PROVE  TripInv'
  BY <1>2 DEF CheckElapsed, GoTo, CallTransitionTo
<1>3. ASSUME NEW c \in Callers, ProviderAnswers(c)
      PROVE  TripInv'
  BY <1>3 DEF ProviderAnswers, GoTo
<1>4. ASSUME NEW c \in Callers, RecordSuccess(c)
      PROVE  TripInv'
  BY <1>4 DEF RecordSuccess, GoTo
<1>5. ASSUME NEW c \in Callers, IncSuccesses(c)
      PROVE  TripInv'
  BY <1>5 DEF IncSuccesses, GoTo, CallTransitionTo
<1>6. ASSUME NEW c \in Callers, DelSuccesses(c)
      PROVE  TripInv'
  BY <1>6 DEF DelSuccesses, GoTo
<1>7. ASSUME NEW c \in Callers, DelFailures(c)
      PROVE  TripInv'
  BY <1>7 DEF DelFailures, GoTo
<1>8. ASSUME NEW c \in Callers, RecordFailure(c)
      PROVE  TripInv'
  BY <1>8 DEF RecordFailure, GoTo, CallTransitionTo
<1>9. ASSUME NEW c \in Callers, IncFailures(c)
      PROVE  TripInv'
  BY <1>9 DEF IncFailures, GoTo, CallTransitionTo
<1>10. ASSUME NEW c \in Callers, TransitionGetState(c)
      PROVE  TripInv'
  BY <1>10 DEF TransitionGetState, GoTo
<1>11. ASSUME NEW c \in Callers, SetState(c)
      PROVE  TripInv'
  BY <1>11 DEF SetState, GoTo
<1>12. ASSUME NEW c \in Callers, SetLastAttempt(c)
      PROVE  TripInv'
  BY <1>12 DEF SetLastAttempt, GoTo
<1>13. ASSUME NEW c \in Callers, UpsertHealth(c)
      PROVE  TripInv'
  BY <1>13 DEF UpsertHealth, GoTo
<1>14. ASSUME NEW c \in Callers, CallCutShort(c)
      PROVE  TripInv'
  BY <1>14 DEF CallCutShort, GoTo
<1>15. CASE Tick
  BY <1>15 DEF Tick
<1>16. CASE UNCHANGED vars
  BY <1>16 DEF vars
<1> HIDE DEF TypeOK, TripInv
<1> QED
  BY <1>1, <1>2, <1>3, <1>4, <1>5, <1>6, <1>7, <1>8, <1>9, <1>10, <1>11, <1>12, <1>13,
     <1>14, <1>15, <1>16
     DEF Next, TryProvider

\* However many callers count failures at once, a window that fills up opens
\* the circuit, as long as no call is cut short between INCR and SET.
THEOREM FullWindowAlwaysTrips == Spec => []FullWindowTrips
<1>1. Init => TripInv
  BY CircuitBreakerAssumption
     DEF Init, TripInv, FullWindowTrips, ClosersClear, CircuitBreakerAssumption
<1>2. TypeOK /\ TripInv /\ [Next]_vars => TripInv'
  BY TripInvStep
<1>3. TripInv => FullWindowTrips
  BY DEF TripInv
<1> QED BY <1>1, <1>2, <1>3, TypeCorrect, PTL DEF Spec

-----------------------------------------------------------------------------
(***************************************************************************)
(* One call at a time, and none cut short: the setting in which the        *)
(* documents describe the service.  Then what a caller has read still      *)
(* holds when it acts on it, which is what CallIsCurrent says, step by     *)
(* step of the call.                                                       *)
(***************************************************************************)
OneAtATime == MaxCrashes = 0 /\ \A c, d \in Callers : c = d

\* Counters and probing periods do not outlast an open circuit: 60 seconds for
\* the failures, 30 for the successes, and the circuit stays open for 60.
WindowsFit == FailureWindow <= OpenDuration /\ SuccessWindow <= OpenDuration

CallIsCurrent ==
    \A c \in Callers :
        /\ pc[c] = "checkElapsed" => state = "OPEN"
        /\ pc[c] = "incFailures" => state = "CLOSED"
        /\ pc[c] = "incSuccesses" => state = "HALF_OPEN"
        /\ Moving(c, "OPEN") => state # "OPEN"
        /\ Moving(c, "HALF_OPEN") => state = "OPEN" /\ openedFor = OpenDuration
        /\ Moving(c, "CLOSED") => state = "HALF_OPEN"
        /\ pc[c] \in {"setLastAttempt", "upsertHealth"} => state = target[c]

\* The time of the last attempt is never older than the circuit's opening,
\* and a circuit half-opens after its duration only.
ClockIsRight ==
    /\ state = "OPEN" /\ (\A c \in Callers : pc[c] # "setLastAttempt")
        => lastAttempt <= openedFor
    /\ state = "HALF_OPEN" => openedFor = OpenDuration

\* Redis drops a key with its TTL; what was counted before the circuit opened
\* is gone when it half-opens.
CountersAge ==
    /\ failuresTtl = 0 => failures = 0
    /\ successesTtl = 0 => successes = 0
    /\ state # "CLOSED" => failuresTtl + openedFor <= FailureWindow \/ failuresTtl = 0
    /\ state = "OPEN" => successesTtl + openedFor <= SuccessWindow \/ successesTtl = 0

\* A probing period with enough successes is being closed.
FullProbeCloses ==
    state = "HALF_OPEN" /\ successes >= SuccessThreshold =>
        \E c \in Callers : Moving(c, "CLOSED")

SequentialInv == CallIsCurrent /\ ClockIsRight /\ CountersAge /\ FullProbeCloses

\* Steps of the only caller, and ticks, keep SequentialInv.
LEMMA SequentialInvStep ==
    ASSUME TypeOK, SequentialInv, [Next]_vars, OneAtATime, WindowsFit
    PROVE  SequentialInv'
<1> USE CircuitBreakerAssumption
        DEF CircuitBreakerAssumption, TypeOK, redis, caller, CircuitState, CallerPc, OneAtATime,
            WindowsFit, SequentialInv, CallIsCurrent, ClockIsRight, CountersAge, FullProbeCloses,
            Moving
<1>1. ASSUME NEW c \in Callers, AllowRequest(c)
      PROVE  SequentialInv'
  BY <1>1 DEF AllowRequest, GoTo
<1>2. ASSUME NEW c \in Callers, CheckElapsed(c)
      PROVE  SequentialInv'
  BY <1>2 DEF CheckElapsed, GoTo, CallTransitionTo
<1>3. ASSUME NEW c \in Callers, ProviderAnswers(c)
      PROVE  SequentialInv'
  BY <1>3 DEF ProviderAnswers, GoTo
<1>4. ASSUME NEW c \in Callers, RecordSuccess(c)
      PROVE  SequentialInv'
  BY <1>4 DEF RecordSuccess, GoTo
<1>5. ASSUME NEW c \in Callers, IncSuccesses(c)
      PROVE  SequentialInv'
  BY <1>5 DEF IncSuccesses, GoTo, CallTransitionTo
<1>6. ASSUME NEW c \in Callers, DelSuccesses(c)
      PROVE  SequentialInv'
  BY <1>6 DEF DelSuccesses, GoTo
<1>7. ASSUME NEW c \in Callers, DelFailures(c)
      PROVE  SequentialInv'
  BY <1>7 DEF DelFailures, GoTo
<1>8. ASSUME NEW c \in Callers, RecordFailure(c)
      PROVE  SequentialInv'
  BY <1>8 DEF RecordFailure, GoTo, CallTransitionTo
<1>9. ASSUME NEW c \in Callers, IncFailures(c)
      PROVE  SequentialInv'
  BY <1>9 DEF IncFailures, GoTo, CallTransitionTo
<1>10. ASSUME NEW c \in Callers, TransitionGetState(c)
      PROVE  SequentialInv'
  BY <1>10 DEF TransitionGetState, GoTo
<1>11. ASSUME NEW c \in Callers, SetState(c)
      PROVE  SequentialInv'
  BY <1>11 DEF SetState, GoTo
<1>12. ASSUME NEW c \in Callers, SetLastAttempt(c)
      PROVE  SequentialInv'
  BY <1>12 DEF SetLastAttempt, GoTo
<1>13. ASSUME NEW c \in Callers, UpsertHealth(c)
      PROVE  SequentialInv'
  BY <1>13 DEF UpsertHealth, GoTo
<1>14. ASSUME NEW c \in Callers, CallCutShort(c)
      PROVE  SequentialInv'
  BY <1>14 DEF CallCutShort
<1>15. CASE Tick
  BY <1>15 DEF Tick
<1>16. CASE UNCHANGED vars
  BY <1>16 DEF vars
<1> HIDE DEF TypeOK, SequentialInv, OneAtATime, WindowsFit
<1> QED
  BY <1>1, <1>2, <1>3, <1>4, <1>5, <1>6, <1>7, <1>8, <1>9, <1>10, <1>11, <1>12, <1>13,
     <1>14, <1>15, <1>16
     DEF Next, TryProvider

\* One call at a time, every decision is taken on the state it is written to.
LEMMA SequentialInvAlways ==
    ASSUME OneAtATime, WindowsFit
    PROVE  Spec => []SequentialInv
<1>1. Init => SequentialInv
  BY CircuitBreakerAssumption
     DEF Init, SequentialInv, CallIsCurrent, ClockIsRight, CountersAge, FullProbeCloses,
         Moving, CircuitBreakerAssumption
<1>2. TypeOK /\ SequentialInv /\ [Next]_vars => SequentialInv'
  BY SequentialInvStep, OneAtATime, WindowsFit
<1> QED BY <1>1, <1>2, TypeCorrect, PTL DEF Spec

\* The row of provider_health and the key in Redis differ only while the
\* caller is between the two writes.
HealthFollows ==
    /\ HealthAgrees
    /\ \A c \in Callers :
           pc[c] \in {"setLastAttempt", "upsertHealth"} => state = target[c]

\* No step of the only caller, and no tick, leaves the row behind.
LEMMA HealthFollowsStep ==
    ASSUME TypeOK, HealthFollows, [Next]_vars, OneAtATime
    PROVE  HealthFollows'
<1> USE CircuitBreakerAssumption
        DEF CircuitBreakerAssumption, TypeOK, redis, caller, CircuitState, CallerPc, OneAtATime,
            HealthFollows, HealthAgrees
<1>1. ASSUME NEW c \in Callers, AllowRequest(c)
      PROVE  HealthFollows'
  BY <1>1 DEF AllowRequest, GoTo
<1>2. ASSUME NEW c \in Callers, CheckElapsed(c)
      PROVE  HealthFollows'
  BY <1>2 DEF CheckElapsed, GoTo, CallTransitionTo
<1>3. ASSUME NEW c \in Callers, ProviderAnswers(c)
      PROVE  HealthFollows'
  BY <1>3 DEF ProviderAnswers, GoTo
<1>4. ASSUME NEW c \in Callers, RecordSuccess(c)
      PROVE  HealthFollows'
  BY <1>4 DEF RecordSuccess, GoTo
<1>5. ASSUME NEW c \in Callers, IncSuccesses(c)
      PROVE  HealthFollows'
  BY <1>5 DEF IncSuccesses, GoTo, CallTransitionTo
<1>6. ASSUME NEW c \in Callers, DelSuccesses(c)
      PROVE  HealthFollows'
  BY <1>6 DEF DelSuccesses, GoTo
<1>7. ASSUME NEW c \in Callers, DelFailures(c)
      PROVE  HealthFollows'
  BY <1>7 DEF DelFailures, GoTo
<1>8. ASSUME NEW c \in Callers, RecordFailure(c)
      PROVE  HealthFollows'
  BY <1>8 DEF RecordFailure, GoTo, CallTransitionTo
<1>9. ASSUME NEW c \in Callers, IncFailures(c)
      PROVE  HealthFollows'
  BY <1>9 DEF IncFailures, GoTo, CallTransitionTo
<1>10. ASSUME NEW c \in Callers, TransitionGetState(c)
      PROVE  HealthFollows'
  BY <1>10 DEF TransitionGetState, GoTo
<1>11. ASSUME NEW c \in Callers, SetState(c)
      PROVE  HealthFollows'
  BY <1>11 DEF SetState, GoTo
<1>12. ASSUME NEW c \in Callers, SetLastAttempt(c)
      PROVE  HealthFollows'
  BY <1>12 DEF SetLastAttempt, GoTo
<1>13. ASSUME NEW c \in Callers, UpsertHealth(c)
      PROVE  HealthFollows'
  BY <1>13 DEF UpsertHealth, GoTo
<1>14. ASSUME NEW c \in Callers, CallCutShort(c)
      PROVE  HealthFollows'
  BY <1>14 DEF CallCutShort
<1>15. CASE Tick
  BY <1>15 DEF Tick
<1>16. CASE UNCHANGED vars
  BY <1>16 DEF vars
<1> HIDE DEF TypeOK, HealthFollows, OneAtATime
<1> QED
  BY <1>1, <1>2, <1>3, <1>4, <1>5, <1>6, <1>7, <1>8, <1>9, <1>10, <1>11, <1>12, <1>13,
     <1>14, <1>15, <1>16
     DEF Next, TryProvider

\* One call at a time, provider_health shows the state the circuit is in, for
\* every threshold, duration and window.
THEOREM HealthAlwaysAgrees ==
    ASSUME OneAtATime
    PROVE  Spec => []HealthAgrees
<1>1. Init => HealthFollows
  BY DEF Init, HealthFollows, HealthAgrees
<1>2. TypeOK /\ HealthFollows /\ [Next]_vars => HealthFollows'
  BY HealthFollowsStep, OneAtATime
<1>3. HealthFollows => HealthAgrees
  BY DEF HealthFollows
<1> QED BY <1>1, <1>2, <1>3, TypeCorrect, PTL DEF Spec

-----------------------------------------------------------------------------
(***************************************************************************)
(* The refinement of CircuitBreakerPromise.                                *)
(***************************************************************************)

\* Every step of the call is a step of the documented machine, or changes
\* nothing that the machine shows.
LEMMA RefinementStep ==
    ASSUME TypeOK, TripInv, SequentialInv, [Next]_vars, OneAtATime, WindowsFit
    PROVE  [Promise!Next]_Promise!vars
<1> USE CircuitBreakerAssumption
        DEF CircuitBreakerAssumption, TypeOK, redis, caller, CircuitState, CallerPc, OneAtATime,
            WindowsFit, TripInv, FullWindowTrips, SequentialInv, CallIsCurrent, ClockIsRight,
            CountersAge, FullProbeCloses, Moving, Promise!Next, Promise!vars,
            Promise!CountFailure, Promise!Trip, Promise!Probe, Promise!CountSuccess,
            Promise!Close, Promise!Reopen, Promise!ForgetFailures, Promise!ForgetSuccesses,
            Promise!Tick
<1>1. ASSUME NEW c \in Callers, AllowRequest(c)
      PROVE  [Promise!Next]_Promise!vars
  BY <1>1 DEF AllowRequest, GoTo
<1>2. ASSUME NEW c \in Callers, CheckElapsed(c)
      PROVE  [Promise!Next]_Promise!vars
  BY <1>2 DEF CheckElapsed, GoTo, CallTransitionTo
<1>3. ASSUME NEW c \in Callers, ProviderAnswers(c)
      PROVE  [Promise!Next]_Promise!vars
  BY <1>3 DEF ProviderAnswers, GoTo
<1>4. ASSUME NEW c \in Callers, RecordSuccess(c)
      PROVE  [Promise!Next]_Promise!vars
  BY <1>4 DEF RecordSuccess, GoTo
<1>5. ASSUME NEW c \in Callers, IncSuccesses(c)
      PROVE  [Promise!Next]_Promise!vars
  BY <1>5 DEF IncSuccesses, GoTo, CallTransitionTo
<1>6. ASSUME NEW c \in Callers, DelSuccesses(c)
      PROVE  [Promise!Next]_Promise!vars
  BY <1>6 DEF DelSuccesses, GoTo
<1>7. ASSUME NEW c \in Callers, DelFailures(c)
      PROVE  [Promise!Next]_Promise!vars
  BY <1>7 DEF DelFailures, GoTo
<1>8. ASSUME NEW c \in Callers, RecordFailure(c)
      PROVE  [Promise!Next]_Promise!vars
  BY <1>8 DEF RecordFailure, GoTo, CallTransitionTo
<1>9. ASSUME NEW c \in Callers, IncFailures(c)
      PROVE  [Promise!Next]_Promise!vars
  BY <1>9 DEF IncFailures, GoTo, CallTransitionTo
<1>10. ASSUME NEW c \in Callers, TransitionGetState(c)
      PROVE  [Promise!Next]_Promise!vars
  BY <1>10 DEF TransitionGetState, GoTo
<1>11. ASSUME NEW c \in Callers, SetState(c)
      PROVE  [Promise!Next]_Promise!vars
  BY <1>11 DEF SetState, GoTo
<1>12. ASSUME NEW c \in Callers, SetLastAttempt(c)
      PROVE  [Promise!Next]_Promise!vars
  BY <1>12 DEF SetLastAttempt, GoTo
<1>13. ASSUME NEW c \in Callers, UpsertHealth(c)
      PROVE  [Promise!Next]_Promise!vars
  BY <1>13 DEF UpsertHealth, GoTo
<1>14. ASSUME NEW c \in Callers, CallCutShort(c)
      PROVE  [Promise!Next]_Promise!vars
  BY <1>14 DEF CallCutShort
<1>15. CASE Tick
  BY <1>15 DEF Tick
<1>16. CASE UNCHANGED vars
  BY <1>16 DEF vars
<1> HIDE DEF TypeOK, TripInv, SequentialInv, OneAtATime, WindowsFit, Promise!Next,
         Promise!vars
<1> QED
  BY <1>1, <1>2, <1>3, <1>4, <1>5, <1>6, <1>7, <1>8, <1>9, <1>10, <1>11, <1>12, <1>13,
     <1>14, <1>15, <1>16
     DEF Next, TryProvider

\* One call at a time, the service implements the documented state machine for
\* every threshold, as long as the counters' windows are no longer than the
\* time a circuit stays open.
THEOREM ImplementsPromise ==
    ASSUME OneAtATime, WindowsFit
    PROVE  Spec => Documented
<1>1. Init => Promise!Init
  BY DEF Init, Promise!Init, Moving
<1>2. Init => TripInv
  BY CircuitBreakerAssumption
     DEF Init, TripInv, FullWindowTrips, ClosersClear, CircuitBreakerAssumption
<1>3. TypeOK /\ TripInv /\ [Next]_vars => TripInv'
  BY TripInvStep
<1>4. TypeOK /\ TripInv /\ SequentialInv /\ [Next]_vars => [Promise!Next]_Promise!vars
  BY RefinementStep, OneAtATime, WindowsFit
<1> QED
  BY <1>1, <1>2, <1>3, <1>4, TypeCorrect, SequentialInvAlways, OneAtATime, WindowsFit, PTL
     DEF Spec, Documented, Promise!Spec
=============================================================================
