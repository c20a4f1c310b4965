--------------------------- MODULE DeliveryProofs ---------------------------
(***************************************************************************)
(* What Delivery guarantees for every set of notifications, workers,       *)
(* pollers, operators and webhooks, every retry limit and every number of  *)
(* faults; and what it guarantees when some of the faults are excluded,    *)
(* each of which the code does not survive.                                *)
(***************************************************************************)
EXTENDS Delivery, TLAPS

-----------------------------------------------------------------------------
(***************************************************************************)
(* Type correctness.                                                       *)
(***************************************************************************)

\* A step of any actor keeps every variable within its type.
LEMMA TypeOKStep == ASSUME TypeOK, [Next]_vars PROVE TypeOK'
<1> USE DeliveryAssumption
        DEF DeliveryAssumption, TypeOK, row, broker, worker, poller, operatr, webhook
<1>1. ASSUME NEW w \in Workers, NEW n \in Notifications, SkipHandled(w, n)
      PROVE  TypeOK'
  BY <1>1 DEF SkipHandled, Take
<1>2. ASSUME NEW w \in Workers, NEW n \in Notifications, Receive(w, n)
      PROVE  TypeOK'
  BY <1>2 DEF Receive, Take, WorkerPc
<1>3. ASSUME NEW w \in Workers, Requeue(w)
      PROVE  TypeOK'
  BY <1>3 DEF Requeue, SetStatus, GoTo, WorkerPc, NotificationStatus
<1>4. ASSUME NEW w \in Workers, PassesConsent(w)
      PROVE  TypeOK'
  <2>1. consentRecord' \in [Notifications -> ConsentRecords]
    BY <1>4 DEF PassesConsent
  <2>2. /\ wpc' \in [Workers -> WorkerPc]
        /\ job' = job
        /\ att' \in [Workers -> Nat]
        /\ attached' = attached
    BY <1>4 DEF PassesConsent, GoTo, StartFailure, AfterConsent, WorkerPc
  <2>3. \A v \in Workers : wpc'[v] # "idle" => job'[v] \in Notifications
    BY <1>4, <2>2 DEF PassesConsent, GoTo, StartFailure
  <2> QED BY <1>4, <2>1, <2>2, <2>3 DEF PassesConsent
<1>5. ASSUME NEW w \in Workers, BlockNoConsent(w)
      PROVE  TypeOK'
  BY <1>5 DEF BlockNoConsent, SetStatus, GoTo, WorkerPc, NotificationStatus
<1>6. ASSUME NEW w \in Workers, CheckDnd(w)
      PROVE  TypeOK'
  BY <1>6 DEF CheckDnd, GoTo, StartFailure, WorkerPc, DndResults
<1>7. ASSUME NEW w \in Workers, BlockDnd(w)
      PROVE  TypeOK'
  BY <1>7 DEF BlockDnd, SetStatus, GoTo, WorkerPc, NotificationStatus
<1>8. ASSUME NEW w \in Workers, ProviderAccepts(w)
      PROVE  TypeOK'
  BY <1>8 DEF ProviderAccepts, GoTo, WorkerPc
<1>9. ASSUME NEW w \in Workers, ProviderRejects(w)
      PROVE  TypeOK'
  BY <1>9 DEF ProviderRejects, AfterRejection, GoTo, StartFailure, WorkerPc
<1>10. ASSUME NEW w \in Workers, HandleSuccess(w)
      PROVE  TypeOK'
  BY <1>10 DEF HandleSuccess, SetStatus, GoTo, WorkerPc, NotificationStatus
<1>11. ASSUME NEW w \in Workers, ConfirmDelivery(w)
      PROVE  TypeOK'
  BY <1>11 DEF ConfirmDelivery, SetStatus, GoTo, WorkerPc, NotificationStatus
<1>12. ASSUME NEW w \in Workers, HandleFailure(w)
      PROVE  TypeOK'
  BY <1>12 DEF HandleFailure, SetStatus, GoTo, WorkerPc, NotificationStatus
<1>13. ASSUME NEW w \in Workers, ScheduleRetry(w)
      PROVE  TypeOK'
  BY <1>13 DEF ScheduleRetry, GoTo, WorkerPc
<1>14. ASSUME NEW w \in Workers, DeadLetterStatus(w)
      PROVE  TypeOK'
  BY <1>14 DEF DeadLetterStatus, SetStatus, GoTo, WorkerPc, NotificationStatus
<1>15. ASSUME NEW w \in Workers, DeadLetterEntry(w)
      PROVE  TypeOK'
  BY <1>15 DEF DeadLetterEntry, UpsertEntry, DlqEntries, GoTo, WorkerPc
<1>16. ASSUME NEW w \in Workers, Ack(w)
      PROVE  TypeOK'
  BY <1>16 DEF Ack, Release, Settle, WorkerPc
<1>17. ASSUME NEW w \in Workers, ProviderReplyLost(w)
      PROVE  TypeOK'
  BY <1>17 DEF ProviderReplyLost, Spend, BudgetKinds, AfterRejection, GoTo, StartFailure, WorkerPc
<1>18. ASSUME NEW w \in Workers, WorkerThrows(w)
      PROVE  TypeOK'
  BY <1>18 DEF WorkerThrows, Spend, BudgetKinds, Release, Settle, WorkerPc
<1>19. ASSUME NEW w \in Workers, WorkerCrashes(w)
      PROVE  TypeOK'
  BY <1>19 DEF WorkerCrashes, Spend, BudgetKinds, Publish, Release, WorkerPc
<1>20. ASSUME NEW w \in Workers, Disconnect(w)
      PROVE  TypeOK'
  BY <1>20 DEF Disconnect, Spend, BudgetKinds, Publish
<1>21. ASSUME NEW p \in Pollers, Poll(p)
      PROVE  TypeOK'
  BY <1>21 DEF Poll
<1>22. ASSUME NEW p \in Pollers, MarkRetrying(p)
      PROVE  TypeOK'
  BY <1>22 DEF MarkRetrying, SetStatus, NotificationStatus, PollerPc
<1>23. ASSUME NEW p \in Pollers, Republish(p)
      PROVE  TypeOK'
  BY <1>23 DEF Republish, Publish, PollerGoTo, PollerPc
<1>24. ASSUME NEW p \in Pollers, NothingToResend(p)
      PROVE  TypeOK'
  BY <1>24 DEF NothingToResend, SetStatus, NotificationStatus, PollerGoTo, PollerPc
<1>25. ASSUME NEW p \in Pollers, CreateEntry(p)
      PROVE  TypeOK'
  BY <1>25 DEF CreateEntry, DlqEntries, PollerGoTo, PollerNext, PollerPc
<1>26. ASSUME NEW p \in Pollers, Zrem(p)
      PROVE  TypeOK'
  BY <1>26 DEF Zrem, PollerNext, PollerPc
<1>27. ASSUME NEW p \in Pollers, PollerFails(p)
      PROVE  TypeOK'
  <2>1. /\ ppc' \in [Pollers -> PollerPc]
        /\ due' \in [Pollers -> SUBSET Notifications]
        /\ cur' \in [Pollers -> Notifications \cup {None}]
        /\ \A q \in Pollers : ppc'[q] # "next" => cur'[q] \in Notifications
    BY <1>27 DEF PollerFails, PollerNext, PollerPc
  <2>2. used' \in [BudgetKinds -> Nat]
    BY <1>27 DEF PollerFails, Spend, BudgetKinds
  <2> QED BY <1>27, <2>1, <2>2 DEF PollerFails
<1>28. ASSUME NEW o \in Operators, NEW n \in Notifications, NEW action \in {"retry", "discard"},
              ResolveDlqEntry(o, n, action)
      PROVE  TypeOK'
  BY <1>28 DEF ResolveDlqEntry, Spend, BudgetKinds, OperatorPc
<1>29. ASSUME NEW o \in Operators, OperatorMarksRetrying(o)
      PROVE  TypeOK'
  BY <1>29 DEF OperatorMarksRetrying, SetStatus, NotificationStatus, OperatorGoTo, OperatorPc
<1>30. ASSUME NEW o \in Operators, OperatorRepublishes(o)
      PROVE  TypeOK'
  BY <1>30 DEF OperatorRepublishes, Publish, OperatorGoTo, OperatorPc
<1>31. ASSUME NEW o \in Operators, OperatorRestores(o)
      PROVE  TypeOK'
  BY <1>31 DEF OperatorRestores, SetStatus, NotificationStatus, OperatorDone, OperatorPc
<1>32. ASSUME NEW o \in Operators, MarkResolved(o)
      PROVE  TypeOK'
  BY <1>32 DEF MarkResolved, DlqEntries, OperatorDone, OperatorPc
<1>33. ASSUME NEW o \in Operators, OperatorFails(o)
      PROVE  TypeOK'
  BY <1>33 DEF OperatorFails, Spend, BudgetKinds, OperatorDone, OperatorPc
<1>34. ASSUME NEW h \in Webhooks, NEW n \in Notifications, NEW to \in NotificationStatus,
              TransitionCheck(h, n, to)
      PROVE  TypeOK'
  BY <1>34 DEF TransitionCheck, Spend, BudgetKinds
<1>35. ASSUME NEW h \in Webhooks, TransitionWrite(h)
      PROVE  TypeOK'
  BY <1>35 DEF TransitionWrite, SetStatus, NotificationStatus
<1>36. ASSUME ScrubContent
      PROVE  TypeOK'
  BY <1>36 DEF ScrubContent, Spend, BudgetKinds
<1>37. ASSUME CleanupResolvedEntries
      PROVE  TypeOK'
  BY <1>37 DEF CleanupResolvedEntries, Spend, BudgetKinds, DlqEntries
<1>38. CASE UNCHANGED vars
  BY <1>38 DEF vars
<1> HIDE DEF TypeOK
<1> QED
  BY <1>1, <1>2, <1>3, <1>4, <1>5, <1>6, <1>7, <1>8, <1>9, <1>10, <1>11, <1>12, <1>13,
     <1>14, <1>15, <1>16, <1>17, <1>18, <1>19, <1>20, <1>21, <1>22, <1>23, <1>24, <1>25, <1>26,
     <1>27, <1>28, <1>29, <1>30, <1>31, <1>32, <1>33, <1>34, <1>35, <1>36, <1>37, <1>38
     DEF Next, Process, WorkerFault, ProcessDueRetries, Resolve

\* Every variable keeps its type, however the actors interleave and whatever
\* fails.
THEOREM TypeCorrect == Spec => []TypeOK
<1>1. Init => TypeOK
  BY DEF Init, TypeOK, NotificationStatus, DndResults, ConsentRecords, DlqEntries, WorkerPc,
         PollerPc, OperatorPc
<1>2. TypeOK /\ [Next]_vars => TypeOK'
  BY TypeOKStep
<1> QED BY <1>1, <1>2, PTL DEF Spec

-----------------------------------------------------------------------------
(***************************************************************************)
(* No SMS is sent without a DND check.                                     *)
(*                                                                         *)
(* SmsSentChecked is not inductive: a status becomes SENT by a worker that *)
(* was past the check long ago, or by a receipt that finds the row by an   *)
(* externalId stored on an earlier pass.  The invariant therefore follows  *)
(* the evidence from the check to everyone who can still write a sent      *)
(* state.                                                                  *)
(***************************************************************************)
DndEvidence ==
    \A n \in Notifications : Channel[n] = "sms" =>
        /\ status[n] \in SentStates \/ externalId[n] => dndResult[n] # "NOT_CHECKED"
        /\ \A w \in Workers :
              job[w] = n /\ wpc[w] \in {"primary", "fallback", "success", "confirm"}
                => dndResult[n] # "NOT_CHECKED"
        /\ \A h \in Webhooks :
              hpc[h] = "write" /\ subject[h] = n /\ target[h] \in SentStates
                => dndResult[n] # "NOT_CHECKED"

\* The transition table lets only a delivered notification be read.
LEMMA OnlyDeliveredIsRead ==
    ASSUME NEW s \in NotificationStatus, isValidTransition(s, "READ")
    PROVE  s = "DELIVERED"
BY DEF isValidTransition, ValidTransitions, NotificationStatus

\* A step of any actor keeps the evidence with everyone who relies on it.
LEMMA DndEvidenceStep ==
    ASSUME TypeOK, DndEvidence, [Next]_vars
    PROVE  DndEvidence'
<1> USE DeliveryAssumption
        DEF DeliveryAssumption, TypeOK, DndEvidence, row, broker, worker, poller, operatr, webhook
<1>1. ASSUME NEW w \in Workers, NEW n \in Notifications, SkipHandled(w, n)
      PROVE  DndEvidence'
  BY <1>1 DEF SkipHandled, Take
<1>2. ASSUME NEW w \in Workers, NEW n \in Notifications, Receive(w, n)
      PROVE  DndEvidence'
  BY <1>2 DEF Receive, Take
<1>3. ASSUME NEW w \in Workers, Requeue(w)
      PROVE  DndEvidence'
  BY <1>3 DEF Requeue, SetStatus, GoTo, SentStates
<1>4. ASSUME NEW w \in Workers, PassesConsent(w)
      PROVE  DndEvidence'
  BY <1>4 DEF PassesConsent, GoTo, StartFailure, AfterConsent
<1>5. ASSUME NEW w \in Workers, BlockNoConsent(w)
      PROVE  DndEvidence'
  BY <1>5 DEF BlockNoConsent, SetStatus, GoTo, SentStates
<1>6. ASSUME NEW w \in Workers, CheckDnd(w)
      PROVE  DndEvidence'
  BY <1>6 DEF CheckDnd, GoTo, StartFailure, DndResults
<1>7. ASSUME NEW w \in Workers, BlockDnd(w)
      PROVE  DndEvidence'
  BY <1>7 DEF BlockDnd, SetStatus, GoTo, SentStates
<1>8. ASSUME NEW w \in Workers, ProviderAccepts(w)
      PROVE  DndEvidence'
  BY <1>8 DEF ProviderAccepts, GoTo
<1>9. ASSUME NEW w \in Workers, ProviderRejects(w)
      PROVE  DndEvidence'
  BY <1>9 DEF ProviderRejects, AfterRejection, GoTo, StartFailure
<1>10. ASSUME NEW w \in Workers, HandleSuccess(w)
      PROVE  DndEvidence'
  BY <1>10 DEF HandleSuccess, SetStatus, GoTo, SentStates
<1>11. ASSUME NEW w \in Workers, ConfirmDelivery(w)
      PROVE  DndEvidence'
  BY <1>11 DEF ConfirmDelivery, SetStatus, GoTo, SentStates
<1>12. ASSUME NEW w \in Workers, HandleFailure(w)
      PROVE  DndEvidence'
  BY <1>12 DEF HandleFailure, SetStatus, GoTo, SentStates
<1>13. ASSUME NEW w \in Workers, ScheduleRetry(w)
      PROVE  DndEvidence'
  BY <1>13 DEF ScheduleRetry, GoTo
<1>14. ASSUME NEW w \in Workers, DeadLetterStatus(w)
      PROVE  DndEvidence'
  BY <1>14 DEF DeadLetterStatus, SetStatus, GoTo, SentStates
<1>15. ASSUME NEW w \in Workers, DeadLetterEntry(w)
      PROVE  DndEvidence'
  BY <1>15 DEF DeadLetterEntry, UpsertEntry, GoTo
<1>16. ASSUME NEW w \in Workers, Ack(w)
      PROVE  DndEvidence'
  BY <1>16 DEF Ack, Release, Settle
<1>17. ASSUME NEW w \in Workers, ProviderReplyLost(w)
      PROVE  DndEvidence'
  BY <1>17 DEF ProviderReplyLost, AfterRejection, GoTo, StartFailure
<1>18. ASSUME NEW w \in Workers, WorkerThrows(w)
      PROVE  DndEvidence'
  BY <1>18 DEF WorkerThrows, Release
<1>19. ASSUME NEW w \in Workers, WorkerCrashes(w)
      PROVE  DndEvidence'
  BY <1>19 DEF WorkerCrashes, Publish, Release
<1>20. ASSUME NEW w \in Workers, Disconnect(w)
      PROVE  DndEvidence'
  BY <1>20 DEF Disconnect, Publish
<1>21. ASSUME NEW p \in Pollers, Poll(p)
      PROVE  DndEvidence'
  BY <1>21 DEF Poll
<1>22. ASSUME NEW p \in Pollers, MarkRetrying(p)
      PROVE  DndEvidence'
  BY <1>22 DEF MarkRetrying, SetStatus, SentStates
<1>23. ASSUME NEW p \in Pollers, Republish(p)
      PROVE  DndEvidence'
  BY <1>23 DEF Republish, Publish, PollerGoTo
<1>24. ASSUME NEW p \in Pollers, NothingToResend(p)
      PROVE  DndEvidence'
  BY <1>24 DEF NothingToResend, SetStatus, PollerGoTo, SentStates
<1>25. ASSUME NEW p \in Pollers, CreateEntry(p)
      PROVE  DndEvidence'
  BY <1>25 DEF CreateEntry, PollerGoTo, PollerNext
<1>26. ASSUME NEW p \in Pollers, Zrem(p)
      PROVE  DndEvidence'
  BY <1>26 DEF Zrem, PollerNext
<1>27. ASSUME NEW p \in Pollers, PollerFails(p)
      PROVE  DndEvidence'
  BY <1>27 DEF PollerFails, PollerNext
<1>28. ASSUME NEW o \in Operators, NEW n \in Notifications, NEW action \in {"retry", "discard"},
              ResolveDlqEntry(o, n, action)
      PROVE  DndEvidence'
  BY <1>28 DEF ResolveDlqEntry
<1>29. ASSUME NEW o \in Operators, OperatorMarksRetrying(o)
      PROVE  DndEvidence'
  BY <1>29 DEF OperatorMarksRetrying, SetStatus, OperatorGoTo, SentStates
<1>30. ASSUME NEW o \in Operators, OperatorRepublishes(o)
      PROVE  DndEvidence'
  BY <1>30 DEF OperatorRepublishes, Publish, OperatorGoTo
<1>31. ASSUME NEW o \in Operators, OperatorRestores(o)
      PROVE  DndEvidence'
  BY <1>31 DEF OperatorRestores, SetStatus, OperatorDone, SentStates
<1>32. ASSUME NEW o \in Operators, MarkResolved(o)
      PROVE  DndEvidence'
  BY <1>32 DEF MarkResolved, OperatorDone
<1>33. ASSUME NEW o \in Operators, OperatorFails(o)
      PROVE  DndEvidence'
  BY <1>33 DEF OperatorFails, OperatorDone
<1>34. ASSUME NEW h \in Webhooks, NEW n \in Notifications, NEW to \in NotificationStatus,
              TransitionCheck(h, n, to)
      PROVE  DndEvidence'
  <2>1. /\ hpc' = [hpc EXCEPT ![h] = "write"]
        /\ subject' = [subject EXCEPT ![h] = n]
        /\ target' = [target EXCEPT ![h] = to]
        /\ UNCHANGED <<status, externalId, dndResult, wpc, job>>
    BY <1>34 DEF TransitionCheck
  <2>2. Channel[n] = "sms" /\ to \in SentStates => dndResult[n] # "NOT_CHECKED"
    <3>1. CASE externalId[n]
      BY <3>1
    <3>2. CASE to = "READ"
      <4>1. status[n] \in SentStates
        BY <1>34, <3>2, OnlyDeliveredIsRead DEF TransitionCheck, SentStates
      <4> QED BY <4>1
    <3> QED
      BY <1>34, <3>1, <3>2
      DEF TransitionCheck, TransitionRequested, processDeliveryReceipt, markAsRead
  <2> QED BY <2>1, <2>2
<1>35. ASSUME NEW h \in Webhooks, TransitionWrite(h)
      PROVE  DndEvidence'
  BY <1>35 DEF TransitionWrite, SetStatus, SentStates
<1>36. ASSUME ScrubContent
      PROVE  DndEvidence'
  BY <1>36 DEF ScrubContent
<1>37. ASSUME CleanupResolvedEntries
      PROVE  DndEvidence'
  BY <1>37 DEF CleanupResolvedEntries
<1>38. CASE UNCHANGED vars
  BY <1>38 DEF vars
<1> HIDE DEF TypeOK, DndEvidence
<1> QED
  BY <1>1, <1>2, <1>3, <1>4, <1>5, <1>6, <1>7, <1>8, <1>9, <1>10, <1>11, <1>12, <1>13,
     <1>14, <1>15, <1>16, <1>17, <1>18, <1>19, <1>20, <1>21, <1>22, <1>23, <1>24, <1>25, <1>26,
     <1>27, <1>28, <1>29, <1>30, <1>31, <1>32, <1>33, <1>34, <1>35, <1>36, <1>37, <1>38
     DEF Next, Process, WorkerFault, ProcessDueRetries, Resolve

\* The compliance audit's "sent without DND check" count is zero, for every
\* interleaving of workers, retries, receipts, operators and faults.
THEOREM SmsAlwaysChecked == Spec => []SmsSentChecked
<1>1. Init => DndEvidence
  BY DEF Init, DndEvidence, SentStates
<1>2. TypeOK /\ DndEvidence /\ [Next]_vars => DndEvidence'
  BY DndEvidenceStep
<1>3. DndEvidence => SmsSentChecked
  BY DEF DndEvidence, SmsSentChecked
<1> QED BY <1>1, <1>2, <1>3, TypeCorrect, PTL DEF Spec

-----------------------------------------------------------------------------
(***************************************************************************)
(* A resolved dead letter is never reopened.                               *)
(***************************************************************************)

\* Only four steps write a dead_letter_queue entry, and each of them keeps a
\* resolution or deletes the entry.
LEMMA ResolutionStep ==
    ASSUME TypeOK, [Next]_vars
    PROVE  \/ UNCHANGED dlqEntry
           \/ \A n \in Notifications :
                 dlqEntry[n] \in {"retried", "discarded"} => dlqEntry'[n] # "open"
<1> DEFINE Kept == \A n \in Notifications :
                      dlqEntry[n] \in {"retried", "discarded"} => dlqEntry'[n] # "open"
<1> SUFFICES UNCHANGED dlqEntry \/ Kept
  OBVIOUS
<1>0. dlqEntry \in [Notifications -> DlqEntries]
  BY DEF TypeOK
<1>1. ASSUME NEW w \in Workers, Process(w) \/ WorkerFault(w)
      PROVE  UNCHANGED dlqEntry \/ Kept
  <2>1. CASE DeadLetterEntry(w)
    BY <1>0, <2>1 DEF DeadLetterEntry, UpsertEntry
  <2>2. ASSUME NEW n \in Notifications, SkipHandled(w, n) \/ Receive(w, n)
        PROVE  UNCHANGED dlqEntry
    BY <2>2 DEF SkipHandled, Receive
  <2>3. CASE \/ Requeue(w) \/ PassesConsent(w) \/ BlockNoConsent(w) \/ CheckDnd(w) \/ BlockDnd(w)
             \/ ProviderAccepts(w) \/ ProviderRejects(w) \/ HandleSuccess(w)
             \/ ConfirmDelivery(w) \/ HandleFailure(w) \/ ScheduleRetry(w)
             \/ DeadLetterStatus(w) \/ Ack(w)
    BY <2>3 DEF Requeue, PassesConsent, BlockNoConsent, CheckDnd, BlockDnd, ProviderAccepts,
                ProviderRejects, HandleSuccess, ConfirmDelivery, HandleFailure, ScheduleRetry,
                DeadLetterStatus, Ack
  <2>4. CASE WorkerFault(w)
    BY <2>4 DEF WorkerFault, ProviderReplyLost, WorkerThrows, WorkerCrashes, Disconnect
  <2> QED BY <1>1, <2>1, <2>2, <2>3, <2>4 DEF Process
<1>2. ASSUME NEW p \in Pollers, ProcessDueRetries(p) \/ PollerFails(p)
      PROVE  UNCHANGED dlqEntry \/ Kept
  <2>1. CASE CreateEntry(p)
    BY <1>0, <2>1 DEF CreateEntry
  <2>2. CASE \/ Poll(p) \/ MarkRetrying(p) \/ Republish(p) \/ NothingToResend(p) \/ Zrem(p)
             \/ PollerFails(p)
    BY <2>2 DEF Poll, MarkRetrying, Republish, NothingToResend, Zrem, PollerFails
  <2> QED BY <1>2, <2>1, <2>2 DEF ProcessDueRetries
<1>3. ASSUME NEW o \in Operators, Resolve(o) \/ OperatorFails(o)
      PROVE  UNCHANGED dlqEntry \/ Kept
  <2>1. CASE MarkResolved(o)
    BY <1>0, <2>1 DEF MarkResolved
  <2>2. CASE \/ OperatorMarksRetrying(o) \/ OperatorRepublishes(o) \/ OperatorRestores(o)
             \/ OperatorFails(o)
    BY <2>2 DEF OperatorMarksRetrying, OperatorRepublishes, OperatorRestores, OperatorFails
  <2> QED BY <1>3, <2>1, <2>2 DEF Resolve
<1>4. ASSUME NEW o \in Operators, NEW n \in Notifications, NEW action \in {"retry", "discard"},
             ResolveDlqEntry(o, n, action)
      PROVE  UNCHANGED dlqEntry
  BY <1>4 DEF ResolveDlqEntry
<1>5. ASSUME NEW h \in Webhooks,
             \/ \E n \in Notifications, to \in NotificationStatus : TransitionCheck(h, n, to)
             \/ TransitionWrite(h)
      PROVE  UNCHANGED dlqEntry
  BY <1>5 DEF TransitionCheck, TransitionWrite
<1>6. CASE ScrubContent
  BY <1>6 DEF ScrubContent
<1>7. CASE CleanupResolvedEntries
  BY <1>0, <1>7 DEF CleanupResolvedEntries
<1>8. CASE UNCHANGED vars
  BY <1>8 DEF vars
<1> HIDE DEF Kept
<1> QED BY <1>1, <1>2, <1>3, <1>4, <1>5, <1>6, <1>7, <1>8 DEF Next

\* No step turns a resolved dead_letter_queue entry into an open one: the
\* workers' upsert, the poller's create, the operators' updates and the
\* clean-up job all leave a resolution in place or delete it.
THEOREM ResolutionNeverReopened == Spec => ResolutionFinal
<1>1. TypeOK /\ [Next]_vars =>
        [\A n \in Notifications :
           dlqEntry[n] \in {"retried", "discarded"} => dlqEntry'[n] # "open"]_dlqEntry
  BY ResolutionStep
<1> QED BY <1>1, TypeCorrect, PTL DEF Spec, ResolutionFinal

-----------------------------------------------------------------------------
(***************************************************************************)
(* What holds where nothing fails.                                         *)
(*                                                                         *)
(* Two replicas' pollers requeue the same id, two operators resolve the    *)
(* same entry, and a crash repeats what was done before it.  Without these *)
(* a notification has one copy at a time: a message, a worker at work on   *)
(* it, an id that waits for its retry, or a dead letter that an operator   *)
(* may send again.  Receipts, lost replies, erasures and clean-ups may     *)
(* happen any number of times.                                             *)
(***************************************************************************)
NothingFails == \A kind \in {"crash", "throw", "disconnect"} : Budget[kind] = 0
OnePoller    == \A p, q \in Pollers : p = q
OneOperator  == \A o, q \in Operators : o = q

Busy(w, n) == job[w] = n /\ wpc[w] \notin {"idle", "ack"}

\* The id is due for a retry that has not been published yet.
Waiting(n) == n \in retryQueue /\ \A p \in Pollers : ~ (cur[p] = n /\ ppc[p] = "zrem")

\* The entry is open, and not because a retry just published is still to be
\* recorded in it.
Resolvable(n) ==
    dlqEntry[n] = "open" /\ \A o \in Operators : ~ (entry[o] = n /\ opc[o] = "resolveRetry")

\* What a poller holds is in Redis until its zrem.
SnapshotKept ==
    \A p \in Pollers :
        /\ due[p] \subseteq retryQueue
        /\ cur[p] \notin due[p]
        /\ ppc[p] = "next" => cur[p] = None
        /\ ppc[p] \in {"publish", "create"} => cur[p] \in retryQueue

\* What a poller dead-letters has no content.
PollerHolds == SnapshotKept /\ \A p \in Pollers : ppc[p] = "create" => ~ content[cur[p]]

OperatorHolds == \A o \in Operators : opc[o] # "idle" => dlqEntry[entry[o]] = "open"

OneCopy ==
    \A n \in Notifications :
        /\ queue[n] <= 1
        /\ queue[n] > 0 => \A w \in Workers : ~ Busy(w, n)
        /\ \A v, w \in Workers : Busy(v, n) /\ Busy(w, n) => v = w
        /\ content[n] /\ Waiting(n) =>
              queue[n] = 0 /\ (\A w \in Workers : ~ Busy(w, n)) /\ ~ Resolvable(n)
        /\ content[n] /\ Resolvable(n) => queue[n] = 0 /\ \A w \in Workers : ~ Busy(w, n)

CopyInv == PollerHolds /\ OperatorHolds /\ OneCopy

\* A worker that goes on with its notification makes no copy of it.
LEMMA WorkerKeepsCopy ==
    ASSUME TypeOK, CopyInv, NEW w \in Workers, NEW pc,
           wpc[w] \notin {"idle", "ack"}, wpc' = [wpc EXCEPT ![w] = pc],
           UNCHANGED <<job, content, queue, retryQueue, dlqEntry, poller, operatr>>
    PROVE  CopyInv'
BY DEF TypeOK, poller, operatr, CopyInv, PollerHolds, SnapshotKept, OperatorHolds, OneCopy, Busy,
       Waiting, Resolvable

\* Where nothing fails, no step of any actor makes a second copy.
LEMMA CopyInvStep ==
    ASSUME TypeOK, CopyInv, [Next]_vars, NothingFails, OnePoller, OneOperator
    PROVE  CopyInv'
<1> USE DeliveryAssumption
        DEF DeliveryAssumption, TypeOK, row, broker, worker, poller, operatr, webhook, NothingFails,
            OnePoller, OneOperator, CopyInv, PollerHolds, SnapshotKept, OperatorHolds, OneCopy,
            Busy, Waiting, Resolvable
<1>1. ASSUME NEW w \in Workers, NEW n \in Notifications, SkipHandled(w, n)
      PROVE  CopyInv'
  <2>1. PollerHolds'
    BY <1>1 DEF SkipHandled, Take
  <2>2. OperatorHolds'
    BY <1>1 DEF SkipHandled, Take
  <2>3. OneCopy'
    BY <1>1 DEF SkipHandled, Take
  <2> QED BY <2>1, <2>2, <2>3
<1>2. ASSUME NEW w \in Workers, NEW n \in Notifications, Receive(w, n)
      PROVE  CopyInv'
  <2>1. PollerHolds'
    BY <1>2 DEF Receive, Take
  <2>2. OperatorHolds'
    BY <1>2 DEF Receive, Take
  <2>3. OneCopy'
    BY <1>2 DEF Receive, Take
  <2> QED BY <2>1, <2>2, <2>3
<1>3. ASSUME NEW w \in Workers, Requeue(w)
      PROVE  CopyInv'
  BY <1>3 DEF Requeue, SetStatus, GoTo
<1>4. ASSUME NEW w \in Workers, PassesConsent(w)
      PROVE  CopyInv'
  <2>1. wpc[w] \notin {"idle", "ack"} /\ \E pc : wpc' = [wpc EXCEPT ![w] = pc]
    BY <1>4 DEF PassesConsent, GoTo, StartFailure
  <2>2. UNCHANGED <<job, content, queue, retryQueue, dlqEntry, poller, operatr>>
    BY <1>4 DEF PassesConsent, GoTo, StartFailure
  <2> QED BY <2>1, <2>2, WorkerKeepsCopy
<1>5. ASSUME NEW w \in Workers, BlockNoConsent(w)
      PROVE  CopyInv'
  BY <1>5 DEF BlockNoConsent, SetStatus, GoTo
<1>6. ASSUME NEW w \in Workers, CheckDnd(w)
      PROVE  CopyInv'
  <2>1. wpc[w] \notin {"idle", "ack"} /\ \E pc : wpc' = [wpc EXCEPT ![w] = pc]
    BY <1>6 DEF CheckDnd, GoTo, StartFailure
  <2>2. UNCHANGED <<job, content, queue, retryQueue, dlqEntry, poller, operatr>>
    BY <1>6 DEF CheckDnd, GoTo, StartFailure
  <2> QED BY <2>1, <2>2, WorkerKeepsCopy
<1>7. ASSUME NEW w \in Workers, BlockDnd(w)
      PROVE  CopyInv'
  BY <1>7 DEF BlockDnd, SetStatus, GoTo
<1>8. ASSUME NEW w \in Workers, ProviderAccepts(w)
      PROVE  CopyInv'
  BY <1>8 DEF ProviderAccepts, GoTo
<1>9. ASSUME NEW w \in Workers, ProviderRejects(w)
      PROVE  CopyInv'
  <2>1. wpc[w] \notin {"idle", "ack"} /\ \E pc : wpc' = [wpc EXCEPT ![w] = pc]
    BY <1>9 DEF ProviderRejects, AfterRejection, GoTo, StartFailure
  <2>2. UNCHANGED <<job, content, queue, retryQueue, dlqEntry, poller, operatr>>
    BY <1>9 DEF ProviderRejects, AfterRejection, GoTo, StartFailure
  <2> QED BY <2>1, <2>2, WorkerKeepsCopy
<1>10. ASSUME NEW w \in Workers, HandleSuccess(w)
      PROVE  CopyInv'
  BY <1>10 DEF HandleSuccess, SetStatus, GoTo
<1>11. ASSUME NEW w \in Workers, ConfirmDelivery(w)
      PROVE  CopyInv'
  BY <1>11 DEF ConfirmDelivery, SetStatus, GoTo
<1>12. ASSUME NEW w \in Workers, HandleFailure(w)
      PROVE  CopyInv'
  BY <1>12 DEF HandleFailure, SetStatus, GoTo
<1>13. ASSUME NEW w \in Workers, ScheduleRetry(w)
      PROVE  CopyInv'
  <2>1. CASE RetriesExhausted(job[w], att[w])
    <3>1. /\ wpc[w] \notin {"idle", "ack"} /\ wpc' = [wpc EXCEPT ![w] = "dlq"]
          /\ UNCHANGED <<job, content, queue, retryQueue, dlqEntry, poller, operatr>>
      BY <1>13, <2>1 DEF ScheduleRetry, GoTo
    <3> QED BY <3>1, WorkerKeepsCopy
  <2>2. CASE ~ RetriesExhausted(job[w], att[w])
    <3>1. /\ retryQueue' = retryQueue \cup {job[w]}
          /\ wpc' = [wpc EXCEPT ![w] = "ack"]
          /\ Busy(w, job[w])
          /\ job[w] \in Notifications
          /\ UNCHANGED <<job, content, queue, dlqEntry, due, ppc, cur, opc, entry>>
      BY <1>13, <2>2 DEF ScheduleRetry, GoTo
    <3>2. PollerHolds' /\ OperatorHolds'
      BY <3>1
    <3>3. \A n \in Notifications : content[n] /\ Busy(w, n) => ~ Resolvable(n)
      OBVIOUS
    <3> QED BY <3>1, <3>2, <3>3
  <2> QED BY <2>1, <2>2
<1>14. ASSUME NEW w \in Workers, DeadLetterStatus(w)
      PROVE  CopyInv'
  BY SMTT(20), <1>14 DEF DeadLetterStatus, SetStatus, GoTo
<1>15. ASSUME NEW w \in Workers, DeadLetterEntry(w)
      PROVE  CopyInv'
  <2>1. PollerHolds'
    BY <1>15 DEF DeadLetterEntry, UpsertEntry, GoTo
  <2>2. OperatorHolds'
    BY <1>15 DEF DeadLetterEntry, UpsertEntry, GoTo
  <2>3. OneCopy'
    BY <1>15 DEF DeadLetterEntry, UpsertEntry, GoTo
  <2> QED BY <2>1, <2>2, <2>3
<1>16. ASSUME NEW w \in Workers, Ack(w)
      PROVE  CopyInv'
  <2>1. PollerHolds'
    BY <1>16 DEF Ack, Release, Settle
  <2>2. OperatorHolds'
    BY <1>16 DEF Ack, Release, Settle
  <2>3. OneCopy'
    BY <1>16 DEF Ack, Release, Settle
  <2> QED BY <2>1, <2>2, <2>3
<1>17. ASSUME NEW w \in Workers, ProviderReplyLost(w)
      PROVE  CopyInv'
  <2>1. wpc[w] \notin {"idle", "ack"} /\ \E pc : wpc' = [wpc EXCEPT ![w] = pc]
    BY <1>17 DEF ProviderReplyLost, AfterRejection, GoTo, StartFailure
  <2>2. UNCHANGED <<job, content, queue, retryQueue, dlqEntry, poller, operatr>>
    BY <1>17 DEF ProviderReplyLost, AfterRejection, GoTo, StartFailure
  <2> QED BY <2>1, <2>2, WorkerKeepsCopy
<1>18. ASSUME NEW w \in Workers, WorkerThrows(w)
      PROVE  CopyInv'
  BY <1>18 DEF WorkerThrows, Spend, BudgetKinds, Release, Settle
<1>19. ASSUME NEW w \in Workers, WorkerCrashes(w)
      PROVE  CopyInv'
  BY <1>19 DEF WorkerCrashes, Spend, BudgetKinds, Publish, Release
<1>20. ASSUME NEW w \in Workers, Disconnect(w)
      PROVE  CopyInv'
  BY <1>20 DEF Disconnect, Spend, BudgetKinds, Publish
<1>21. ASSUME NEW p \in Pollers, Poll(p)
      PROVE  CopyInv'
  <2>1. PICK ids \in SUBSET retryQueue :
           ppc[p] = "next" /\ due' = [due EXCEPT ![p] = ids]
    BY <1>21 DEF Poll
  <2>2. UNCHANGED <<job, wpc, content, queue, retryQueue, dlqEntry, ppc, cur, opc, entry>>
    BY <1>21 DEF Poll
  <2> QED BY <2>1, <2>2
<1>22. ASSUME NEW p \in Pollers, MarkRetrying(p)
      PROVE  CopyInv'
  <2>1. PICK n \in due[p] :
           due' = [due EXCEPT ![p] = due[p] \ {n}] /\ cur' = [cur EXCEPT ![p] = n]
    BY <1>22 DEF MarkRetrying
  <2>2. /\ ppc[p] = "next"
        /\ ppc' = [ppc EXCEPT ![p] = "publish"]
        /\ UNCHANGED <<content, dlqEntry, queue, retryQueue, wpc, job, opc, entry>>
    BY <1>22 DEF MarkRetrying
  <2>3. PollerHolds'
    <3>1. SnapshotKept
      OBVIOUS
    <3>2. due[p] \subseteq retryQueue
      BY <3>1, Zenon DEF SnapshotKept
    <3>3. \A q \in Pollers : q = p
      OBVIOUS
    <3>4. due'[p] = due[p] \ {n} /\ cur'[p] = n /\ ppc'[p] = "publish"
      BY <2>1, <2>2
    <3> QED BY <2>1, <2>2, <3>2, <3>3, <3>4
  <2>4. OperatorHolds'
    BY <2>2
  <2>5. OneCopy'
    <3>1. \A m \in Notifications :
             (Waiting(m)' <=> Waiting(m)) /\ (Resolvable(m)' <=> Resolvable(m))
      BY <2>1, <2>2
    <3>2. \A m \in Notifications, w \in Workers : Busy(w, m)' <=> Busy(w, m)
      BY <2>2
    <3> HIDE DEF Waiting, Resolvable, Busy
    <3> QED BY <2>2, <3>1, <3>2
  <2> QED BY <2>3, <2>4, <2>5
<1>23. ASSUME NEW p \in Pollers, Republish(p)
      PROVE  CopyInv'
  <2>1. PollerHolds'
    BY <1>23 DEF Republish, Publish, PollerGoTo
  <2>2. OperatorHolds'
    BY <1>23 DEF Republish, Publish, PollerGoTo
  <2>3. OneCopy'
    BY <1>23 DEF Republish, Publish, PollerGoTo
  <2> QED BY <2>1, <2>2, <2>3
<1>24. ASSUME NEW p \in Pollers, NothingToResend(p)
      PROVE  CopyInv'
  BY SMTT(20), <1>24 DEF NothingToResend, SetStatus, PollerGoTo
<1>25. ASSUME NEW p \in Pollers, CreateEntry(p)
      PROVE  CopyInv'
  <2>1. PollerHolds'
    BY <1>25 DEF CreateEntry, PollerGoTo, PollerNext
  <2>2. OperatorHolds'
    BY <1>25 DEF CreateEntry, PollerGoTo, PollerNext
  <2>3. OneCopy'
    BY <1>25 DEF CreateEntry, PollerGoTo, PollerNext
  <2> QED BY <2>1, <2>2, <2>3
<1>26. ASSUME NEW p \in Pollers, Zrem(p)
      PROVE  CopyInv'
  <2>1. PollerHolds'
    BY <1>26 DEF Zrem, PollerNext
  <2>2. OperatorHolds'
    BY <1>26 DEF Zrem, PollerNext
  <2>3. OneCopy'
    BY <1>26 DEF Zrem, PollerNext
  <2> QED BY <2>1, <2>2, <2>3
<1>27. ASSUME NEW p \in Pollers, PollerFails(p)
      PROVE  CopyInv'
  BY <1>27 DEF PollerFails, Spend, BudgetKinds, PollerNext
<1>28. ASSUME NEW o \in Operators, NEW n \in Notifications, NEW action \in {"retry", "discard"},
              ResolveDlqEntry(o, n, action)
      PROVE  CopyInv'
  BY <1>28 DEF ResolveDlqEntry, Spend, BudgetKinds
<1>29. ASSUME NEW o \in Operators, OperatorMarksRetrying(o)
      PROVE  CopyInv'
  <2>1. PollerHolds'
    BY <1>29 DEF OperatorMarksRetrying, SetStatus, OperatorGoTo
  <2>2. OperatorHolds'
    BY <1>29 DEF OperatorMarksRetrying, SetStatus, OperatorGoTo
  <2>3. OneCopy'
    BY <1>29 DEF OperatorMarksRetrying, SetStatus, OperatorGoTo
  <2> QED BY <2>1, <2>2, <2>3
<1>30. ASSUME NEW o \in Operators, OperatorRepublishes(o)
      PROVE  CopyInv'
  <2>1. PollerHolds'
    BY <1>30 DEF OperatorRepublishes, OperatorGoTo
  <2>2. OperatorHolds'
    BY <1>30 DEF OperatorRepublishes, OperatorGoTo
  <2>3. OneCopy'
    <3>1. /\ entry[o] \in Notifications /\ content[entry[o]] /\ Resolvable(entry[o])
          /\ queue' = [queue EXCEPT ![entry[o]] = queue[entry[o]] + 1]
          /\ opc' = [opc EXCEPT ![o] = "resolveRetry"]
          /\ UNCHANGED <<job, wpc, content, retryQueue, dlqEntry, ppc, cur, entry>>
      BY <1>30 DEF OperatorRepublishes, Publish, OperatorGoTo
    <3>2. queue[entry[o]] = 0 /\ ~ Waiting(entry[o]) /\ \A w \in Workers : ~ Busy(w, entry[o])
      BY <3>1
    <3>3. ~ Resolvable(entry[o])'
      BY <3>1
    <3> QED BY <3>1, <3>2, <3>3
  <2> QED BY <2>1, <2>2, <2>3
<1>31. ASSUME NEW o \in Operators, OperatorRestores(o)
      PROVE  CopyInv'
  <2>1. PollerHolds'
    BY <1>31 DEF OperatorRestores, SetStatus, OperatorDone
  <2>2. OperatorHolds'
    BY <1>31 DEF OperatorRestores, SetStatus, OperatorDone
  <2>3. OneCopy'
    BY <1>31 DEF OperatorRestores, SetStatus, OperatorDone
  <2> QED BY <2>1, <2>2, <2>3
<1>32. ASSUME NEW o \in Operators, MarkResolved(o)
      PROVE  CopyInv'
  <2>1. PollerHolds'
    BY <1>32 DEF MarkResolved, OperatorDone
  <2>2. OperatorHolds'
    BY <1>32 DEF MarkResolved, OperatorDone
  <2>3. OneCopy'
    BY <1>32 DEF MarkResolved, OperatorDone
  <2> QED BY <2>1, <2>2, <2>3
<1>33. ASSUME NEW o \in Operators, OperatorFails(o)
      PROVE  CopyInv'
  BY <1>33 DEF OperatorFails, Spend, BudgetKinds, OperatorDone
<1>34. ASSUME NEW h \in Webhooks, NEW n \in Notifications, NEW to \in NotificationStatus,
              TransitionCheck(h, n, to)
      PROVE  CopyInv'
  BY <1>34 DEF TransitionCheck, Spend, BudgetKinds
<1>35. ASSUME NEW h \in Webhooks, TransitionWrite(h)
      PROVE  CopyInv'
  BY SMTT(20), <1>35 DEF TransitionWrite, SetStatus
<1>36. ASSUME ScrubContent
      PROVE  CopyInv'
  BY <1>36 DEF ScrubContent, Spend, BudgetKinds
<1>37. ASSUME CleanupResolvedEntries
      PROVE  CopyInv'
  <2>1. \A n \in Notifications : dlqEntry'[n] = "open" <=> dlqEntry[n] = "open"
    <3>1. PICK old \in SUBSET {n \in Notifications : dlqEntry[n] \in {"retried", "discarded"}} :
             dlqEntry' = [n \in Notifications |-> IF n \in old THEN "none" ELSE dlqEntry[n]]
      BY <1>37 DEF CleanupResolvedEntries
    <3> QED BY <3>1
  <2>2. UNCHANGED <<job, wpc, content, queue, retryQueue, due, ppc, cur, opc, entry>>
    BY <1>37 DEF CleanupResolvedEntries
  <2> QED BY <2>1, <2>2
<1>38. CASE UNCHANGED vars
  BY <1>38 DEF vars
<1> HIDE DEF TypeOK, CopyInv, NothingFails, OnePoller, OneOperator
<1> QED
  BY <1>1, <1>2, <1>3, <1>4, <1>5, <1>6, <1>7, <1>8, <1>9, <1>10, <1>11, <1>12, <1>13,
     <1>14, <1>15, <1>16, <1>17, <1>18, <1>19, <1>20, <1>21, <1>22, <1>23, <1>24, <1>25, <1>26,
     <1>27, <1>28, <1>29, <1>30, <1>31, <1>32, <1>33, <1>34, <1>35, <1>36, <1>37, <1>38
     DEF Next, Process, WorkerFault, ProcessDueRetries, Resolve

\* Nobody will hand the notification to a provider any more.
Finished(n) ==
    /\ queue[n] = 0
    /\ \A w \in Workers : job[w] = n => wpc[w] \in {"idle", "success", "confirm", "ack"}
    /\ content[n] => ~ Waiting(n) /\ ~ Resolvable(n)

SendInv ==
    \A n \in Notifications :
        \/ accepted[n] <= used["lostReply"]
        \/ accepted[n] <= 1 + used["lostReply"] /\ Finished(n)

\* A notification that nobody will send any more stays so.
LEMMA FinishedStays ==
    ASSUME TypeOK, CopyInv, [Next]_vars, NothingFails, OnePoller, OneOperator,
           NEW m \in Notifications, Finished(m)
    PROVE  Finished(m)'
<1> USE DeliveryAssumption
        DEF DeliveryAssumption, TypeOK, row, broker, worker, poller, operatr, webhook, NothingFails,
            OnePoller, OneOperator, CopyInv, PollerHolds, SnapshotKept, OperatorHolds, Waiting,
            Resolvable, Finished
<1>1. ASSUME NEW w \in Workers, NEW n \in Notifications, SkipHandled(w, n)
      PROVE  Finished(m)'
  BY <1>1 DEF SkipHandled, Take
<1>2. ASSUME NEW w \in Workers, NEW n \in Notifications, Receive(w, n)
      PROVE  Finished(m)'
  BY <1>2 DEF Receive, Take
<1>3. ASSUME NEW w \in Workers, Requeue(w)
      PROVE  Finished(m)'
  BY <1>3 DEF Requeue, SetStatus, GoTo
<1>4. ASSUME NEW w \in Workers, PassesConsent(w)
      PROVE  Finished(m)'
  BY <1>4 DEF PassesConsent, GoTo, StartFailure, AfterConsent
<1>5. ASSUME NEW w \in Workers, BlockNoConsent(w)
      PROVE  Finished(m)'
  BY <1>5 DEF BlockNoConsent, SetStatus, GoTo
<1>6. ASSUME NEW w \in Workers, CheckDnd(w)
      PROVE  Finished(m)'
  BY SMTT(20), <1>6 DEF CheckDnd, GoTo, StartFailure
<1>7. ASSUME NEW w \in Workers, BlockDnd(w)
      PROVE  Finished(m)'
  BY <1>7 DEF BlockDnd, SetStatus, GoTo
<1>8. ASSUME NEW w \in Workers, ProviderAccepts(w)
      PROVE  Finished(m)'
  BY <1>8 DEF ProviderAccepts, GoTo
<1>9. ASSUME NEW w \in Workers, ProviderRejects(w)
      PROVE  Finished(m)'
  BY <1>9 DEF ProviderRejects, AfterRejection, GoTo, StartFailure
<1>10. ASSUME NEW w \in Workers, HandleSuccess(w)
      PROVE  Finished(m)'
  BY <1>10 DEF HandleSuccess, SetStatus, GoTo
<1>11. ASSUME NEW w \in Workers, ConfirmDelivery(w)
      PROVE  Finished(m)'
  BY <1>11 DEF ConfirmDelivery, SetStatus, GoTo
<1>12. ASSUME NEW w \in Workers, HandleFailure(w)
      PROVE  Finished(m)'
  BY <1>12 DEF HandleFailure, SetStatus, GoTo
<1>13. ASSUME NEW w \in Workers, ScheduleRetry(w)
      PROVE  Finished(m)'
  BY SMTT(20), <1>13 DEF ScheduleRetry, RetriesExhausted, GoTo
<1>14. ASSUME NEW w \in Workers, DeadLetterStatus(w)
      PROVE  Finished(m)'
  BY SMTT(20), <1>14 DEF DeadLetterStatus, SetStatus, GoTo
<1>15. ASSUME NEW w \in Workers, DeadLetterEntry(w)
      PROVE  Finished(m)'
  BY SMTT(20), <1>15 DEF DeadLetterEntry, UpsertEntry, GoTo
<1>16. ASSUME NEW w \in Workers, Ack(w)
      PROVE  Finished(m)'
  BY SMTT(20), <1>16 DEF Ack, Release, Settle
<1>17. ASSUME NEW w \in Workers, ProviderReplyLost(w)
      PROVE  Finished(m)'
  BY SMTT(20), <1>17 DEF ProviderReplyLost, Spend, BudgetKinds, AfterRejection, GoTo, StartFailure
<1>18. ASSUME NEW w \in Workers, WorkerThrows(w)
      PROVE  Finished(m)'
  BY <1>18 DEF WorkerThrows, Spend, BudgetKinds, Release, Settle
<1>19. ASSUME NEW w \in Workers, WorkerCrashes(w)
      PROVE  Finished(m)'
  BY <1>19 DEF WorkerCrashes, Spend, BudgetKinds, Publish, Release
<1>20. ASSUME NEW w \in Workers, Disconnect(w)
      PROVE  Finished(m)'
  BY <1>20 DEF Disconnect, Spend, BudgetKinds, Publish
<1>21. ASSUME NEW p \in Pollers, Poll(p)
      PROVE  Finished(m)'
  BY <1>21 DEF Poll
<1>22. ASSUME NEW p \in Pollers, MarkRetrying(p)
      PROVE  Finished(m)'
  BY SMTT(20), <1>22 DEF MarkRetrying, SetStatus
<1>23. ASSUME NEW p \in Pollers, Republish(p)
      PROVE  Finished(m)'
  BY SMTT(20), <1>23 DEF Republish, Publish, PollerGoTo
<1>24. ASSUME NEW p \in Pollers, NothingToResend(p)
      PROVE  Finished(m)'
  BY SMTT(20), <1>24 DEF NothingToResend, SetStatus, PollerGoTo
<1>25. ASSUME NEW p \in Pollers, CreateEntry(p)
      PROVE  Finished(m)'
  BY SMTT(20), <1>25 DEF CreateEntry, PollerGoTo, PollerNext
<1>26. ASSUME NEW p \in Pollers, Zrem(p)
      PROVE  Finished(m)'
  BY <1>26 DEF Zrem, PollerNext
<1>27. ASSUME NEW p \in Pollers, PollerFails(p)
      PROVE  Finished(m)'
  BY <1>27 DEF PollerFails, Spend, BudgetKinds, PollerNext
<1>28. ASSUME NEW o \in Operators, NEW n \in Notifications, NEW action \in {"retry", "discard"},
              ResolveDlqEntry(o, n, action)
      PROVE  Finished(m)'
  BY <1>28 DEF ResolveDlqEntry, Spend, BudgetKinds
<1>29. ASSUME NEW o \in Operators, OperatorMarksRetrying(o)
      PROVE  Finished(m)'
  BY <1>29 DEF OperatorMarksRetrying, SetStatus, OperatorGoTo
<1>30. ASSUME NEW o \in Operators, OperatorRepublishes(o)
      PROVE  Finished(m)'
  BY <1>30 DEF OperatorRepublishes, Publish, OperatorGoTo
<1>31. ASSUME NEW o \in Operators, OperatorRestores(o)
      PROVE  Finished(m)'
  BY <1>31 DEF OperatorRestores, SetStatus, OperatorDone
<1>32. ASSUME NEW o \in Operators, MarkResolved(o)
      PROVE  Finished(m)'
  BY <1>32 DEF MarkResolved, OperatorDone
<1>33. ASSUME NEW o \in Operators, OperatorFails(o)
      PROVE  Finished(m)'
  BY <1>33 DEF OperatorFails, Spend, BudgetKinds, OperatorDone
<1>34. ASSUME NEW h \in Webhooks, NEW n \in Notifications, NEW to \in NotificationStatus,
              TransitionCheck(h, n, to)
      PROVE  Finished(m)'
  BY <1>34 DEF TransitionCheck, Spend, BudgetKinds
<1>35. ASSUME NEW h \in Webhooks, TransitionWrite(h)
      PROVE  Finished(m)'
  BY SMTT(20), <1>35 DEF TransitionWrite, SetStatus
<1>36. ASSUME ScrubContent
      PROVE  Finished(m)'
  BY <1>36 DEF ScrubContent, Spend, BudgetKinds
<1>37. ASSUME CleanupResolvedEntries
      PROVE  Finished(m)'
  <2>1. UNCHANGED <<job, wpc, content, queue, retryQueue, cur, ppc, opc, entry>>
    BY <1>37 DEF CleanupResolvedEntries
  <2>2. dlqEntry'[m] = "open" => dlqEntry[m] = "open"
    BY <1>37 DEF CleanupResolvedEntries
  <2> QED BY <2>1, <2>2
<1>38. CASE UNCHANGED vars
  BY <1>38 DEF vars
<1> HIDE DEF TypeOK, CopyInv, NothingFails, OnePoller, OneOperator, Finished
<1> QED
  BY <1>1, <1>2, <1>3, <1>4, <1>5, <1>6, <1>7, <1>8, <1>9, <1>10, <1>11, <1>12, <1>13,
     <1>14, <1>15, <1>16, <1>17, <1>18, <1>19, <1>20, <1>21, <1>22, <1>23, <1>24, <1>25, <1>26,
     <1>27, <1>28, <1>29, <1>30, <1>31, <1>32, <1>33, <1>34, <1>35, <1>36, <1>37, <1>38
     DEF Next, Process, WorkerFault, ProcessDueRetries, Resolve

\* A provider takes a message only from the worker that holds the only copy.
LEMMA SendInvStep ==
    ASSUME TypeOK, CopyInv, SendInv, [Next]_vars, NothingFails, OnePoller, OneOperator
    PROVE  SendInv'
<1>1. \A n \in Notifications : Finished(n) => Finished(n)'
  BY FinishedStays
<1>2. ASSUME UNCHANGED accepted, used'["lostReply"] >= used["lostReply"]
      PROVE  SendInv'
  <2>1. used'["lostReply"] \in Nat
    BY TypeOKStep DEF TypeOK, BudgetKinds
  <2> QED BY <1>1, <1>2, <2>1 DEF SendInv, TypeOK, BudgetKinds
<1>3. ASSUME NEW w \in Workers, wpc[w] \in {"primary", "fallback"},
             accepted' = [accepted EXCEPT ![job[w]] = accepted[job[w]] + 1],
             \/ UNCHANGED used /\ wpc' = [wpc EXCEPT ![w] = "success"] /\ UNCHANGED job
                /\ UNCHANGED <<queue, content, retryQueue, cur, ppc, dlqEntry, entry, opc>>
             \/ used' = [used EXCEPT !["lostReply"] = used["lostReply"] + 1]
      PROVE  SendInv'
  <2>1. /\ job[w] \in Notifications /\ Busy(w, job[w]) /\ ~ Finished(job[w])
        /\ used["lostReply"] \in Nat /\ accepted \in [Notifications -> Nat]
        /\ used \in [BudgetKinds -> Nat]
    BY <1>3 DEF TypeOK, Busy, Finished, BudgetKinds
  <2>2. accepted[job[w]] <= used["lostReply"]
    BY <2>1 DEF SendInv
  <2>3. CASE UNCHANGED used /\ wpc' = [wpc EXCEPT ![w] = "success"] /\ UNCHANGED job
                /\ UNCHANGED <<queue, content, retryQueue, cur, ppc, dlqEntry, entry, opc>>
    <3>1. Finished(job[w])'
      BY <1>3, <2>1, <2>3 DEF CopyInv, OneCopy, Busy, Finished, TypeOK, Waiting, Resolvable
    <3>2. accepted'[job[w]] <= 1 + used["lostReply"]
      BY <1>3, <2>1, <2>2
    <3>3. \A n \in Notifications : n # job[w] => accepted'[n] = accepted[n]
      BY <1>3, <2>1
    <3> QED BY <1>1, <2>3, <3>1, <3>2, <3>3 DEF SendInv
  <2>4. CASE used' = [used EXCEPT !["lostReply"] = used["lostReply"] + 1]
    <3>1. used'["lostReply"] = used["lostReply"] + 1
      BY <2>1, <2>4 DEF BudgetKinds
    <3>2. accepted'[job[w]] <= used'["lostReply"]
      BY <1>3, <2>1, <2>2, <3>1
    <3>3. \A n \in Notifications : n # job[w] => accepted'[n] = accepted[n]
      BY <1>3, <2>1
    <3> QED BY <1>1, <2>1, <3>1, <3>2, <3>3 DEF SendInv
  <2> QED BY <1>3, <2>3, <2>4
<1>4. ASSUME NEW w \in Workers, ProviderAccepts(w)
      PROVE  SendInv'
  BY <1>3, <1>4 DEF ProviderAccepts, GoTo, row, broker, poller, operatr
<1>5. ASSUME NEW w \in Workers, ProviderReplyLost(w)
      PROVE  SendInv'
  BY <1>3, <1>5 DEF ProviderReplyLost, Spend
<1>6. ASSUME ~ \E w \in Workers : ProviderAccepts(w) \/ ProviderReplyLost(w)
      PROVE  UNCHANGED accepted /\ used'["lostReply"] >= used["lostReply"]
  <2>1. ASSUME NEW kind \in BudgetKinds, Spend(kind)
        PROVE  used'["lostReply"] >= used["lostReply"]
    BY <2>1 DEF Spend, TypeOK, BudgetKinds
  <2>2. ASSUME UNCHANGED used
        PROVE  used'["lostReply"] >= used["lostReply"]
    BY <2>2 DEF TypeOK, BudgetKinds
  <2>3. ASSUME NEW w \in Workers, Process(w) \/ WorkerFault(w)
        PROVE  UNCHANGED accepted /\ (UNCHANGED used \/ \E kind \in BudgetKinds : Spend(kind))
    BY <1>6, <2>3
       DEF Process, WorkerFault, SkipHandled, Receive, Requeue, PassesConsent, BlockNoConsent,
           CheckDnd, BlockDnd, ProviderRejects, HandleSuccess, ConfirmDelivery, HandleFailure,
           ScheduleRetry, DeadLetterStatus, DeadLetterEntry, Ack, WorkerThrows, WorkerCrashes,
           Disconnect, BudgetKinds
  <2>4. ASSUME NEW p \in Pollers, ProcessDueRetries(p) \/ PollerFails(p)
        PROVE  UNCHANGED accepted /\ (UNCHANGED used \/ \E kind \in BudgetKinds : Spend(kind))
    BY <2>4 DEF ProcessDueRetries, Poll, MarkRetrying, Republish, NothingToResend, CreateEntry,
                Zrem, PollerFails, BudgetKinds
  <2>5. ASSUME NEW o \in Operators,
               \/ \E n \in Notifications, action \in {"retry", "discard"} :
                     ResolveDlqEntry(o, n, action)
               \/ Resolve(o) \/ OperatorFails(o)
        PROVE  UNCHANGED accepted /\ (UNCHANGED used \/ \E kind \in BudgetKinds : Spend(kind))
    BY <2>5 DEF ResolveDlqEntry, Resolve, OperatorMarksRetrying, OperatorRepublishes,
                OperatorRestores, MarkResolved, OperatorFails, BudgetKinds
  <2>6. ASSUME NEW h \in Webhooks,
               \/ \E n \in Notifications, to \in NotificationStatus : TransitionCheck(h, n, to)
               \/ TransitionWrite(h)
        PROVE  UNCHANGED accepted /\ (UNCHANGED used \/ \E kind \in BudgetKinds : Spend(kind))
    BY <2>6 DEF TransitionCheck, TransitionWrite, BudgetKinds
  <2>7. CASE ScrubContent \/ CleanupResolvedEntries
    BY <2>1, <2>7 DEF ScrubContent, CleanupResolvedEntries, BudgetKinds
  <2>8. CASE UNCHANGED vars
    BY <2>2, <2>8 DEF vars
  <2> QED BY <2>1, <2>2, <2>3, <2>4, <2>5, <2>6, <2>7, <2>8 DEF Next
<1> QED BY <1>2, <1>4, <1>5, <1>6

\* Initially every notification has its one message.
LEMMA CopyInvInit ==
    ASSUME Init
    PROVE  CopyInv /\ SendInv
BY DeliveryAssumption
   DEF DeliveryAssumption, Init, CopyInv, PollerHolds, SnapshotKept, OperatorHolds, OneCopy,
       Busy, Waiting, Resolvable, SendInv, BudgetKinds

\* Where nothing fails, on one replica with one operator, a notification has
\* one copy at any time, whatever receipts, lost replies and erasures happen.
THEOREM OneCopyAlways ==
    ASSUME NothingFails, OnePoller, OneOperator
    PROVE  Spec => []CopyInv
<1>1. Init => CopyInv
  BY CopyInvInit
<1>2. TypeOK /\ CopyInv /\ [Next]_vars => CopyInv'
  BY CopyInvStep, NothingFails, OnePoller, OneOperator
<1> QED BY <1>1, <1>2, TypeCorrect, PTL DEF Spec

\* "No double-send on failover or broker redelivery": where nothing fails, on
\* one replica with one operator, a provider is given a notification once, and
\* once more per lost reply at most.
THEOREM NeverSentTwice ==
    ASSUME NothingFails, OnePoller, OneOperator
    PROVE  Spec => []NoDoubleSend
<1>1. Init => SendInv
  BY CopyInvInit
<1>2. TypeOK /\ CopyInv /\ SendInv /\ [Next]_vars => SendInv'
  BY SendInvStep, NothingFails, OnePoller, OneOperator
<1>3. TypeOK /\ SendInv => NoDoubleSend
  BY DEF SendInv, NoDoubleSend, TypeOK, BudgetKinds
<1> QED
  BY <1>1, <1>2, <1>3, TypeCorrect, OneCopyAlways, NothingFails, OnePoller, OneOperator, PTL
     DEF Spec

\* A copy that can still be attempted has an attempt left: of the policy's, or
\* of an operator's request.
AttemptsLeft(n) ==
    LET allowed == MaxRetries[n] + used["operator"] IN
    /\ attempts[n] <= allowed + 1
    /\ queue[n] > 0 => attempts[n] <= allowed
    /\ content[n] /\ Waiting(n) => attempts[n] <= allowed
    /\ \A o \in Operators : content[n] /\ entry[o] = n /\ opc[o] \in {"retry", "republish"}
          => attempts[n] <= allowed
    /\ \A w \in Workers :
          /\ Busy(w, n) /\ wpc[w] \notin {"schedule", "dlq", "dlqRow", "confirm"}
                => attempts[n] <= allowed
          /\ job[w] = n /\ wpc[w] = "failed" => att[w] = attempts[n] + 1
          /\ job[w] = n /\ wpc[w] = "schedule" => att[w] = attempts[n]

AttemptInv == \A n \in Notifications : AttemptsLeft(n)

\* The worker at work on a notification holds the only copy of it.
OnlyCopy(w) ==
    /\ queue[job[w]] = 0
    /\ content[job[w]] => ~ Waiting(job[w]) /\ ~ Resolvable(job[w])
    /\ \A v \in Workers : Busy(v, job[w]) => v = w

\* OneCopy, seen from the worker at work.
LEMMA BusyIsOnlyCopy ==
    ASSUME TypeOK, CopyInv, NEW w \in Workers, job[w] \in Notifications,
           wpc[w] \notin {"idle", "ack"}
    PROVE  OnlyCopy(w)
BY DEF TypeOK, CopyInv, OneCopy, OnlyCopy, Busy

\* A worker that goes on to the next check or provider, or to failed, counts
\* nothing yet.
LEMMA WorkerKeepsAttempts ==
    ASSUME TypeOK, AttemptInv, NEW w \in Workers,
           NEW pc \in {"noConsent", "dnd", "dndBlock", "primary", "fallback", "failed"},
           wpc[w] \in {"consent", "dnd", "primary", "fallback"},
           wpc' = [wpc EXCEPT ![w] = pc],
           att' = IF pc = "failed" THEN [att EXCEPT ![w] = attempts[job[w]] + 1] ELSE att,
           used'["operator"] = used["operator"],
           UNCHANGED <<job, attempts, content, queue, retryQueue, poller, operatr>>
    PROVE  AttemptInv'
BY DEF TypeOK, AttemptInv, AttemptsLeft, Busy, Waiting, poller, operatr

\* The worker that counts the attempt has the only copy, so it was allowed.
LEMMA CountsOnce ==
    ASSUME TypeOK, CopyInv, AttemptInv, OneOperator,
           NEW w \in Workers, NEW pc \in {"confirm", "ack", "schedule"},
           wpc[w] \in {"success", "failed"},
           wpc' = [wpc EXCEPT ![w] = pc],
           attempts' = [attempts EXCEPT ![job[w]] = attempts[job[w]] + 1],
           pc = "schedule" => att[w] = attempts[job[w]] + 1,
           UNCHANGED <<job, att, content, queue, retryQueue, poller, operatr, used>>
    PROVE  AttemptInv'
<1>0. PICK n \in Notifications : n = job[w]
  BY DEF TypeOK
<1>1. /\ n \in Notifications /\ attempts[n] \in Nat /\ MaxRetries[n] \in Nat
      /\ used["operator"] \in Nat
      /\ attempts'[n] = attempts[n] + 1
      /\ \A m \in Notifications : m # n => attempts'[m] = attempts[m]
  BY <1>0, DeliveryAssumption DEF DeliveryAssumption, TypeOK, BudgetKinds
<1>2. OnlyCopy(w)
  BY <1>0, BusyIsOnlyCopy
<1>3. AttemptsLeft(n) /\ Busy(w, n)
  BY <1>0 DEF AttemptInv, Busy
<1>4. attempts[n] <= MaxRetries[n] + used["operator"]
  BY <1>0, <1>3 DEF AttemptsLeft
<1>5. queue'[n] = 0 /\ (content'[n] => ~ Waiting(n)')
  BY <1>0, <1>2 DEF OnlyCopy, Waiting, poller
<1>6. content[n] => \A o \in Operators : entry[o] = n => opc[o] \notin {"retry", "republish"}
  BY <1>0, <1>2 DEF OnlyCopy, Resolvable, CopyInv, OperatorHolds, OneOperator, TypeOK
<1>7. \A v \in Workers : Busy(v, n)' => v = w /\ wpc'[v] = pc
  BY <1>0, <1>2, <1>3 DEF OnlyCopy, Busy, TypeOK
<1>8. AttemptsLeft(n)'
  <2>1. \A v \in Workers :
           /\ job'[v] = n /\ wpc'[v] = "failed" => att'[v] = attempts'[n] + 1
           /\ job'[v] = n /\ wpc'[v] = "schedule" => att'[v] = attempts'[n]
    BY <1>0, <1>1, <1>7 DEF Busy
  <2>2. \A v \in Workers :
           Busy(v, n)' => wpc'[v] \in {"schedule", "dlq", "dlqRow", "confirm"}
    BY <1>7 DEF Busy
  <2>3. attempts'[n] <= (MaxRetries[n] + used'["operator"]) + 1
    BY <1>1, <1>4
  <2> QED BY <1>1, <1>5, <1>6, <2>1, <2>2, <2>3 DEF AttemptsLeft, operatr
<1>9. \A m \in Notifications : m # n => AttemptsLeft(m)'
  BY <1>0, <1>1 DEF AttemptInv, AttemptsLeft, Busy, Waiting, TypeOK, poller, operatr
<1> QED BY <1>8, <1>9 DEF AttemptInv

\* An attempt is counted once, by the worker that holds the only copy.
LEMMA AttemptInvStep ==
    ASSUME TypeOK, CopyInv, AttemptInv, [Next]_vars, NothingFails, OnePoller, OneOperator
    PROVE  AttemptInv'
<1> USE DeliveryAssumption
        DEF DeliveryAssumption, TypeOK, row, broker, worker, poller, operatr, webhook, NothingFails,
            OnePoller, OneOperator, CopyInv, PollerHolds, SnapshotKept, OperatorHolds, OneCopy,
            Busy, Waiting, Resolvable, AttemptInv, AttemptsLeft, BudgetKinds
<1>1. ASSUME NEW w \in Workers, NEW n \in Notifications, SkipHandled(w, n)
      PROVE  AttemptInv'
  BY <1>1 DEF SkipHandled, Take
<1>2. ASSUME NEW w \in Workers, NEW n \in Notifications, Receive(w, n)
      PROVE  AttemptInv'
  BY <1>2 DEF Receive, Take
<1>3. ASSUME NEW w \in Workers, Requeue(w)
      PROVE  AttemptInv'
  BY <1>3 DEF Requeue, SetStatus, GoTo
<1>4. ASSUME NEW w \in Workers, PassesConsent(w)
      PROVE  AttemptInv'
  <2>1. PICK pc \in {"noConsent", "dnd", "dndBlock", "primary", "fallback", "failed"} :
           /\ wpc' = [wpc EXCEPT ![w] = pc]
           /\ att' = IF pc = "failed" THEN [att EXCEPT ![w] = attempts[job[w]] + 1] ELSE att
    BY <1>4 DEF PassesConsent, GoTo, StartFailure, AfterConsent
  <2>2. /\ wpc[w] \in {"consent", "dnd", "primary", "fallback"}
        /\ used'["operator"] = used["operator"]
        /\ UNCHANGED <<job, attempts, content, queue, retryQueue, poller, operatr>>
    BY <1>4 DEF PassesConsent, GoTo, StartFailure, AfterConsent
  <2> QED BY <2>1, <2>2, WorkerKeepsAttempts
<1>5. ASSUME NEW w \in Workers, BlockNoConsent(w)
      PROVE  AttemptInv'
  BY <1>5 DEF BlockNoConsent, SetStatus, GoTo
<1>6. ASSUME NEW w \in Workers, CheckDnd(w)
      PROVE  AttemptInv'
  <2>1. PICK pc \in {"noConsent", "dnd", "dndBlock", "primary", "fallback", "failed"} :
           /\ wpc' = [wpc EXCEPT ![w] = pc]
           /\ att' = IF pc = "failed" THEN [att EXCEPT ![w] = attempts[job[w]] + 1] ELSE att
    BY <1>6 DEF CheckDnd, GoTo, StartFailure
  <2>2. /\ wpc[w] \in {"consent", "dnd", "primary", "fallback"}
        /\ used'["operator"] = used["operator"]
        /\ UNCHANGED <<job, attempts, content, queue, retryQueue, poller, operatr>>
    BY <1>6 DEF CheckDnd, GoTo, StartFailure
  <2> QED BY <2>1, <2>2, WorkerKeepsAttempts
<1>7. ASSUME NEW w \in Workers, BlockDnd(w)
      PROVE  AttemptInv'
  BY <1>7 DEF BlockDnd, SetStatus, GoTo
<1>8. ASSUME NEW w \in Workers, ProviderAccepts(w)
      PROVE  AttemptInv'
  BY <1>8 DEF ProviderAccepts, GoTo
<1>9. ASSUME NEW w \in Workers, ProviderRejects(w)
      PROVE  AttemptInv'
  <2>1. PICK pc \in {"noConsent", "dnd", "dndBlock", "primary", "fallback", "failed"} :
           /\ wpc' = [wpc EXCEPT ![w] = pc]
           /\ att' = IF pc = "failed" THEN [att EXCEPT ![w] = attempts[job[w]] + 1] ELSE att
    BY <1>9 DEF ProviderRejects, AfterRejection, GoTo, StartFailure
  <2>2. /\ wpc[w] \in {"consent", "dnd", "primary", "fallback"}
        /\ used'["operator"] = used["operator"]
        /\ UNCHANGED <<job, attempts, content, queue, retryQueue, poller, operatr>>
    BY <1>9 DEF ProviderRejects, AfterRejection, GoTo, StartFailure
  <2> QED BY <2>1, <2>2, WorkerKeepsAttempts
<1>10. ASSUME NEW w \in Workers, HandleSuccess(w)
      PROVE  AttemptInv'
  <2> DEFINE pc == IF HasReceipt(job[w]) THEN "confirm" ELSE "ack"
  <2>1. /\ wpc[w] = "success"
        /\ wpc' = [wpc EXCEPT ![w] = pc]
        /\ attempts' = [attempts EXCEPT ![job[w]] = attempts[job[w]] + 1]
        /\ UNCHANGED <<job, att, content, queue, retryQueue, poller, operatr, used>>
    BY <1>10 DEF HandleSuccess, GoTo
  <2>2. pc \in {"confirm", "ack", "schedule"} /\ pc # "schedule"
    OBVIOUS
  <2> HIDE DEF pc
  <2> QED BY <2>1, <2>2, CountsOnce
<1>11. ASSUME NEW w \in Workers, ConfirmDelivery(w)
      PROVE  AttemptInv'
  BY <1>11 DEF ConfirmDelivery, SetStatus, GoTo
<1>12. ASSUME NEW w \in Workers, HandleFailure(w)
      PROVE  AttemptInv'
  <2>1. /\ wpc[w] = "failed"
        /\ wpc' = [wpc EXCEPT ![w] = "schedule"]
        /\ attempts' = [attempts EXCEPT ![job[w]] = attempts[job[w]] + 1]
        /\ att[w] = attempts[job[w]] + 1
        /\ UNCHANGED <<job, att, content, queue, retryQueue, poller, operatr, used>>
    BY <1>12 DEF HandleFailure, GoTo
  <2> QED BY <2>1, CountsOnce
<1>13. ASSUME NEW w \in Workers, ScheduleRetry(w)
      PROVE  AttemptInv'
  <2>1. /\ job[w] \in Notifications
        /\ wpc[w] = "schedule"
        /\ att[w] = attempts[job[w]]
        /\ UNCHANGED <<job, att, attempts, content, queue, cur, ppc, entry, opc, used, dlqEntry>>
    BY <1>13 DEF ScheduleRetry, GoTo
  <2>2. CASE RetriesExhausted(job[w], att[w])
    <3>1. wpc' = [wpc EXCEPT ![w] = "dlq"] /\ UNCHANGED retryQueue
      BY <1>13, <2>2 DEF ScheduleRetry, GoTo
    <3> QED BY <2>1, <3>1
  <2>3. CASE ~ RetriesExhausted(job[w], att[w])
    <3>1. wpc' = [wpc EXCEPT ![w] = "ack"] /\ retryQueue' = retryQueue \cup {job[w]}
      BY <1>13, <2>3 DEF ScheduleRetry, GoTo
    <3>2. attempts[job[w]] <= MaxRetries[job[w]]
      BY <2>1, <2>3 DEF RetriesExhausted
    <3> QED BY <2>1, <3>1, <3>2
  <2> QED BY <2>2, <2>3
<1>14. ASSUME NEW w \in Workers, DeadLetterStatus(w)
      PROVE  AttemptInv'
  BY SMTT(20), <1>14 DEF DeadLetterStatus, SetStatus, GoTo
<1>15. ASSUME NEW w \in Workers, DeadLetterEntry(w)
      PROVE  AttemptInv'
  BY SMTT(20), <1>15 DEF DeadLetterEntry, UpsertEntry, GoTo
<1>16. ASSUME NEW w \in Workers, Ack(w)
      PROVE  AttemptInv'
  BY SMTT(20), <1>16 DEF Ack, Release, Settle
<1>17. ASSUME NEW w \in Workers, ProviderReplyLost(w)
      PROVE  AttemptInv'
  <2>1. PICK pc \in {"noConsent", "dnd", "dndBlock", "primary", "fallback", "failed"} :
           /\ wpc' = [wpc EXCEPT ![w] = pc]
           /\ att' = IF pc = "failed" THEN [att EXCEPT ![w] = attempts[job[w]] + 1] ELSE att
    BY <1>17 DEF ProviderReplyLost, Spend, AfterRejection, GoTo, StartFailure
  <2>2. /\ wpc[w] \in {"consent", "dnd", "primary", "fallback"}
        /\ used'["operator"] = used["operator"]
        /\ UNCHANGED <<job, attempts, content, queue, retryQueue, poller, operatr>>
    BY <1>17 DEF ProviderReplyLost, Spend, AfterRejection, GoTo, StartFailure
  <2> QED BY <2>1, <2>2, WorkerKeepsAttempts
<1>18. ASSUME NEW w \in Workers, WorkerThrows(w)
      PROVE  AttemptInv'
  BY <1>18 DEF WorkerThrows, Spend, Release, Settle
<1>19. ASSUME NEW w \in Workers, WorkerCrashes(w)
      PROVE  AttemptInv'
  BY SMTT(20), <1>19 DEF WorkerCrashes, Spend, Publish, Release
<1>20. ASSUME NEW w \in Workers, Disconnect(w)
      PROVE  AttemptInv'
  BY <1>20 DEF Disconnect, Spend, Publish
<1>21. ASSUME NEW p \in Pollers, Poll(p)
      PROVE  AttemptInv'
  BY <1>21 DEF Poll
<1>22. ASSUME NEW p \in Pollers, MarkRetrying(p)
      PROVE  AttemptInv'
  BY SMTT(20), <1>22 DEF MarkRetrying, SetStatus
<1>23. ASSUME NEW p \in Pollers, Republish(p)
      PROVE  AttemptInv'
  BY SMTT(20), <1>23 DEF Republish, Publish, PollerGoTo
<1>24. ASSUME NEW p \in Pollers, NothingToResend(p)
      PROVE  AttemptInv'
  BY SMTT(20), <1>24 DEF NothingToResend, SetStatus, PollerGoTo
<1>25. ASSUME NEW p \in Pollers, CreateEntry(p)
      PROVE  AttemptInv'
  BY SMTT(20), <1>25 DEF CreateEntry, PollerGoTo, PollerNext
<1>26. ASSUME NEW p \in Pollers, Zrem(p)
      PROVE  AttemptInv'
  BY <1>26 DEF Zrem, PollerNext
<1>27. ASSUME NEW p \in Pollers, PollerFails(p)
      PROVE  AttemptInv'
  BY SMTT(20), <1>27 DEF PollerFails, Spend, PollerNext
<1>28. ASSUME NEW o \in Operators, NEW n \in Notifications, NEW action \in {"retry", "discard"},
              ResolveDlqEntry(o, n, action)
      PROVE  AttemptInv'
  BY <1>28 DEF ResolveDlqEntry, Spend
<1>29. ASSUME NEW o \in Operators, OperatorMarksRetrying(o)
      PROVE  AttemptInv'
  BY <1>29 DEF OperatorMarksRetrying, SetStatus, OperatorGoTo
<1>30. ASSUME NEW o \in Operators, OperatorRepublishes(o)
      PROVE  AttemptInv'
  BY <1>30 DEF OperatorRepublishes, Publish, OperatorGoTo
<1>31. ASSUME NEW o \in Operators, OperatorRestores(o)
      PROVE  AttemptInv'
  BY <1>31 DEF OperatorRestores, SetStatus, OperatorDone
<1>32. ASSUME NEW o \in Operators, MarkResolved(o)
      PROVE  AttemptInv'
  BY <1>32 DEF MarkResolved, OperatorDone
<1>33. ASSUME NEW o \in Operators, OperatorFails(o)
      PROVE  AttemptInv'
  BY <1>33 DEF OperatorFails, Spend, OperatorDone
<1>34. ASSUME NEW h \in Webhooks, NEW n \in Notifications, NEW to \in NotificationStatus,
              TransitionCheck(h, n, to)
      PROVE  AttemptInv'
  BY <1>34 DEF TransitionCheck, Spend
<1>35. ASSUME NEW h \in Webhooks, TransitionWrite(h)
      PROVE  AttemptInv'
  BY SMTT(20), <1>35 DEF TransitionWrite, SetStatus
<1>36. ASSUME ScrubContent
      PROVE  AttemptInv'
  BY <1>36 DEF ScrubContent, Spend
<1>37. ASSUME CleanupResolvedEntries
      PROVE  AttemptInv'
  BY <1>37 DEF CleanupResolvedEntries, Spend
<1>38. CASE UNCHANGED vars
  BY <1>38 DEF vars
<1> HIDE DEF TypeOK, CopyInv, AttemptInv, NothingFails, OnePoller, OneOperator
<1> QED
  BY <1>1, <1>2, <1>3, <1>4, <1>5, <1>6, <1>7, <1>8, <1>9, <1>10, <1>11, <1>12, <1>13,
     <1>14, <1>15, <1>16, <1>17, <1>18, <1>19, <1>20, <1>21, <1>22, <1>23, <1>24, <1>25, <1>26,
     <1>27, <1>28, <1>29, <1>30, <1>31, <1>32, <1>33, <1>34, <1>35, <1>36, <1>37, <1>38
     DEF Next, Process, WorkerFault, ProcessDueRetries, Resolve

\* Where nothing fails, on one replica with one operator, a notification is
\* attempted no more often than its priority's policy and the operators ask.
THEOREM RetriesAlwaysBounded ==
    ASSUME NothingFails, OnePoller, OneOperator
    PROVE  Spec => []RetryBudget
<1>1. Init => AttemptInv
  BY DeliveryAssumption
     DEF DeliveryAssumption, Init, AttemptInv, AttemptsLeft, Busy, Waiting, BudgetKinds
<1>2. TypeOK /\ CopyInv /\ AttemptInv /\ [Next]_vars => AttemptInv'
  BY AttemptInvStep, NothingFails, OnePoller, OneOperator
<1>3. TypeOK /\ AttemptInv => RetryBudget
  BY DeliveryAssumption
     DEF DeliveryAssumption, AttemptInv, AttemptsLeft, RetryBudget, TypeOK, BudgetKinds
<1> QED
  BY <1>1, <1>2, <1>3, TypeCorrect, OneCopyAlways, NothingFails, OnePoller, OneOperator, PTL
     DEF Spec

DndShown(n) ==
    Channel[n] = "sms" /\ Classification[n] = "PROMOTIONAL" => dndResult[n] = "NOT_REGISTERED"
ConsentShown(n) ==
    ConsentMode = "enforce" /\ requiresConsent(n) => consentRecord[n] = "granted"

\* Whoever may still make the status a sent one has the evidence, and after the
\* send nobody asks again.
EvidenceInv ==
    \A n \in Notifications :
        /\ \/ status[n] \in SentStates
           \/ externalId[n]
           \/ \E h \in Webhooks : hpc[h] = "write" /\ subject[h] = n /\ target[h] \in SentStates
           => DndShown(n) /\ ConsentShown(n) /\ Finished(n)
        /\ \A w \in Workers :
              /\ job[w] = n /\ wpc[w] \in {"primary", "fallback", "success", "confirm"}
                    => DndShown(n) /\ ConsentShown(n)
              /\ job[w] = n /\ wpc[w] = "dnd" => ConsentShown(n)

\* A worker that asks for consent or for the registry writes the evidence of a
\* notification nobody has sent, and goes on only with evidence that allows it.
LEMMA AsksOnce ==
    ASSUME TypeOK, CopyInv, EvidenceInv,
           \A m \in Notifications : Finished(m) => Finished(m)',
           NEW w \in Workers, NEW n \in Notifications, n = job[w],
           wpc[w] \in {"consent", "dnd"},
           NEW pc \in {"primary", "dnd", "noConsent", "failed", "dndBlock"},
           wpc' = [wpc EXCEPT ![w] = pc],
           UNCHANGED <<job, status, externalId, webhook>>,
           \A m \in Notifications :
              m # n => dndResult'[m] = dndResult[m] /\ consentRecord'[m] = consentRecord[m],
           pc = "primary" => DndShown(n)' /\ ConsentShown(n)',
           pc = "dnd" => ConsentShown(n)'
    PROVE  EvidenceInv'
<1>1. ~ Finished(n)
  BY DEF Finished
<1>2. \A v \in Workers : job[v] = n /\ wpc[v] \notin {"idle", "ack"} => v = w
  BY BusyIsOnlyCopy DEF OnlyCopy, Busy
<1>3. \A v \in Workers : v # w => wpc'[v] = wpc[v]
  BY DEF TypeOK
<1>4. wpc'[w] = pc
  BY DEF TypeOK
<1>5. \A m \in Notifications : m # n => (DndShown(m)' <=> DndShown(m))
  BY DEF DndShown
<1>6. \A m \in Notifications : m # n => (ConsentShown(m)' <=> ConsentShown(m))
  BY DEF ConsentShown
<1> QED BY <1>1, <1>2, <1>3, <1>4, <1>5, <1>6 DEF EvidenceInv, webhook

\* Evidence is written before the send and not after it.
LEMMA EvidenceInvStep ==
    ASSUME TypeOK, CopyInv, EvidenceInv, [Next]_vars, NothingFails, OnePoller, OneOperator
    PROVE  EvidenceInv'
<1>0. \A n \in Notifications : Finished(n) => Finished(n)'
  BY FinishedStays
<1> USE DeliveryAssumption, <1>0
        DEF DeliveryAssumption, TypeOK, row, broker, worker, poller, operatr, webhook, NothingFails,
            EvidenceInv, DndShown, ConsentShown, SentStates
<1>1. ASSUME NEW w \in Workers, NEW n \in Notifications, SkipHandled(w, n)
      PROVE  EvidenceInv'
  BY <1>1 DEF SkipHandled, Take
<1>2. ASSUME NEW w \in Workers, NEW n \in Notifications, Receive(w, n)
      PROVE  EvidenceInv'
  BY <1>2 DEF Receive, Take
<1>3. ASSUME NEW w \in Workers, Requeue(w)
      PROVE  EvidenceInv'
  BY <1>3 DEF Requeue, SetStatus, GoTo
<1>4. ASSUME NEW w \in Workers, PassesConsent(w)
      PROVE  EvidenceInv'
  <2>1. PICK n \in Notifications : n = job[w]
    BY <1>4 DEF PassesConsent
  <2>2. PICK pc \in WorkerPc : wpc' = [wpc EXCEPT ![w] = pc]
    BY <1>4 DEF PassesConsent, GoTo, StartFailure, AfterConsent, WorkerPc
  <2>3. UNCHANGED <<job, status, externalId, dndResult, webhook>>
    BY <1>4 DEF PassesConsent, GoTo, StartFailure
  <2>4. \A m \in Notifications : m # n => consentRecord'[m] = consentRecord[m]
    BY <1>4, <2>1 DEF PassesConsent
  <2>5. pc \in {"primary", "dnd"} => ConsentShown(n)'
    BY <1>4, <2>1, <2>2 DEF PassesConsent, GoTo, StartFailure, ConsentPermits, requiresConsent
  <2>6. pc = "primary" => Channel[n] # "sms"
    BY <1>4, <2>1, <2>2 DEF PassesConsent, GoTo, StartFailure, AfterConsent
  <2>7. pc \in {"primary", "dnd", "noConsent", "failed"}
    BY <1>4, <2>2 DEF PassesConsent, GoTo, StartFailure, AfterConsent
  <2>8. wpc[w] = "consent" /\ (pc = "primary" => DndShown(n)')
    BY <1>4, <2>6 DEF PassesConsent
  <2> HIDE DEF TypeOK, EvidenceInv, DndShown, ConsentShown, webhook
  <2> QED BY <2>1, <2>2, <2>3, <2>4, <2>5, <2>7, <2>8, AsksOnce
<1>5. ASSUME NEW w \in Workers, BlockNoConsent(w)
      PROVE  EvidenceInv'
  BY <1>5 DEF BlockNoConsent, SetStatus, GoTo
<1>6. ASSUME NEW w \in Workers, CheckDnd(w)
      PROVE  EvidenceInv'
  <2>1. PICK n \in Notifications : n = job[w]
    BY <1>6 DEF CheckDnd
  <2>2. PICK registry \in DndResults \ {"NOT_CHECKED"} :
           /\ dndResult' = [dndResult EXCEPT ![job[w]] = registry]
           /\ \/ DndAllows(job[w], registry) /\ GoTo(w, "primary")
              \/ ~DndAllows(job[w], registry) /\ registry = "UNKNOWN" /\ StartFailure(w)
              \/ ~DndAllows(job[w], registry) /\ registry # "UNKNOWN" /\ GoTo(w, "dndBlock")
    BY <1>6 DEF CheckDnd
  <2>3. PICK pc \in {"primary", "failed", "dndBlock"} :
           /\ wpc' = [wpc EXCEPT ![w] = pc]
           /\ pc = "primary" => DndAllows(n, registry)
    BY <2>1, <2>2 DEF GoTo, StartFailure
  <2>4. UNCHANGED <<job, status, externalId, consentRecord, webhook>>
    BY <1>6, <2>2 DEF CheckDnd, GoTo, StartFailure
  <2>5. pc = "primary" => DndShown(n)'
    BY <2>1, <2>2, <2>3 DEF DndAllows
  <2>6. \A m \in Notifications : m # n => dndResult'[m] = dndResult[m]
    BY <2>1, <2>2
  <2>7. wpc[w] = "dnd" /\ ConsentShown(n)'
    BY <1>6, <2>1, <2>4 DEF CheckDnd
  <2> HIDE DEF TypeOK, EvidenceInv, DndShown, ConsentShown, webhook
  <2> QED BY <2>1, <2>3, <2>4, <2>5, <2>6, <2>7, AsksOnce
<1>7. ASSUME NEW w \in Workers, BlockDnd(w)
      PROVE  EvidenceInv'
  BY <1>7 DEF BlockDnd, SetStatus, GoTo
<1>8. ASSUME NEW w \in Workers, ProviderAccepts(w)
      PROVE  EvidenceInv'
  BY <1>8 DEF ProviderAccepts, GoTo
<1>9. ASSUME NEW w \in Workers, ProviderRejects(w)
      PROVE  EvidenceInv'
  BY <1>9 DEF ProviderRejects, AfterRejection, GoTo, StartFailure
<1>10. ASSUME NEW w \in Workers, HandleSuccess(w)
      PROVE  EvidenceInv'
  <2>1. job[w] \in Notifications /\ wpc[w] = "success"
    BY <1>10 DEF HandleSuccess
  <2>2. Finished(job[w])
    BY <2>1, BusyIsOnlyCopy DEF OnlyCopy, Busy, Finished
  <2>3. Finished(job[w])'
    BY <1>10, <2>1, <2>2 DEF HandleSuccess, GoTo
  <2> QED BY <1>10, <2>1, <2>3 DEF HandleSuccess, SetStatus, GoTo
<1>11. ASSUME NEW w \in Workers, ConfirmDelivery(w)
      PROVE  EvidenceInv'
  <2>1. job[w] \in Notifications /\ wpc[w] = "confirm"
    BY <1>11 DEF ConfirmDelivery
  <2>2. Finished(job[w])
    BY <2>1, BusyIsOnlyCopy DEF OnlyCopy, Busy, Finished
  <2>3. Finished(job[w])'
    BY <1>11, <2>1, <2>2 DEF ConfirmDelivery, GoTo
  <2> QED BY <1>11, <2>1, <2>3 DEF ConfirmDelivery, SetStatus, GoTo
<1>12. ASSUME NEW w \in Workers, HandleFailure(w)
      PROVE  EvidenceInv'
  BY <1>12 DEF HandleFailure, SetStatus, GoTo
<1>13. ASSUME NEW w \in Workers, ScheduleRetry(w)
      PROVE  EvidenceInv'
  BY SMTT(20), <1>13 DEF ScheduleRetry, RetriesExhausted, GoTo
<1>14. ASSUME NEW w \in Workers, DeadLetterStatus(w)
      PROVE  EvidenceInv'
  BY SMTT(20), <1>14 DEF DeadLetterStatus, SetStatus, GoTo
<1>15. ASSUME NEW w \in Workers, DeadLetterEntry(w)
      PROVE  EvidenceInv'
  BY SMTT(20), <1>15 DEF DeadLetterEntry, UpsertEntry, GoTo
<1>16. ASSUME NEW w \in Workers, Ack(w)
      PROVE  EvidenceInv'
  BY SMTT(20), <1>16 DEF Ack, Release, Settle
<1>17. ASSUME NEW w \in Workers, ProviderReplyLost(w)
      PROVE  EvidenceInv'
  BY SMTT(20), <1>17 DEF ProviderReplyLost, Spend, BudgetKinds, AfterRejection, GoTo, StartFailure
<1>18. ASSUME NEW w \in Workers, WorkerThrows(w)
      PROVE  EvidenceInv'
  BY <1>18 DEF WorkerThrows, Spend, BudgetKinds, Release, Settle
<1>19. ASSUME NEW w \in Workers, WorkerCrashes(w)
      PROVE  EvidenceInv'
  BY <1>19 DEF WorkerCrashes, Spend, BudgetKinds, Publish, Release
<1>20. ASSUME NEW w \in Workers, Disconnect(w)
      PROVE  EvidenceInv'
  BY <1>20 DEF Disconnect, Spend, BudgetKinds, Publish
<1>21. ASSUME NEW p \in Pollers, Poll(p)
      PROVE  EvidenceInv'
  BY <1>21 DEF Poll
<1>22. ASSUME NEW p \in Pollers, MarkRetrying(p)
      PROVE  EvidenceInv'
  BY SMTT(20), <1>22 DEF MarkRetrying, SetStatus
<1>23. ASSUME NEW p \in Pollers, Republish(p)
      PROVE  EvidenceInv'
  BY SMTT(20), <1>23 DEF Republish, Publish, PollerGoTo
<1>24. ASSUME NEW p \in Pollers, NothingToResend(p)
      PROVE  EvidenceInv'
  BY SMTT(20), <1>24 DEF NothingToResend, SetStatus, PollerGoTo
<1>25. ASSUME NEW p \in Pollers, CreateEntry(p)
      PROVE  EvidenceInv'
  BY SMTT(20), <1>25 DEF CreateEntry, PollerGoTo, PollerNext
<1>26. ASSUME NEW p \in Pollers, Zrem(p)
      PROVE  EvidenceInv'
  BY <1>26 DEF Zrem, PollerNext
<1>27. ASSUME NEW p \in Pollers, PollerFails(p)
      PROVE  EvidenceInv'
  BY <1>27 DEF PollerFails, Spend, BudgetKinds, PollerNext
<1>28. ASSUME NEW o \in Operators, NEW n \in Notifications, NEW action \in {"retry", "discard"},
              ResolveDlqEntry(o, n, action)
      PROVE  EvidenceInv'
  BY <1>28 DEF ResolveDlqEntry, Spend, BudgetKinds
<1>29. ASSUME NEW o \in Operators, OperatorMarksRetrying(o)
      PROVE  EvidenceInv'
  BY <1>29 DEF OperatorMarksRetrying, SetStatus, OperatorGoTo
<1>30. ASSUME NEW o \in Operators, OperatorRepublishes(o)
      PROVE  EvidenceInv'
  BY <1>30 DEF OperatorRepublishes, Publish, OperatorGoTo
<1>31. ASSUME NEW o \in Operators, OperatorRestores(o)
      PROVE  EvidenceInv'
  BY <1>31 DEF OperatorRestores, SetStatus, OperatorDone
<1>32. ASSUME NEW o \in Operators, MarkResolved(o)
      PROVE  EvidenceInv'
  BY <1>32 DEF MarkResolved, OperatorDone
<1>33. ASSUME NEW o \in Operators, OperatorFails(o)
      PROVE  EvidenceInv'
  BY <1>33 DEF OperatorFails, Spend, BudgetKinds, OperatorDone
<1>34. ASSUME NEW h \in Webhooks, NEW n \in Notifications, NEW to \in NotificationStatus,
              TransitionCheck(h, n, to)
      PROVE  EvidenceInv'
  <2>1. to \in SentStates => externalId[n] \/ status[n] \in SentStates
    BY <1>34, OnlyDeliveredIsRead
       DEF TransitionCheck, TransitionRequested, processDeliveryReceipt, markAsRead
  <2> QED BY <1>34, <2>1 DEF TransitionCheck
<1>35. ASSUME NEW h \in Webhooks, TransitionWrite(h)
      PROVE  EvidenceInv'
  BY SMTT(20), <1>35 DEF TransitionWrite, SetStatus
<1>36. ASSUME ScrubContent
      PROVE  EvidenceInv'
  BY <1>36 DEF ScrubContent, Spend, BudgetKinds
<1>37. ASSUME CleanupResolvedEntries
      PROVE  EvidenceInv'
  BY <1>37 DEF CleanupResolvedEntries, Spend, BudgetKinds
<1>38. CASE UNCHANGED vars
  BY <1>38 DEF vars
<1> HIDE DEF TypeOK, EvidenceInv, NothingFails
<1> QED
  BY <1>1, <1>2, <1>3, <1>4, <1>5, <1>6, <1>7, <1>8, <1>9, <1>10, <1>11, <1>12, <1>13,
     <1>14, <1>15, <1>16, <1>17, <1>18, <1>19, <1>20, <1>21, <1>22, <1>23, <1>24, <1>25, <1>26,
     <1>27, <1>28, <1>29, <1>30, <1>31, <1>32, <1>33, <1>34, <1>35, <1>36, <1>37, <1>38
     DEF Next, Process, WorkerFault, ProcessDueRetries, Resolve

\* Where nothing fails, on one replica with one operator, the consent and DND
\* evidence on a sent row is the evidence that allowed the send.
THEOREM EvidenceAlwaysMatches ==
    ASSUME NothingFails, OnePoller, OneOperator
    PROVE  Spec => []EvidenceMatchesSend
<1>1. Init => EvidenceInv
  BY DEF Init, EvidenceInv, SentStates
<1>2. TypeOK /\ CopyInv /\ EvidenceInv /\ [Next]_vars => EvidenceInv'
  BY EvidenceInvStep, NothingFails, OnePoller, OneOperator
<1>3. EvidenceInv => EvidenceMatchesSend
  BY DEF EvidenceInv, EvidenceMatchesSend, DndShown, ConsentShown
<1> QED
  BY <1>1, <1>2, <1>3, TypeCorrect, OneCopyAlways, NothingFails, OnePoller, OneOperator, PTL
     DEF Spec

-----------------------------------------------------------------------------
(***************************************************************************)
(* A dead-lettered notification is in the dead letter table, for any       *)
(* number of pollers and operators and with broken connections, as long as *)
(* nothing is cut off between the status and the row and no entry is       *)
(* deleted.                                                                *)
(***************************************************************************)
EntriesKept == \A kind \in {"crash", "throw", "upkeep"} : Budget[kind] = 0

\* A notification shown as dead-lettered is in the table, or whoever wrote the
\* status is about to write the row.
EntryInv ==
    /\ \A n \in Notifications : status[n] = "DLQ" =>
          \/ dlqEntry[n] # "none"
          \/ \E w \in Workers : job[w] = n /\ wpc[w] = "dlqRow"
          \/ \E p \in Pollers : cur[p] = n /\ ppc[p] = "create"
    /\ \A o \in Operators : opc[o] # "idle" => dlqEntry[entry[o]] # "none"
    /\ \A h \in Webhooks : target[h] \in {"DELIVERED", "FAILED", "SENT", "READ"}

\* Receipts and reads ask for these states only.
LEMMA ReceiptTargets ==
    ASSUME NEW n \in Notifications, NEW to, TransitionRequested(n, to)
    PROVE  to \in {"DELIVERED", "FAILED", "SENT", "READ"}
<1>1. ReceiptStatuses(Channel[n]) \subseteq {"DELIVERED", "FAILED", "SENT", "READ"}
  BY DeliveryAssumption, Zenon
     DEF ReceiptStatuses, msg91Dlr, twilioDlr, fcmDlr, whatsappDlr
<1> QED BY <1>1 DEF TransitionRequested, processDeliveryReceipt, markAsRead

\* The status DLQ is followed by its row, and no row is lost.
LEMMA EntryInvStep ==
    ASSUME TypeOK, EntryInv, [Next]_vars, EntriesKept
    PROVE  EntryInv'
<1> USE DeliveryAssumption
        DEF DeliveryAssumption, TypeOK, row, broker, worker, poller, operatr, webhook, EntriesKept,
            EntryInv
<1>1. ASSUME NEW w \in Workers, NEW n \in Notifications, SkipHandled(w, n)
      PROVE  EntryInv'
  BY <1>1 DEF SkipHandled, Take
<1>2. ASSUME NEW w \in Workers, NEW n \in Notifications, Receive(w, n)
      PROVE  EntryInv'
  BY <1>2 DEF Receive, Take
<1>3. ASSUME NEW w \in Workers, Requeue(w)
      PROVE  EntryInv'
  BY <1>3 DEF Requeue, SetStatus, GoTo
<1>4. ASSUME NEW w \in Workers, PassesConsent(w)
      PROVE  EntryInv'
  BY <1>4 DEF PassesConsent, GoTo, StartFailure, AfterConsent
<1>5. ASSUME NEW w \in Workers, BlockNoConsent(w)
      PROVE  EntryInv'
  BY <1>5 DEF BlockNoConsent, SetStatus, GoTo
<1>6. ASSUME NEW w \in Workers, CheckDnd(w)
      PROVE  EntryInv'
  BY SMTT(20), <1>6 DEF CheckDnd, GoTo, StartFailure
<1>7. ASSUME NEW w \in Workers, BlockDnd(w)
      PROVE  EntryInv'
  BY <1>7 DEF BlockDnd, SetStatus, GoTo
<1>8. ASSUME NEW w \in Workers, ProviderAccepts(w)
      PROVE  EntryInv'
  BY <1>8 DEF ProviderAccepts, GoTo
<1>9. ASSUME NEW w \in Workers, ProviderRejects(w)
      PROVE  EntryInv'
  BY <1>9 DEF ProviderRejects, AfterRejection, GoTo, StartFailure
<1>10. ASSUME NEW w \in Workers, HandleSuccess(w)
      PROVE  EntryInv'
  BY <1>10 DEF HandleSuccess, SetStatus, GoTo
<1>11. ASSUME NEW w \in Workers, ConfirmDelivery(w)
      PROVE  EntryInv'
  BY <1>11 DEF ConfirmDelivery, SetStatus, GoTo
<1>12. ASSUME NEW w \in Workers, HandleFailure(w)
      PROVE  EntryInv'
  BY <1>12 DEF HandleFailure, SetStatus, GoTo
<1>13. ASSUME NEW w \in Workers, ScheduleRetry(w)
      PROVE  EntryInv'
  BY SMTT(20), <1>13 DEF ScheduleRetry, RetriesExhausted, GoTo
<1>14. ASSUME NEW w \in Workers, DeadLetterStatus(w)
      PROVE  EntryInv'
  BY SMTT(20), <1>14 DEF DeadLetterStatus, SetStatus, GoTo
<1>15. ASSUME NEW w \in Workers, DeadLetterEntry(w)
      PROVE  EntryInv'
  BY SMTT(20), <1>15 DEF DeadLetterEntry, UpsertEntry, GoTo
<1>16. ASSUME NEW w \in Workers, Ack(w)
      PROVE  EntryInv'
  BY SMTT(20), <1>16 DEF Ack, Release, Settle
<1>17. ASSUME NEW w \in Workers, ProviderReplyLost(w)
      PROVE  EntryInv'
  BY SMTT(20), <1>17 DEF ProviderReplyLost, Spend, BudgetKinds, AfterRejection, GoTo, StartFailure
<1>18. ASSUME NEW w \in Workers, WorkerThrows(w)
      PROVE  EntryInv'
  BY <1>18 DEF WorkerThrows, Spend, BudgetKinds, Release, Settle
<1>19. ASSUME NEW w \in Workers, WorkerCrashes(w)
      PROVE  EntryInv'
  BY <1>19 DEF WorkerCrashes, Spend, BudgetKinds, Publish, Release
<1>20. ASSUME NEW w \in Workers, Disconnect(w)
      PROVE  EntryInv'
  BY <1>20 DEF Disconnect, Spend, BudgetKinds, Publish
<1>21. ASSUME NEW p \in Pollers, Poll(p)
      PROVE  EntryInv'
  BY <1>21 DEF Poll
<1>22. ASSUME NEW p \in Pollers, MarkRetrying(p)
      PROVE  EntryInv'
  BY SMTT(20), <1>22 DEF MarkRetrying, SetStatus
<1>23. ASSUME NEW p \in Pollers, Republish(p)
      PROVE  EntryInv'
  BY SMTT(20), <1>23 DEF Republish, Publish, PollerGoTo
<1>24. ASSUME NEW p \in Pollers, NothingToResend(p)
      PROVE  EntryInv'
  BY SMTT(20), <1>24 DEF NothingToResend, SetStatus, PollerGoTo
<1>25. ASSUME NEW p \in Pollers, CreateEntry(p)
      PROVE  EntryInv'
  BY SMTT(20), <1>25 DEF CreateEntry, PollerGoTo, PollerNext
<1>26. ASSUME NEW p \in Pollers, Zrem(p)
      PROVE  EntryInv'
  BY <1>26 DEF Zrem, PollerNext
<1>27. ASSUME NEW p \in Pollers, PollerFails(p)
      PROVE  EntryInv'
  BY <1>27 DEF PollerFails, Spend, BudgetKinds, PollerNext
<1>28. ASSUME NEW o \in Operators, NEW n \in Notifications, NEW action \in {"retry", "discard"},
              ResolveDlqEntry(o, n, action)
      PROVE  EntryInv'
  BY <1>28 DEF ResolveDlqEntry, Spend, BudgetKinds
<1>29. ASSUME NEW o \in Operators, OperatorMarksRetrying(o)
      PROVE  EntryInv'
  BY <1>29 DEF OperatorMarksRetrying, SetStatus, OperatorGoTo
<1>30. ASSUME NEW o \in Operators, OperatorRepublishes(o)
      PROVE  EntryInv'
  BY <1>30 DEF OperatorRepublishes, Publish, OperatorGoTo
<1>31. ASSUME NEW o \in Operators, OperatorRestores(o)
      PROVE  EntryInv'
  BY <1>31 DEF OperatorRestores, SetStatus, OperatorDone
<1>32. ASSUME NEW o \in Operators, MarkResolved(o)
      PROVE  EntryInv'
  BY <1>32 DEF MarkResolved, OperatorDone
<1>33. ASSUME NEW o \in Operators, OperatorFails(o)
      PROVE  EntryInv'
  BY <1>33 DEF OperatorFails, Spend, BudgetKinds, OperatorDone
<1>34. ASSUME NEW h \in Webhooks, NEW n \in Notifications, NEW to \in NotificationStatus,
              TransitionCheck(h, n, to)
      PROVE  EntryInv'
  <2>1. to \in {"DELIVERED", "FAILED", "SENT", "READ"}
    BY <1>34, ReceiptTargets DEF TransitionCheck
  <2> QED BY <1>34, <2>1 DEF TransitionCheck
<1>35. ASSUME NEW h \in Webhooks, TransitionWrite(h)
      PROVE  EntryInv'
  BY SMTT(20), <1>35 DEF TransitionWrite, SetStatus
<1>36. ASSUME ScrubContent
      PROVE  EntryInv'
  BY <1>36 DEF ScrubContent, Spend, BudgetKinds
<1>37. ASSUME CleanupResolvedEntries
      PROVE  EntryInv'
  BY <1>37 DEF CleanupResolvedEntries, Spend, BudgetKinds
<1>38. CASE UNCHANGED vars
  BY <1>38 DEF vars
<1> HIDE DEF TypeOK, EntryInv, EntriesKept
<1> QED
  BY <1>1, <1>2, <1>3, <1>4, <1>5, <1>6, <1>7, <1>8, <1>9, <1>10, <1>11, <1>12, <1>13,
     <1>14, <1>15, <1>16, <1>17, <1>18, <1>19, <1>20, <1>21, <1>22, <1>23, <1>24, <1>25, <1>26,
     <1>27, <1>28, <1>29, <1>30, <1>31, <1>32, <1>33, <1>34, <1>35, <1>36, <1>37, <1>38
     DEF Next, Process, WorkerFault, ProcessDueRetries, Resolve

\* Dead-lettering that is neither cut off nor cleaned up leaves a row an
\* operator can find, however many replicas and operators there are.
THEOREM DeadLetterAlwaysHasEntry ==
    ASSUME EntriesKept
    PROVE  Spec => []DeadLetterHasEntry
<1>1. Init => EntryInv
  BY DEF Init, EntryInv
<1>2. TypeOK /\ EntryInv /\ [Next]_vars => EntryInv'
  BY EntryInvStep, EntriesKept
<1>3. EntryInv => DeadLetterHasEntry
  BY DEF EntryInv, DeadLetterHasEntry, Held
<1> QED BY <1>1, <1>2, <1>3, TypeCorrect, PTL DEF Spec

-----------------------------------------------------------------------------
(***************************************************************************)
(* Nothing is stranded while it is shown as QUEUED or RETRYING.            *)
(***************************************************************************)
OneRequest == Budget["operator"] <= 1

Undecided ==
    {"requeue", "consent", "noConsent", "dnd", "dndBlock", "primary", "fallback", "success",
     "failed"}

\* The id is due for a retry that is neither published nor given up.
RetryDue(n) ==
    n \in retryQueue /\ \A p \in Pollers : ~ (cur[p] = n /\ ppc[p] \in {"create", "zrem"})

\* Who will move a notification shown as QUEUED or RETRYING on.
Carried(n) ==
    \/ queue[n] > 0 \/ deadLettered[n] > 0
    \/ RetryDue(n)
    \/ \E w \in Workers : job[w] = n /\ wpc[w] \in Undecided
    \/ /\ dlqEntry[n] = "open"
       /\ used["operator"] > 0
       /\ \A o \in Operators :
             ~ (entry[o] = n /\ opc[o] \in {"resolveRetry", "resolveDiscard"})

FlightInv ==
    /\ SnapshotKept
    /\ \A o \in Operators : opc[o] # "idle" =>
          /\ dlqEntry[entry[o]] = "open"
          /\ used["operator"] > 0
          /\ \A q \in Operators : opc[q] # "idle" => q = o
    /\ \A h \in Webhooks : target[h] \in {"DELIVERED", "FAILED", "SENT", "READ"}
    /\ used["disconnect"] = 0 =>
          /\ \A w \in Workers : attached[w]
          /\ \A n \in Notifications : status[n] \in {"QUEUED", "RETRYING"} => Carried(n)

\* A worker that goes on, before it writes the outcome, carries its
\* notification still.
LEMMA WorkerStaysCarrier ==
    ASSUME TypeOK, FlightInv, NEW w \in Workers, NEW pc \in Undecided,
           wpc[w] \in Undecided, wpc' = [wpc EXCEPT ![w] = pc],
           used'["operator"] = used["operator"], used'["disconnect"] = used["disconnect"],
           UNCHANGED <<status, dlqEntry, broker, retryQueue, job, attached, poller, operatr,
                       webhook>>
    PROVE  FlightInv'
<1>1. \A v \in Workers : wpc[v] \in Undecided => wpc'[v] \in Undecided
  BY DEF TypeOK
<1>2. \A n \in Notifications : RetryDue(n) => RetryDue(n)'
  BY DEF RetryDue, poller
<1>3. \A n \in Notifications : Carried(n) => Carried(n)'
  BY <1>1, <1>2 DEF Carried, broker, operatr
<1>4. SnapshotKept'
  BY DEF FlightInv, SnapshotKept, poller
<1> QED BY <1>3, <1>4 DEF FlightInv, operatr, webhook, TypeOK

\* Whoever writes QUEUED or RETRYING, or gives up a copy, leaves a carrier.
LEMMA FlightInvStep ==
    ASSUME TypeOK, FlightInv, [Next]_vars, OnePoller, OneRequest
    PROVE  FlightInv'
<1> USE DeliveryAssumption
        DEF DeliveryAssumption, TypeOK, row, broker, worker, poller, operatr, webhook,
            OnePoller, OneRequest, FlightInv, SnapshotKept, Carried, RetryDue, Undecided,
            BudgetKinds
<1>1. ASSUME NEW w \in Workers, NEW n \in Notifications, SkipHandled(w, n)
      PROVE  FlightInv'
  BY <1>1 DEF SkipHandled, Take, AlreadyHandled
<1>2. ASSUME NEW w \in Workers, NEW n \in Notifications, Receive(w, n)
      PROVE  FlightInv'
  <2>1. /\ job' = [job EXCEPT ![w] = n]
        /\ \E pc \in {"requeue", "consent"} : wpc' = [wpc EXCEPT ![w] = pc]
        /\ queue' = [queue EXCEPT ![n] = queue[n] - 1]
        /\ wpc[w] = "idle"
        /\ UNCHANGED <<status, dlqEntry, deadLettered, retryQueue, attached, due, cur, ppc, opc,
                       entry, target, used>>
    BY <1>2 DEF Receive, Take
  <2>2. \E v \in Workers : job'[v] = n /\ wpc'[v] \in Undecided
    BY <2>1
  <2>3. \A m \in Notifications : m # n => queue'[m] = queue[m]
    BY <2>1
  <2>4. \A v \in Workers : wpc[v] \in Undecided => job'[v] = job[v] /\ wpc'[v] = wpc[v]
    BY <2>1
  <2>5. \A m \in Notifications : Carried(m) => Carried(m)'
    BY <2>1, <2>2, <2>3, <2>4
  <2> HIDE DEF Carried
  <2> QED BY <2>1, <2>5
<1>3. ASSUME NEW w \in Workers, Requeue(w)
      PROVE  FlightInv'
  BY <1>3 DEF Requeue, SetStatus, GoTo
<1>4. ASSUME NEW w \in Workers, PassesConsent(w)
      PROVE  FlightInv'
  <2>1. wpc[w] \in Undecided /\ \E pc \in Undecided : wpc' = [wpc EXCEPT ![w] = pc]
    BY <1>4 DEF PassesConsent, GoTo, StartFailure, AfterConsent
  <2>2. /\ used'["operator"] = used["operator"] /\ used'["disconnect"] = used["disconnect"]
        /\ UNCHANGED <<status, dlqEntry, broker, retryQueue, job, attached, poller, operatr,
                       webhook>>
    BY <1>4 DEF PassesConsent, GoTo, StartFailure, AfterConsent
  <2> HIDE DEF TypeOK, FlightInv, Undecided, broker, poller, operatr, webhook
  <2> QED BY <2>1, <2>2, WorkerStaysCarrier
<1>5. ASSUME NEW w \in Workers, BlockNoConsent(w)
      PROVE  FlightInv'
  BY <1>5 DEF BlockNoConsent, SetStatus, GoTo
<1>6. ASSUME NEW w \in Workers, CheckDnd(w)
      PROVE  FlightInv'
  <2>1. wpc[w] \in Undecided /\ \E pc \in Undecided : wpc' = [wpc EXCEPT ![w] = pc]
    BY <1>6 DEF CheckDnd, GoTo, StartFailure
  <2>2. /\ used'["operator"] = used["operator"] /\ used'["disconnect"] = used["disconnect"]
        /\ UNCHANGED <<status, dlqEntry, broker, retryQueue, job, attached, poller, operatr,
                       webhook>>
    BY <1>6 DEF CheckDnd, GoTo, StartFailure
  <2> HIDE DEF TypeOK, FlightInv, Undecided, broker, poller, operatr, webhook
  <2> QED BY <2>1, <2>2, WorkerStaysCarrier
<1>7. ASSUME NEW w \in Workers, BlockDnd(w)
      PROVE  FlightInv'
  BY <1>7 DEF BlockDnd, SetStatus, GoTo
<1>8. ASSUME NEW w \in Workers, ProviderAccepts(w)
      PROVE  FlightInv'
  <2>1. wpc[w] \in Undecided /\ \E pc \in Undecided : wpc' = [wpc EXCEPT ![w] = pc]
    BY <1>8 DEF ProviderAccepts, GoTo
  <2>2. /\ used'["operator"] = used["operator"] /\ used'["disconnect"] = used["disconnect"]
        /\ UNCHANGED <<status, dlqEntry, broker, retryQueue, job, attached, poller, operatr,
                       webhook>>
    BY <1>8 DEF ProviderAccepts, GoTo
  <2> HIDE DEF TypeOK, FlightInv, Undecided, broker, poller, operatr, webhook
  <2> QED BY <2>1, <2>2, WorkerStaysCarrier
<1>9. ASSUME NEW w \in Workers, ProviderRejects(w)
      PROVE  FlightInv'
  <2>1. wpc[w] \in Undecided /\ \E pc \in Undecided : wpc' = [wpc EXCEPT ![w] = pc]
    BY <1>9 DEF ProviderRejects, AfterRejection, GoTo, StartFailure
  <2>2. /\ used'["operator"] = used["operator"] /\ used'["disconnect"] = used["disconnect"]
        /\ UNCHANGED <<status, dlqEntry, broker, retryQueue, job, attached, poller, operatr,
                       webhook>>
    BY <1>9 DEF ProviderRejects, AfterRejection, GoTo, StartFailure
  <2> HIDE DEF TypeOK, FlightInv, Undecided, broker, poller, operatr, webhook
  <2> QED BY <2>1, <2>2, WorkerStaysCarrier
<1>10. ASSUME NEW w \in Workers, HandleSuccess(w)
      PROVE  FlightInv'
  BY <1>10 DEF HandleSuccess, SetStatus, GoTo
<1>11. ASSUME NEW w \in Workers, ConfirmDelivery(w)
      PROVE  FlightInv'
  BY <1>11 DEF ConfirmDelivery, SetStatus, GoTo
<1>12. ASSUME NEW w \in Workers, HandleFailure(w)
      PROVE  FlightInv'
  BY <1>12 DEF HandleFailure, SetStatus, GoTo
<1>13. ASSUME NEW w \in Workers, ScheduleRetry(w)
      PROVE  FlightInv'
  <2>1. /\ wpc[w] = "schedule"
        /\ \E pc \in {"dlq", "ack"} : wpc' = [wpc EXCEPT ![w] = pc]
        /\ retryQueue \subseteq retryQueue'
        /\ UNCHANGED <<status, dlqEntry, queue, deadLettered, job, attached, due, cur, ppc, opc,
                       entry, target, used>>
    BY <1>13 DEF ScheduleRetry, GoTo
  <2>2. \A v \in Workers : wpc[v] \in Undecided => wpc'[v] = wpc[v]
    BY <2>1
  <2>3. \A n \in Notifications : RetryDue(n) => RetryDue(n)'
    BY <2>1
  <2>4. SnapshotKept'
    BY <2>1
  <2>5. \A n \in Notifications : Carried(n) => Carried(n)'
    <3> HIDE DEF RetryDue, Undecided
    <3> QED BY <2>1, <2>2, <2>3
  <2> HIDE DEF Carried, SnapshotKept
  <2> QED BY <2>1, <2>4, <2>5
<1>14. ASSUME NEW w \in Workers, DeadLetterStatus(w)
      PROVE  FlightInv'
  BY SMTT(20), <1>14 DEF DeadLetterStatus, SetStatus, GoTo
<1>15. ASSUME NEW w \in Workers, DeadLetterEntry(w)
      PROVE  FlightInv'
  BY SMTT(20), <1>15 DEF DeadLetterEntry, UpsertEntry, GoTo
<1>16. ASSUME NEW w \in Workers, Ack(w)
      PROVE  FlightInv'
  BY SMTT(20), <1>16 DEF Ack, Release, Settle
<1>17. ASSUME NEW w \in Workers, ProviderReplyLost(w)
      PROVE  FlightInv'
  <2>1. wpc[w] \in Undecided /\ \E pc \in Undecided : wpc' = [wpc EXCEPT ![w] = pc]
    BY <1>17 DEF ProviderReplyLost, Spend, AfterRejection, GoTo, StartFailure
  <2>2. /\ used'["operator"] = used["operator"] /\ used'["disconnect"] = used["disconnect"]
        /\ UNCHANGED <<status, dlqEntry, broker, retryQueue, job, attached, poller, operatr,
                       webhook>>
    BY <1>17 DEF ProviderReplyLost, Spend, AfterRejection, GoTo, StartFailure
  <2> HIDE DEF TypeOK, FlightInv, Undecided, broker, poller, operatr, webhook
  <2> QED BY <2>1, <2>2, WorkerStaysCarrier
<1>18. ASSUME NEW w \in Workers, WorkerThrows(w)
      PROVE  FlightInv'
  <2>1. job[w] \in Notifications
    BY <1>18 DEF WorkerThrows
  <2>2. /\ used'["operator"] = used["operator"] /\ used'["disconnect"] = used["disconnect"]
        /\ UNCHANGED <<status, dlqEntry, queue, retryQueue, due, cur, ppc, opc, entry, target>>
    BY <1>18 DEF WorkerThrows, Spend
  <2>3. /\ wpc' = [wpc EXCEPT ![w] = "idle"]
        /\ job' = [job EXCEPT ![w] = None]
        /\ attached[w] => attached' = attached /\ deadLettered'[job[w]] > 0
        /\ \A n \in Notifications : deadLettered[n] > 0 => deadLettered'[n] > 0
    BY <1>18, <2>1 DEF WorkerThrows, Release, Settle
  <2>4. ASSUME used["disconnect"] = 0, NEW n \in Notifications, Carried(n)
        PROVE  Carried(n)'
    <3>1. CASE n = job[w]
      BY <2>3, <2>4, <3>1
    <3>2. CASE n # job[w]
      <4>1. \A v \in Workers : job[v] = n => job'[v] = n /\ wpc'[v] = wpc[v]
        BY <2>3, <3>2
      <4>2. RetryDue(n) => RetryDue(n)'
        BY <2>2
      <4> HIDE DEF RetryDue, Undecided
      <4> QED BY <2>2, <2>3, <2>4, <4>1, <4>2
    <3> QED BY <3>1, <3>2
  <2> HIDE DEF Carried
  <2> QED BY <2>2, <2>3, <2>4
<1>19. ASSUME NEW w \in Workers, WorkerCrashes(w)
      PROVE  FlightInv'
  BY SMTT(20), <1>19 DEF WorkerCrashes, Spend, Publish, Release
<1>20. ASSUME NEW w \in Workers, Disconnect(w)
      PROVE  FlightInv'
  BY <1>20 DEF Disconnect, Spend, Publish
<1>21. ASSUME NEW p \in Pollers, Poll(p)
      PROVE  FlightInv'
  BY <1>21 DEF Poll
<1>22. ASSUME NEW p \in Pollers, MarkRetrying(p)
      PROVE  FlightInv'
  <2>1. PICK n \in due[p] :
           /\ status' = [status EXCEPT ![n] = "RETRYING"]
           /\ due' = [due EXCEPT ![p] = due[p] \ {n}]
           /\ cur' = [cur EXCEPT ![p] = n]
    BY <1>22 DEF MarkRetrying, SetStatus
  <2>2. /\ ppc[p] = "next"
        /\ ppc' = [ppc EXCEPT ![p] = "publish"]
        /\ UNCHANGED <<dlqEntry, queue, deadLettered, retryQueue, wpc, job, attached, opc, entry,
                       target, used>>
    BY <1>22 DEF MarkRetrying
  <2>3. \A m \in Notifications : m # n => status'[m] = status[m]
    BY <2>1
  <2>4. n \in Notifications /\ n \in retryQueue
    <3>1. SnapshotKept
      OBVIOUS
    <3>2. due[p] \subseteq retryQueue
      BY <3>1, Zenon DEF SnapshotKept
    <3> QED BY <2>1, <3>2
  <2>5. \A m \in Notifications : RetryDue(m) => RetryDue(m)'
    BY <2>1, <2>2
  <2>6. RetryDue(n)'
    BY <2>1, <2>2, <2>4
  <2>7. \A m \in Notifications : Carried(m) => Carried(m)'
    BY <2>2, <2>5
  <2>8. Carried(n)'
    BY <2>6
  <2>9. SnapshotKept'
    <3>1. \A q \in Pollers : q = p
      OBVIOUS
    <3>2. due'[p] = due[p] \ {n} /\ cur'[p] = n /\ ppc'[p] = "publish"
      BY <2>1, <2>2
    <3>3. due'[p] \subseteq retryQueue
      <4>1. SnapshotKept
        OBVIOUS
      <4>2. due[p] \subseteq retryQueue
        BY <4>1, Zenon DEF SnapshotKept
      <4> QED BY <3>2, <4>2
    <3> QED BY <2>2, <2>4, <3>1, <3>2, <3>3
  <2> HIDE DEF Carried, SnapshotKept
  <2> QED BY <2>2, <2>3, <2>7, <2>8, <2>9
<1>23. ASSUME NEW p \in Pollers, Republish(p)
      PROVE  FlightInv'
  BY SMTT(20), <1>23 DEF Republish, Publish, PollerGoTo
<1>24. ASSUME NEW p \in Pollers, NothingToResend(p)
      PROVE  FlightInv'
  BY SMTT(20), <1>24 DEF NothingToResend, SetStatus, PollerGoTo
<1>25. ASSUME NEW p \in Pollers, CreateEntry(p)
      PROVE  FlightInv'
  BY SMTT(20), <1>25 DEF CreateEntry, PollerGoTo, PollerNext
<1>26. ASSUME NEW p \in Pollers, Zrem(p)
      PROVE  FlightInv'
  BY <1>26 DEF Zrem, PollerNext
<1>27. ASSUME NEW p \in Pollers, PollerFails(p)
      PROVE  FlightInv'
  BY SMTT(20), <1>27 DEF PollerFails, Spend, PollerNext
<1>28. ASSUME NEW o \in Operators, NEW n \in Notifications, NEW action \in {"retry", "discard"},
              ResolveDlqEntry(o, n, action)
      PROVE  FlightInv'
  BY <1>28 DEF ResolveDlqEntry, Spend
<1>29. ASSUME NEW o \in Operators, OperatorMarksRetrying(o)
      PROVE  FlightInv'
  BY <1>29 DEF OperatorMarksRetrying, SetStatus, OperatorGoTo
<1>30. ASSUME NEW o \in Operators, OperatorRepublishes(o)
      PROVE  FlightInv'
  BY <1>30 DEF OperatorRepublishes, Publish, OperatorGoTo
<1>31. ASSUME NEW o \in Operators, OperatorRestores(o)
      PROVE  FlightInv'
  BY <1>31 DEF OperatorRestores, SetStatus, OperatorDone
<1>32. ASSUME NEW o \in Operators, MarkResolved(o)
      PROVE  FlightInv'
  BY <1>32 DEF MarkResolved, OperatorDone
<1>33. ASSUME NEW o \in Operators, OperatorFails(o)
      PROVE  FlightInv'
  BY <1>33 DEF OperatorFails, Spend, OperatorDone
<1>34. ASSUME NEW h \in Webhooks, NEW n \in Notifications, NEW to \in NotificationStatus,
              TransitionCheck(h, n, to)
      PROVE  FlightInv'
  <2>1. to \in {"DELIVERED", "FAILED", "SENT", "READ"}
    BY <1>34, ReceiptTargets DEF TransitionCheck
  <2> QED BY <1>34, <2>1 DEF TransitionCheck, Spend
<1>35. ASSUME NEW h \in Webhooks, TransitionWrite(h)
      PROVE  FlightInv'
  BY SMTT(20), <1>35 DEF TransitionWrite, SetStatus
<1>36. ASSUME ScrubContent
      PROVE  FlightInv'
  BY <1>36 DEF ScrubContent, Spend
<1>37. ASSUME CleanupResolvedEntries
      PROVE  FlightInv'
  <2>1. \A n \in Notifications : dlqEntry'[n] = "open" <=> dlqEntry[n] = "open"
    <3>1. PICK old \in SUBSET {n \in Notifications : dlqEntry[n] \in {"retried", "discarded"}} :
             dlqEntry' = [n \in Notifications |-> IF n \in old THEN "none" ELSE dlqEntry[n]]
      BY <1>37 DEF CleanupResolvedEntries
    <3> QED BY <3>1
  <2>2. /\ used'["operator"] = used["operator"] /\ used'["disconnect"] = used["disconnect"]
        /\ UNCHANGED <<status, queue, deadLettered, retryQueue, wpc, job, attached, due, cur, ppc,
                       opc, entry, target>>
    BY <1>37 DEF CleanupResolvedEntries, Spend
  <2>3. \A n \in Notifications : Carried(n) => Carried(n)'
    BY <2>1, <2>2
  <2> HIDE DEF Carried
  <2> QED BY <2>1, <2>2, <2>3
<1>38. CASE UNCHANGED vars
  BY <1>38 DEF vars
<1> HIDE DEF TypeOK, FlightInv, OnePoller, OneRequest
<1> QED
  BY <1>1, <1>2, <1>3, <1>4, <1>5, <1>6, <1>7, <1>8, <1>9, <1>10, <1>11, <1>12, <1>13,
     <1>14, <1>15, <1>16, <1>17, <1>18, <1>19, <1>20, <1>21, <1>22, <1>23, <1>24, <1>25, <1>26,
     <1>27, <1>28, <1>29, <1>30, <1>31, <1>32, <1>33, <1>34, <1>35, <1>36, <1>37, <1>38
     DEF Next, Process, WorkerFault, ProcessDueRetries, Resolve

\* On one replica and with one operator request, whatever crashes, throws, is
\* redelivered, erased or cleaned up: as long as no connection breaks, a
\* notification shown as QUEUED or RETRYING is somewhere.
THEOREM InFlightAlwaysAccounted ==
    ASSUME OnePoller, OneRequest
    PROVE  Spec => []InFlightAccounted
<1>1. Init => FlightInv
  BY DEF Init, FlightInv, SnapshotKept, Carried
<1>2. TypeOK /\ FlightInv /\ [Next]_vars => FlightInv'
  BY FlightInvStep, OnePoller, OneRequest
<1>3. TypeOK /\ FlightInv => InFlightAccounted
  BY DEF TypeOK, FlightInv, InFlightAccounted, Carried, RetryDue, Held
<1> QED BY <1>1, <1>2, <1>3, TypeCorrect, PTL DEF Spec
=============================================================================
