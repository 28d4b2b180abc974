------------------------ MODULE DispatchLedgerProofs ------------------------
(***************************************************************************)
(* Proofs about DispatchLedger, for any set of dispatches and any budgets.  *)
(*                                                                         *)
(* Every transaction writes the rows of one dispatch, so everything is      *)
(* proved a row at a time: RowStep(d) says that a step touches only the     *)
(* rows of d, leaves them typed, keeps RowInv(d) and changes them as the    *)
(* action properties allow.  There is one lemma per action; NextIsRowStep   *)
(* collects them, LedgerInvNext lifts RowInv(d) to every dispatch, and the  *)
(* theorems at the end follow from LedgerInv and RowsChange.                *)
(***************************************************************************)
EXTENDS DispatchLedger, TLAPS

\* TypeOK for the rows of one dispatch.
RowTyped(d) ==
    /\ queue[d] \in QueueRow
    /\ cap[d] \in CapabilityRow
    /\ live[d] \in LivenessRow
    /\ recovery[d] \in RecoveryRow
    /\ policy[d] \in PolicyRow
    /\ cancelAction[d] \in BOOLEAN

\* No row of another dispatch changes.
OnlyRow(d) ==
    /\ queue' = [queue EXCEPT ![d] = queue'[d]]
    /\ cap' = [cap EXCEPT ![d] = cap'[d]]
    /\ live' = [live EXCEPT ![d] = live'[d]]
    /\ recovery' = [recovery EXCEPT ![d] = recovery'[d]]
    /\ policy' = [policy EXCEPT ![d] = policy'[d]]
    /\ cancelAction' = [cancelAction EXCEPT ![d] = cancelAction'[d]]

\* The action properties for one dispatch.
RowChange(d) ==
    /\ EndIsFinal(d)
    /\ ClaimFollowsExit(d)
    /\ queue[d].state # "absent" => BudgetsOnlyShrink(d) /\ AttemptIsPaidFor(d)

RowStep(d) == OnlyRow(d) /\ RowTyped(d)' /\ RowInv(d)' /\ RowChange(d)

\* Enumerations and empty rows: every leaf may look into them.
USE DEF NoCapability, NoLiveness, Active, Recovering, ResultStates, Terminal,
        QueueStates, Waits, Strategies

(* A new dispatch gets fresh rows with full budgets.                       *)
LEMMA EnqueueDispatchStep ==
    ASSUME TypeOK, NEW d \in Dispatches, RowInv(d), EnqueueDispatch(d)
    PROVE  RowStep(d)
  <1>1. RowTyped(d)
    BY DEF TypeOK, RowTyped
  <1>2. OnlyRow(d)
    BY DEF TypeOK, OnlyRow, EnqueueDispatch
  <1>3. RowTyped(d)'
    <2>1. queue'[d] \in QueueRow
      BY DEF TypeOK, QueueRow, EnqueueDispatch, NoDispatch
    <2>2. recovery'[d] \in RecoveryRow
      BY BudgetAssumption DEF TypeOK, RecoveryRow, EnqueueDispatch,
         NewRecovery
    <2>3. policy'[d] \in PolicyRow
      BY BudgetAssumption DEF TypeOK, PolicyRow, EnqueueDispatch,
         NewPolicy, Failures
    <2> QED
      BY <1>1, <2>1, <2>2, <2>3 DEF RowTyped, EnqueueDispatch
  <1>4. RowInv(d)'
    <2>1. CapabilityFacts(d)'
      BY DEF RowInv, CapabilityFacts, UnlaunchedRowsAreBare,
         EnqueueDispatch
    <2>2. ResultFacts(d)'
      BY DEF RowInv, ResultFacts, EnqueueDispatch, NoDispatch
    <2>3. LivenessFacts(d)'
      BY DEF RowInv, LivenessFacts, UnlaunchedRowsAreBare,
         EnqueueDispatch
    <2>4. RecoveryFacts(d)'
      BY BudgetAssumption DEF RecoveryFacts, TypeOK, EnqueueDispatch,
         NewRecovery
    <2>5. PolicyFacts(d)'
      BY BudgetAssumption DEF RowInv, PolicyFacts, EnqueueDispatch,
         NewPolicy, ProviderBudget, RetryClasses
    <2>6. WorkerOwned(d)'
      BY DEF RowInv, WorkerOwned, WorkerGone, EnqueueDispatch
    <2>7. UnlaunchedRowsAreBare(d)'
      BY DEF RowInv, UnlaunchedRowsAreBare, EnqueueDispatch
    <2> QED
      BY <2>1, <2>2, <2>3, <2>4, <2>5, <2>6, <2>7 DEF RowInv
  <1>5. RowChange(d)
    <2>1. EndIsFinal(d) /\ ClaimFollowsExit(d)
      BY DEF EndIsFinal, ClaimFollowsExit, EnqueueDispatch
    <2>2. queue[d].state # "absent" => BudgetsOnlyShrink(d)
      BY DEF EnqueueDispatch
    <2>3. queue[d].state # "absent" => AttemptIsPaidFor(d)
      BY DEF EnqueueDispatch
    <2> QED
      BY <2>1, <2>2, <2>3 DEF RowChange
  <1> QED
    BY <1>2, <1>3, <1>4, <1>5 DEF RowStep

(* _cancel_queue_row_in_transaction: no worker may be running.             *)
LEMMA CancelQueueRowStep ==
    ASSUME TypeOK, NEW d \in Dispatches, RowInv(d),
           NEW liveness \in LivenessRow,
           liveness.attempt # 0 =>
               liveness.exited /\ liveness.attempt = queue[d].attempt,
           queue[d].state \notin Terminal \union {"absent"},
           CancelQueueRow(d, liveness),
           cancelAction' \in {cancelAction, [cancelAction EXCEPT ![d] = TRUE]}
    PROVE  RowStep(d)
  <1>1. RowTyped(d)
    BY DEF TypeOK, RowTyped
  <1>2. OnlyRow(d)
    BY DEF TypeOK, OnlyRow, CancelQueueRow
  <1>3. RowTyped(d)'
    <2>1. queue'[d] \in QueueRow
      BY <1>1 DEF TypeOK, RowTyped, QueueRow, CancelQueueRow
    <2>2. cap'[d] \in CapabilityRow
      BY DEF TypeOK, CapabilityRow, CancelQueueRow
    <2>3. live'[d] \in LivenessRow
      BY DEF TypeOK, CancelQueueRow
    <2>4. recovery'[d] \in RecoveryRow
      BY <1>1 DEF TypeOK, RowTyped, RecoveryRow, CancelQueueRow
    <2>5. policy'[d] \in PolicyRow
      BY <1>1 DEF RowTyped, PolicyRow, CancelQueueRow
    <2>6. cancelAction'[d] \in BOOLEAN
      BY <1>1 DEF TypeOK, RowTyped, CancelQueueRow
    <2> QED
      BY <2>1, <2>2, <2>3, <2>4, <2>5, <2>6 DEF RowTyped
  <1>4. RowInv(d)'
    BY DEF RowInv, CapabilityFacts, ResultFacts, LivenessFacts,
       RecoveryFacts, PolicyFacts, WorkerOwned, WorkerGone,
       UnlaunchedRowsAreBare, TypeOK, CancelQueueRow
  <1>5. RowChange(d)
    <2>1. EndIsFinal(d) /\ ClaimFollowsExit(d)
      BY DEF EndIsFinal, ClaimFollowsExit, TypeOK, CancelQueueRow
    <2>2. queue[d].state # "absent" => BudgetsOnlyShrink(d)
      BY DEF BudgetsOnlyShrink, TypeOK, RecoveryRow, PolicyRow,
         CancelQueueRow
    <2>3. queue[d].state # "absent" => AttemptIsPaidFor(d)
      BY DEF AttemptIsPaidFor, TypeOK, CancelQueueRow
    <2> QED
      BY <2>1, <2>2, <2>3 DEF RowChange
  <1> QED
    BY <1>2, <1>3, <1>4, <1>5 DEF RowStep

(* configure_recovery changes only what recovery compares.                 *)
LEMMA ConfigureRecoveryStep ==
    ASSUME TypeOK, NEW d \in Dispatches, RowInv(d), ConfigureRecovery(d)
    PROVE  RowStep(d)
  <1>1. RowTyped(d)
    BY DEF TypeOK, RowTyped
  <1>2. OnlyRow(d)
    BY DEF TypeOK, OnlyRow, ConfigureRecovery
  <1>3. RowTyped(d)'
    <2>1. recovery'[d] \in RecoveryRow
      BY <1>1, BudgetAssumption DEF TypeOK, RowTyped, RecoveryRow,
         ConfigureRecovery
    <2> QED
      BY <1>1, <2>1 DEF RowTyped, ConfigureRecovery
  <1>4. RowInv(d)'
    BY DEF RowInv, CapabilityFacts, ResultFacts, LivenessFacts,
       RecoveryFacts, PolicyFacts, WorkerOwned, WorkerGone,
       UnlaunchedRowsAreBare, TypeOK, ConfigureRecovery, CanConfigure
  <1>5. RowChange(d)
    <2>1. EndIsFinal(d) /\ ClaimFollowsExit(d)
      BY DEF EndIsFinal, ClaimFollowsExit, ConfigureRecovery
    <2>2. queue[d].state # "absent" => BudgetsOnlyShrink(d)
      BY DEF BudgetsOnlyShrink, TypeOK, RecoveryRow, PolicyRow,
         ConfigureRecovery
    <2>3. queue[d].state # "absent" => AttemptIsPaidFor(d)
      BY DEF AttemptIsPaidFor, ConfigureRecovery
    <2> QED
      BY <2>1, <2>2, <2>3 DEF RowChange
  <1> QED
    BY <1>2, <1>3, <1>4, <1>5 DEF RowStep

(* A capability is issued to the claimed attempt.                          *)
LEMMA IssueAttemptCapabilityStep ==
    ASSUME TypeOK, NEW d \in Dispatches, RowInv(d), IssueAttemptCapability(d)
    PROVE  RowStep(d)
  <1>1. RowTyped(d)
    BY DEF TypeOK, RowTyped
  <1>2. OnlyRow(d)
    BY DEF TypeOK, OnlyRow, IssueAttemptCapability
  <1>3. RowTyped(d)'
    <2>1. cap'[d] \in CapabilityRow
      BY DEF TypeOK, CapabilityRow, IssueAttemptCapability, QueueRow
    <2> QED
      BY <1>1, <2>1 DEF RowTyped, IssueAttemptCapability
  <1>4. RowInv(d)'
    BY DEF RowInv, CapabilityFacts, ResultFacts, LivenessFacts,
       RecoveryFacts, PolicyFacts, WorkerOwned, UnlaunchedRowsAreBare,
       IssueAttemptCapability
  <1>5. RowChange(d)
    <2>1. EndIsFinal(d) /\ ClaimFollowsExit(d)
      BY DEF EndIsFinal, ClaimFollowsExit, IssueAttemptCapability
    <2>2. queue[d].state # "absent" => BudgetsOnlyShrink(d)
      BY DEF BudgetsOnlyShrink, TypeOK, RecoveryRow, PolicyRow,
         IssueAttemptCapability
    <2>3. queue[d].state # "absent" => AttemptIsPaidFor(d)
      BY DEF AttemptIsPaidFor, IssueAttemptCapability
    <2> QED
      BY <2>1, <2>2, <2>3 DEF RowChange
  <1> QED
    BY <1>2, <1>3, <1>4, <1>5 DEF RowStep

(* The claimed row starts.                                                 *)
LEMMA SetQueueStartingStep ==
    ASSUME TypeOK, NEW d \in Dispatches, RowInv(d), SetQueueStarting(d)
    PROVE  RowStep(d)
  <1>1. RowTyped(d)
    BY DEF TypeOK, RowTyped
  <1>2. OnlyRow(d)
    BY DEF TypeOK, OnlyRow, SetQueueStarting
  <1>3. RowTyped(d)'
    <2>1. queue'[d] \in QueueRow
      BY DEF TypeOK, QueueRow, SetQueueStarting
    <2> QED
      BY <1>1, <2>1 DEF RowTyped, SetQueueStarting
  <1>4. RowInv(d)'
    BY <1>1 DEF RowInv, CapabilityFacts, ResultFacts, LivenessFacts,
       RecoveryFacts, PolicyFacts, WorkerOwned, UnlaunchedRowsAreBare,
       RowTyped, RecoveryRow, SetQueueStarting
  <1>5. RowChange(d)
    <2>1. EndIsFinal(d) /\ ClaimFollowsExit(d)
      BY DEF EndIsFinal, ClaimFollowsExit, SetQueueStarting
    <2>2. queue[d].state # "absent" => BudgetsOnlyShrink(d)
      BY DEF BudgetsOnlyShrink, TypeOK, RecoveryRow, PolicyRow,
         SetQueueStarting
    <2>3. queue[d].state # "absent" => AttemptIsPaidFor(d)
      BY DEF AttemptIsPaidFor, SetQueueStarting
    <2> QED
      BY <2>1, <2>2, <2>3 DEF RowChange
  <1> QED
    BY <1>2, <1>3, <1>4, <1>5 DEF RowStep

(* The spawned worker is recorded for its own attempt.                     *)
LEMMA BindWorkerLivenessStep ==
    ASSUME TypeOK, NEW d \in Dispatches, RowInv(d), BindWorkerLiveness(d)
    PROVE  RowStep(d)
  <1>1. RowTyped(d)
    BY DEF TypeOK, RowTyped
  <1>2. OnlyRow(d)
    BY DEF TypeOK, OnlyRow, BindWorkerLiveness, RenewedCapability
  <1>3. RowTyped(d)'
    <2>1. queue'[d] \in QueueRow
      BY <1>1 DEF RowTyped, QueueRow, BindWorkerLiveness
    <2>2. live'[d] \in LivenessRow
      BY DEF TypeOK, LivenessRow, BindWorkerLiveness, QueueRow
    <2>3. cap'[d] \in CapabilityRow
      BY DEF TypeOK, CapabilityRow, BindWorkerLiveness, RenewedCapability
    <2> QED
      BY <1>1, <2>1, <2>2, <2>3 DEF RowTyped, BindWorkerLiveness
  <1>4. RowInv(d)'
    BY <1>1 DEF RowInv, CapabilityFacts, ResultFacts, LivenessFacts,
       RecoveryFacts, PolicyFacts, WorkerOwned, UnlaunchedRowsAreBare,
       RowTyped, RecoveryRow, BindWorkerLiveness, RenewedCapability
  <1>5. RowChange(d)
    <2>1. EndIsFinal(d) /\ ClaimFollowsExit(d)
      BY DEF EndIsFinal, ClaimFollowsExit, BindWorkerLiveness
    <2>2. queue[d].state # "absent" => BudgetsOnlyShrink(d)
      BY DEF BudgetsOnlyShrink, TypeOK, RecoveryRow, PolicyRow,
         BindWorkerLiveness
    <2>3. queue[d].state # "absent" => AttemptIsPaidFor(d)
      BY DEF AttemptIsPaidFor, BindWorkerLiveness
    <2> QED
      BY <2>1, <2>2, <2>3 DEF RowChange
  <1> QED
    BY <1>2, <1>3, <1>4, <1>5 DEF RowStep

(* The worker reports its thread.                                          *)
LEMMA BindWorkerThreadStep ==
    ASSUME TypeOK, NEW d \in Dispatches, RowInv(d), NEW t \in Nat,
           BindWorkerThread(d, t)
    PROVE  RowStep(d)
  <1>1. RowTyped(d)
    BY DEF TypeOK, RowTyped
  <1>2. OnlyRow(d)
    BY DEF TypeOK, OnlyRow, BindWorkerThread
  <1>3. RowTyped(d)'
    <2>1. queue'[d] \in QueueRow
      BY <1>1 DEF TypeOK, RowTyped, QueueRow, BindWorkerThread
    <2> QED
      BY <1>1, <2>1 DEF RowTyped, BindWorkerThread
  <1>4. RowInv(d)'
    BY <1>1 DEF RowInv, CapabilityFacts, ResultFacts, LivenessFacts,
       RecoveryFacts, PolicyFacts, WorkerOwned, UnlaunchedRowsAreBare,
       TypeOK, RowTyped, RecoveryRow, BindWorkerThread
  <1>5. RowChange(d)
    <2>1. EndIsFinal(d) /\ ClaimFollowsExit(d)
      BY DEF EndIsFinal, ClaimFollowsExit, TypeOK, BindWorkerThread
    <2>2. queue[d].state # "absent" => BudgetsOnlyShrink(d)
      BY DEF BudgetsOnlyShrink, TypeOK, RecoveryRow, PolicyRow,
         BindWorkerThread
    <2>3. queue[d].state # "absent" => AttemptIsPaidFor(d)
      BY DEF AttemptIsPaidFor, TypeOK, BindWorkerThread
    <2> QED
      BY <2>1, <2>2, <2>3 DEF RowChange
  <1> QED
    BY <1>2, <1>3, <1>4, <1>5 DEF RowStep

(* The lease of a live worker is renewed.                                  *)
LEMMA RenewWorkerLivenessStep ==
    ASSUME TypeOK, NEW d \in Dispatches, RowInv(d), RenewWorkerLiveness(d)
    PROVE  RowStep(d)
  <1>1. RowTyped(d)
    BY DEF TypeOK, RowTyped
  <1>2. OnlyRow(d)
    BY DEF TypeOK, OnlyRow, RenewWorkerLiveness
  <1>3. RowTyped(d)'
    <2>1. cap'[d] \in CapabilityRow
      BY DEF TypeOK, CapabilityRow, RenewWorkerLiveness,
         RenewedCapability
    <2> QED
      BY <1>1, <2>1 DEF RowTyped, RenewWorkerLiveness
  <1>4. RowInv(d)'
    BY DEF RowInv, CapabilityFacts, ResultFacts, LivenessFacts,
       RecoveryFacts, PolicyFacts, WorkerOwned, UnlaunchedRowsAreBare,
       RenewWorkerLiveness, RenewedCapability
  <1>5. RowChange(d)
    <2>1. EndIsFinal(d) /\ ClaimFollowsExit(d)
      BY DEF EndIsFinal, ClaimFollowsExit, RenewWorkerLiveness
    <2>2. queue[d].state # "absent" => BudgetsOnlyShrink(d)
      BY DEF BudgetsOnlyShrink, TypeOK, RecoveryRow, PolicyRow,
         RenewWorkerLiveness
    <2>3. queue[d].state # "absent" => AttemptIsPaidFor(d)
      BY DEF AttemptIsPaidFor, RenewWorkerLiveness
    <2> QED
      BY <2>1, <2>2, <2>3 DEF RowChange
  <1> QED
    BY <1>2, <1>3, <1>4, <1>5 DEF RowStep

(* Time ends a capability.                                                 *)
LEMMA CapabilityExpiresStep ==
    ASSUME TypeOK, NEW d \in Dispatches, RowInv(d), CapabilityExpires(d)
    PROVE  RowStep(d)
  <1>1. RowTyped(d)
    BY DEF TypeOK, RowTyped
  <1>2. OnlyRow(d)
    BY DEF TypeOK, OnlyRow, CapabilityExpires
  <1>3. RowTyped(d)'
    <2>1. cap'[d] \in CapabilityRow
      BY DEF TypeOK, CapabilityRow, CapabilityExpires
    <2> QED
      BY <1>1, <2>1 DEF RowTyped, CapabilityExpires
  <1>4. RowInv(d)'
    BY DEF RowInv, CapabilityFacts, ResultFacts, LivenessFacts,
       RecoveryFacts, PolicyFacts, WorkerOwned, WorkerGone,
       UnlaunchedRowsAreBare, CapabilityExpires
  <1>5. RowChange(d)
    <2>1. EndIsFinal(d) /\ ClaimFollowsExit(d)
      BY DEF EndIsFinal, ClaimFollowsExit, CapabilityExpires
    <2>2. queue[d].state # "absent" => BudgetsOnlyShrink(d)
      BY DEF BudgetsOnlyShrink, TypeOK, RecoveryRow, PolicyRow,
         CapabilityExpires
    <2>3. queue[d].state # "absent" => AttemptIsPaidFor(d)
      BY DEF AttemptIsPaidFor, CapabilityExpires
    <2> QED
      BY <2>1, <2>2, <2>3 DEF RowChange
  <1> QED
    BY <1>2, <1>3, <1>4, <1>5 DEF RowStep

(* A restarted harness takes over a live worker.                           *)
LEMMA AdoptLiveWorkerStep ==
    ASSUME TypeOK, NEW d \in Dispatches, RowInv(d), AdoptLiveWorker(d)
    PROVE  RowStep(d)
  <1>1. RowTyped(d)
    BY DEF TypeOK, RowTyped
  <1>2. OnlyRow(d)
    BY DEF TypeOK, OnlyRow, AdoptLiveWorker
  <1>3. RowTyped(d)'
    <2>1. queue'[d] \in QueueRow
      BY DEF TypeOK, QueueRow, AdoptLiveWorker
    <2> QED
      BY <1>1, <2>1 DEF RowTyped, AdoptLiveWorker
  <1>4. RowInv(d)'
    BY DEF RowInv, CapabilityFacts, ResultFacts, LivenessFacts,
       RecoveryFacts, PolicyFacts, WorkerOwned, UnlaunchedRowsAreBare,
       AdoptLiveWorker
  <1>5. RowChange(d)
    <2>1. EndIsFinal(d) /\ ClaimFollowsExit(d)
      BY DEF EndIsFinal, ClaimFollowsExit, AdoptLiveWorker
    <2>2. queue[d].state # "absent" => BudgetsOnlyShrink(d)
      BY DEF BudgetsOnlyShrink, TypeOK, RecoveryRow, PolicyRow,
         AdoptLiveWorker
    <2>3. queue[d].state # "absent" => AttemptIsPaidFor(d)
      BY DEF AttemptIsPaidFor, AdoptLiveWorker
    <2> QED
      BY <2>1, <2>2, <2>3 DEF RowChange
  <1> QED
    BY <1>2, <1>3, <1>4, <1>5 DEF RowStep

(* An exit before any identity: the retry consumes its budget.             *)
LEMMA ExitRequeuedStep ==
    ASSUME TypeOK, NEW d \in Dispatches, RowInv(d), NEW kind \in ExitKinds,
           live[d].attempt # 0, ~live[d].exited,
           queue[d].state \notin Terminal, ExitRequeued(d, kind),
           UNCHANGED cancelAction
    PROVE  RowStep(d)
  <1>1. RowTyped(d)
    BY DEF TypeOK, RowTyped
  <1>2. OnlyRow(d)
    BY DEF TypeOK, OnlyRow, ExitRequeued, Requeue
  <1>a. InspectionsAfterExit(d, kind) \in Nat
    BY <1>1 DEF RowTyped, RecoveryRow, InspectionsAfterExit
  <1>b. queue[d].state \in Active
    BY DEF RowInv, WorkerOwned, WorkerGone
  <1>c. /\ InspectionsAfterExit(d, kind) <= InspectionBudget
        /\ InspectionsAfterExit(d, kind) >= recovery[d].inspUsed
    BY <1>1, BudgetAssumption DEF RowTyped, RecoveryRow, RowInv,
       RecoveryFacts, InspectionsAfterExit, InspectionsSpent
  <1>d. kind \in RetryClasses
    BY DEF ExitRetryable, ExitRequeued, Retryable
  <1>e. /\ policy[d].used[kind] \in Nat
        /\ policy[d].budget[kind] \in Nat
        /\ policy[d].used[kind] < policy[d].budget[kind]
    BY <1>1 DEF RowTyped, PolicyRow, ExitRequeued, Retryable
  <1>f. kind \in Failures /\ Strategy[kind] \in Strategies
    BY <1>d DEF Failures, Strategy, RetryClasses
  <1>g. [policy[d].used EXCEPT ![kind] = @ + 1] \in [RetryClasses -> Nat]
    BY <1>1, <1>d DEF RowTyped, PolicyRow
  <1>k. policy'[d].used = [policy[d].used EXCEPT ![kind] = @ + 1]
    BY DEF TypeOK, ExitRequeued
  <1>l. \A c \in RetryClasses : policy'[d].used[c] >= policy[d].used[c]
    BY <1>1, <1>k DEF RowTyped, PolicyRow
  <1>3. RowTyped(d)'
    <2>1. queue'[d] \in QueueRow
      BY <1>1 DEF TypeOK, RowTyped, QueueRow, ExitRequeued, Requeue
    <2>2. cap'[d] \in CapabilityRow
      BY DEF TypeOK, CapabilityRow, ExitRequeued, Requeue
    <2>3. live'[d] \in LivenessRow
      BY DEF TypeOK, LivenessRow, ExitRequeued, Requeue
    <2>4. recovery'[d] \in RecoveryRow
      BY <1>1, <1>a DEF TypeOK, RowTyped, RecoveryRow, ExitRequeued
    <2>5. policy'[d] \in PolicyRow
      BY <1>1, <1>f, <1>g DEF TypeOK, RowTyped, PolicyRow, ExitRequeued
    <2> QED
      BY <1>1, <2>1, <2>2, <2>3, <2>4, <2>5 DEF RowTyped
  <1>4. RowInv(d)'
    <2>1. CapabilityFacts(d)'
      BY DEF CapabilityFacts, TypeOK, ExitRequeued, Requeue
    <2>2. ResultFacts(d)'
      BY DEF RowInv, ResultFacts, TypeOK, ExitRequeued, Requeue
    <2>3. LivenessFacts(d)'
      BY DEF TypeOK, QueueRow, LivenessRow, ExitRequeued, Requeue
    <2>4. RecoveryFacts(d)'
      BY <1>c DEF TypeOK, QueueRow, RecoveryRow, ExitRequeued, Requeue
    <2>5. PolicyFacts(d)'
      BY <1>e DEF RowInv, PolicyFacts, TypeOK, ExitRequeued
    <2>6. WorkerOwned(d)'
      BY DEF TypeOK, QueueRow, LivenessRow, ExitRequeued, Requeue
    <2>7. UnlaunchedRowsAreBare(d)'
      BY DEF UnlaunchedRowsAreBare, TypeOK, ExitRequeued, Requeue
    <2> QED
      BY <2>1, <2>2, <2>3, <2>4, <2>5, <2>6, <2>7 DEF RowInv
  <1>5. RowChange(d)
    <2>1. EndIsFinal(d) /\ ClaimFollowsExit(d)
      BY DEF EndIsFinal, ClaimFollowsExit, TypeOK, ExitRequeued, Requeue
    <2>2. queue[d].state # "absent" => BudgetsOnlyShrink(d)
      BY <1>d, <1>e, <1>l DEF BudgetsOnlyShrink, RowInv, TypeOK,
         RecoveryRow, PolicyRow, ExitRequeued, Requeue
    <2>3. queue[d].state # "absent" => AttemptIsPaidFor(d)
      BY DEF AttemptIsPaidFor, TypeOK, QueueRow, ExitRequeued, Requeue
    <2> QED
      BY <2>1, <2>2, <2>3 DEF RowChange
  <1> QED
    BY <1>2, <1>3, <1>4, <1>5 DEF RowStep

(* An exit with an identity: an inspection is scheduled.                   *)
LEMMA ExitRetryableStep ==
    ASSUME TypeOK, NEW d \in Dispatches, RowInv(d), NEW kind \in ExitKinds,
           live[d].attempt # 0, ~live[d].exited,
           queue[d].state \notin Terminal, ExitRetryable(d, kind),
           UNCHANGED cancelAction
    PROVE  RowStep(d)
  <1>1. RowTyped(d)
    BY DEF TypeOK, RowTyped
  <1>2. OnlyRow(d)
    BY DEF TypeOK, OnlyRow, ExitRetryable
  <1>a. InspectionsAfterExit(d, kind) \in Nat
    BY <1>1 DEF RowTyped, RecoveryRow, InspectionsAfterExit
  <1>b. queue[d].state \in Active
    BY DEF RowInv, WorkerOwned, WorkerGone
  <1>c. /\ InspectionsAfterExit(d, kind) <= InspectionBudget
        /\ InspectionsAfterExit(d, kind) >= recovery[d].inspUsed
    BY <1>1, BudgetAssumption DEF RowTyped, RecoveryRow, RowInv,
       RecoveryFacts, InspectionsAfterExit, InspectionsSpent
  <1>d. kind \in RetryClasses
    BY DEF ExitRetryable, ExitRequeued, Retryable
  <1>e. /\ policy[d].used[kind] \in Nat
        /\ policy[d].budget[kind] \in Nat
        /\ policy[d].used[kind] < policy[d].budget[kind]
    BY <1>1 DEF RowTyped, PolicyRow, ExitRetryable, Retryable
  <1>f. kind \in Failures /\ Strategy[kind] \in Strategies
    BY <1>d DEF Failures, Strategy, RetryClasses
  <1>g. [policy[d].used EXCEPT ![kind] = @ + 1] \in [RetryClasses -> Nat]
    BY <1>1, <1>d DEF RowTyped, PolicyRow
  <1>k. policy'[d].used = [policy[d].used EXCEPT ![kind] = @ + 1]
    BY DEF TypeOK, ExitRetryable
  <1>l. \A c \in RetryClasses : policy'[d].used[c] >= policy[d].used[c]
    BY <1>1, <1>k DEF RowTyped, PolicyRow
  <1>h. AfterExit(d) \in {"human_attention_required",
                          "recovery_inspection_pending"}
    BY DEF AfterExit
  <1>i. FreshBudgetFor(d, kind) \in Nat /\ ContinuationBudgetFor(d, kind) \in Nat
    BY <1>1, <1>e DEF RowTyped, RecoveryRow, FreshBudgetFor,
       ContinuationBudgetFor, Greater
  <1>j. /\ FreshBudgetFor(d, kind) >= recovery[d].freshBudget
        /\ ContinuationBudgetFor(d, kind) >= recovery[d].contBudget
    BY <1>1, <1>e DEF RowTyped, RecoveryRow, FreshBudgetFor,
       ContinuationBudgetFor, Greater
  <1>3. RowTyped(d)'
    <2>1. queue'[d] \in QueueRow
      BY <1>1, <1>h DEF RowTyped, QueueRow, ExitRetryable, ExitState
    <2>2. live'[d] \in LivenessRow
      BY DEF TypeOK, LivenessRow, ExitRetryable
    <2>3. recovery'[d] \in RecoveryRow
      BY ZenonT(30), <1>1, <1>a, <1>h, <1>i DEF TypeOK, RowTyped, RecoveryRow,
         ExitRetryable
    <2>4. policy'[d] \in PolicyRow
      BY <1>1, <1>f, <1>g DEF TypeOK, RowTyped, PolicyRow, ExitRetryable
    <2> QED
      BY <1>1, <2>1, <2>2, <2>3, <2>4 DEF RowTyped, ExitRetryable
  <1>4. RowInv(d)'
    <2>1. CapabilityFacts(d)'
      BY <1>h DEF RowInv, CapabilityFacts, ExitRetryable, ExitState
    <2>2. ResultFacts(d)'
      BY <1>h DEF RowInv, ResultFacts, ExitRetryable, ExitState
    <2>3. LivenessFacts(d)'
      BY <1>b, <1>h DEF RowInv, LivenessFacts, TypeOK, ExitRetryable,
         ExitState
    <2>4. RecoveryFacts(d)'
      BY <1>b, <1>c, <1>h, <1>i DEF RowInv, RecoveryFacts, TypeOK,
         RecoveryRow, ExitRetryable, ExitState
    <2>5. PolicyFacts(d)'
      BY <1>e DEF RowInv, PolicyFacts, TypeOK, ExitRetryable
    <2>6. WorkerOwned(d)'
      BY DEF WorkerOwned, WorkerGone, TypeOK, ExitRetryable
    <2>7. UnlaunchedRowsAreBare(d)'
      BY <1>h DEF RowInv, UnlaunchedRowsAreBare, ExitRetryable, ExitState
    <2> QED
      BY <2>1, <2>2, <2>3, <2>4, <2>5, <2>6, <2>7 DEF RowInv
  <1>5. RowChange(d)
    <2>1. EndIsFinal(d) /\ ClaimFollowsExit(d)
      BY <1>h DEF EndIsFinal, ClaimFollowsExit, ExitRetryable, ExitState
    <2>2. queue[d].state # "absent" => BudgetsOnlyShrink(d)
      BY <1>c DEF BudgetsOnlyShrink, TypeOK, RecoveryRow, PolicyRow,
         ExitRetryable
    <2>3. queue[d].state # "absent" => AttemptIsPaidFor(d)
      BY <1>a DEF AttemptIsPaidFor, ExitRetryable
    <2> QED
      BY <2>1, <2>2, <2>3 DEF RowChange
  <1> QED
    BY <1>2, <1>3, <1>4, <1>5 DEF RowStep

(* An exit nobody can classify ends with a human.                          *)
LEMMA ExitAmbiguousStep ==
    ASSUME TypeOK, NEW d \in Dispatches, RowInv(d), NEW kind \in ExitKinds,
           live[d].attempt # 0, ~live[d].exited,
           queue[d].state \notin Terminal, ExitAmbiguous(d, kind),
           UNCHANGED cancelAction
    PROVE  RowStep(d)
  <1>1. RowTyped(d)
    BY DEF TypeOK, RowTyped
  <1>2. OnlyRow(d)
    BY DEF TypeOK, OnlyRow, ExitAmbiguous
  <1>a. InspectionsAfterExit(d, kind) \in Nat
    BY <1>1 DEF RowTyped, RecoveryRow, InspectionsAfterExit
  <1>b. queue[d].state \in Active
    BY DEF RowInv, WorkerOwned, WorkerGone
  <1>c. /\ InspectionsAfterExit(d, kind) <= InspectionBudget
        /\ InspectionsAfterExit(d, kind) >= recovery[d].inspUsed
    BY <1>1, BudgetAssumption DEF RowTyped, RecoveryRow, RowInv,
       RecoveryFacts, InspectionsAfterExit, InspectionsSpent
  <1>h. AfterExit(d) \in {"human_attention_required",
                          "recovery_inspection_pending"}
    BY DEF AfterExit
  <1>3. RowTyped(d)'
    <2>1. queue'[d] \in QueueRow
      BY <1>1, <1>h DEF RowTyped, QueueRow, ExitAmbiguous, ExitState
    <2>2. live'[d] \in LivenessRow
      BY DEF TypeOK, LivenessRow, ExitAmbiguous
    <2>3. recovery'[d] \in RecoveryRow
      BY <1>1, <1>a, <1>h DEF TypeOK, RowTyped, RecoveryRow,
         ExitAmbiguous
    <2>4. policy'[d] \in PolicyRow
      BY <1>1 DEF TypeOK, RowTyped, PolicyRow, ExitAmbiguous, Failures
    <2> QED
      BY <1>1, <2>1, <2>2, <2>3, <2>4 DEF RowTyped, ExitAmbiguous
  <1>4. RowInv(d)'
    BY <1>c, <1>h DEF RowInv, CapabilityFacts, ResultFacts, LivenessFacts,
       RecoveryFacts, PolicyFacts, WorkerOwned, WorkerGone,
       UnlaunchedRowsAreBare, TypeOK, ExitAmbiguous, ExitState
  <1>5. RowChange(d)
    <2>1. EndIsFinal(d) /\ ClaimFollowsExit(d)
      BY <1>h DEF EndIsFinal, ClaimFollowsExit, ExitAmbiguous, ExitState
    <2>2. queue[d].state # "absent" => BudgetsOnlyShrink(d)
      BY <1>c DEF BudgetsOnlyShrink, TypeOK, RecoveryRow, PolicyRow,
         ExitAmbiguous
    <2>3. queue[d].state # "absent" => AttemptIsPaidFor(d)
      BY DEF AttemptIsPaidFor, ExitAmbiguous
    <2> QED
      BY <2>1, <2>2, <2>3 DEF RowChange
  <1> QED
    BY <1>2, <1>3, <1>4, <1>5 DEF RowStep

(* An exit that ends the dispatch or its budget.                           *)
LEMMA ExitClosedStep ==
    ASSUME TypeOK, NEW d \in Dispatches, RowInv(d), NEW kind \in ExitKinds,
           live[d].attempt # 0, ~live[d].exited,
           queue[d].state \notin Terminal, ExitClosed(d, kind),
           UNCHANGED cancelAction
    PROVE  RowStep(d)
  <1>1. RowTyped(d)
    BY DEF TypeOK, RowTyped
  <1>2. OnlyRow(d)
    BY DEF TypeOK, OnlyRow, ExitClosed
  <1>a. InspectionsAfterExit(d, kind) \in Nat
    BY <1>1 DEF RowTyped, RecoveryRow, InspectionsAfterExit
  <1>b. queue[d].state \in Active
    BY DEF RowInv, WorkerOwned, WorkerGone
  <1>c. /\ InspectionsAfterExit(d, kind) <= InspectionBudget
        /\ InspectionsAfterExit(d, kind) >= recovery[d].inspUsed
    BY <1>1, BudgetAssumption DEF RowTyped, RecoveryRow, RowInv,
       RecoveryFacts, InspectionsAfterExit, InspectionsSpent
  <1>3. RowTyped(d)'
    <2>1. queue'[d] \in QueueRow
      BY <1>1 DEF RowTyped, QueueRow, ExitClosed
    <2>2. live'[d] \in LivenessRow
      BY DEF TypeOK, LivenessRow, ExitClosed
    <2>3. recovery'[d] \in RecoveryRow
      BY <1>1, <1>a DEF TypeOK, RowTyped, RecoveryRow, ExitClosed
    <2>4. policy'[d] \in PolicyRow
      BY <1>1 DEF TypeOK, RowTyped, PolicyRow, ExitClosed, Failures
    <2> QED
      BY <1>1, <2>1, <2>2, <2>3, <2>4 DEF RowTyped, ExitClosed
  <1>4. RowInv(d)'
    BY <1>c DEF RowInv, CapabilityFacts, ResultFacts, LivenessFacts,
       RecoveryFacts, PolicyFacts, WorkerOwned, WorkerGone,
       UnlaunchedRowsAreBare, TypeOK, ExitClosed
  <1>5. RowChange(d)
    <2>1. EndIsFinal(d) /\ ClaimFollowsExit(d)
      BY DEF EndIsFinal, ClaimFollowsExit, ExitClosed
    <2>2. queue[d].state # "absent" => BudgetsOnlyShrink(d)
      BY <1>c DEF BudgetsOnlyShrink, TypeOK, RecoveryRow, PolicyRow,
         ExitClosed
    <2>3. queue[d].state # "absent" => AttemptIsPaidFor(d)
      BY DEF AttemptIsPaidFor, ExitClosed
    <2> QED
      BY <2>1, <2>2, <2>3 DEF RowChange
  <1> QED
    BY <1>2, <1>3, <1>4, <1>5 DEF RowStep

(* An exit recorded for a row that had already ended.                      *)
LEMMA ExitAfterTerminalStep ==
    ASSUME TypeOK, NEW d \in Dispatches, RowInv(d), live[d].attempt # 0,
           queue[d].state \in Terminal, ExitAfterTerminal(d),
           UNCHANGED cancelAction
    PROVE  RowStep(d)
  <1>1. RowTyped(d)
    BY DEF TypeOK, RowTyped
  <1>2. OnlyRow(d)
    BY DEF TypeOK, OnlyRow, ExitAfterTerminal
  <1>3. RowTyped(d)'
    <2>1. live'[d] \in LivenessRow
      BY DEF TypeOK, LivenessRow, ExitAfterTerminal
    <2> QED
      BY <1>1, <2>1 DEF RowTyped, ExitAfterTerminal
  <1>4. RowInv(d)'
    BY DEF RowInv, CapabilityFacts, ResultFacts, LivenessFacts,
       RecoveryFacts, PolicyFacts, WorkerOwned, WorkerGone,
       UnlaunchedRowsAreBare, ExitAfterTerminal
  <1>5. RowChange(d)
    <2>1. EndIsFinal(d) /\ ClaimFollowsExit(d)
      BY DEF EndIsFinal, ClaimFollowsExit, ExitAfterTerminal
    <2>2. queue[d].state # "absent" => BudgetsOnlyShrink(d)
      BY DEF BudgetsOnlyShrink, TypeOK, RecoveryRow, PolicyRow,
         ExitAfterTerminal
    <2>3. queue[d].state # "absent" => AttemptIsPaidFor(d)
      BY DEF AttemptIsPaidFor, ExitAfterTerminal
    <2> QED
      BY <2>1, <2>2, <2>3 DEF RowChange
  <1> QED
    BY <1>2, <1>3, <1>4, <1>5 DEF RowStep

(* What the inspection of a lost thread found.                             *)
LEMMA RecordRecoveryInspectionStep ==
    ASSUME TypeOK, NEW d \in Dispatches, RowInv(d),
           NEW decision \in Recovering \union {"human_attention_required"},
           NEW wait \in Waits,
           wait # "none" <=>
               decision \in {"recovery_retry_wait", "recovery_continuation_pending"},
           RecordRecoveryInspection(d, decision, wait)
    PROVE  RowStep(d)
  <1>1. RowTyped(d)
    BY DEF TypeOK, RowTyped
  <1>2. OnlyRow(d)
    BY DEF TypeOK, OnlyRow, RecordRecoveryInspection
  <1>a. InspectionDecision(d, decision)
            \in Recovering \union {"human_attention_required"}
    BY DEF InspectionDecision
  <1>b. (IF ForHuman(d, decision) THEN "none" ELSE wait) \in Waits
    OBVIOUS
  <1>c. (IF InspectionsSpent(d) THEN recovery[d].inspUsed
                                ELSE recovery[d].inspUsed + 1) \in Nat
    BY <1>1 DEF RowTyped, RecoveryRow
  <1>d. recovery'[d] =
          [recovery[d] EXCEPT !.kind = InspectionDecision(d, decision),
              !.wait = IF ForHuman(d, decision) THEN "none" ELSE wait,
              !.inspUsed = IF InspectionsSpent(d) THEN @ ELSE @ + 1,
              !.inspected = TRUE]
    BY <1>1 DEF TypeOK, RecordRecoveryInspection
  <1>3. RowTyped(d)'
    <2>1. queue'[d] \in QueueRow
      BY <1>1, <1>a DEF RowTyped, QueueRow, RecordRecoveryInspection
    <2>2. recovery'[d] \in RecoveryRow
      BY <1>1, <1>a, <1>c, <1>d DEF RowTyped, RecoveryRow
    <2>3. policy'[d] \in PolicyRow
      BY <1>1 DEF RowTyped, PolicyRow, RecordRecoveryInspection
    <2> QED
      BY <1>1, <2>1, <2>2, <2>3 DEF RowTyped, RecordRecoveryInspection
  <1>4. RowInv(d)'
    <2>1. CapabilityFacts(d)'
      BY DEF RowInv, CapabilityFacts, RecordRecoveryInspection,
         InspectionDecision
    <2>2. ResultFacts(d)'
      BY DEF RowInv, ResultFacts, RecordRecoveryInspection,
         InspectionDecision
    <2>3. LivenessFacts(d)'
      BY DEF RowInv, LivenessFacts, RecordRecoveryInspection,
         InspectionDecision
    <2>4. RecoveryFacts(d)'
      BY DEF RowInv, RecoveryFacts, TypeOK, RecoveryRow,
         RecordRecoveryInspection, InspectionDecision, ForHuman
    <2>5. PolicyFacts(d)'
      BY DEF RowInv, PolicyFacts, RecordRecoveryInspection
    <2>6. WorkerOwned(d)'
      BY DEF RowInv, WorkerOwned, WorkerGone, RecordRecoveryInspection
    <2>7. UnlaunchedRowsAreBare(d)'
      BY DEF RowInv, UnlaunchedRowsAreBare, RecordRecoveryInspection,
         InspectionDecision
    <2> QED
      BY <2>1, <2>2, <2>3, <2>4, <2>5, <2>6, <2>7 DEF RowInv
  <1>5. RowChange(d)
    <2>1. EndIsFinal(d) /\ ClaimFollowsExit(d)
      BY DEF EndIsFinal, ClaimFollowsExit, TypeOK, QueueRow,
         RecordRecoveryInspection, InspectionDecision
    <2>2. queue[d].state # "absent" => BudgetsOnlyShrink(d)
      BY DEF BudgetsOnlyShrink, TypeOK, RecoveryRow, PolicyRow,
         RecordRecoveryInspection
    <2>3. queue[d].state # "absent" => AttemptIsPaidFor(d)
      BY DEF AttemptIsPaidFor, RecordRecoveryInspection
    <2> QED
      BY <2>1, <2>2, <2>3 DEF RowChange
  <1> QED
    BY <1>2, <1>3, <1>4, <1>5 DEF RowStep

(* A claim that could not be launched is closed.                           *)
LEMMA CloseClaimStep ==
    ASSUME TypeOK, NEW d \in Dispatches, RowInv(d), NEW failure \in Failures,
           WorkerGone(d), CloseClaim(d, failure)
    PROVE  RowStep(d)
  <1>1. RowTyped(d)
    BY DEF TypeOK, RowTyped
  <1>2. OnlyRow(d)
    BY DEF TypeOK, OnlyRow, CloseClaim
  <1>3. RowTyped(d)'
    <2>1. queue'[d] \in QueueRow
      BY <1>1 DEF RowTyped, QueueRow, CloseClaim
    <2>2. recovery'[d] \in RecoveryRow
      BY <1>1 DEF TypeOK, RowTyped, RecoveryRow, CloseClaim
    <2>3. policy'[d] \in PolicyRow
      BY <1>1 DEF TypeOK, RowTyped, PolicyRow, CloseClaim
    <2> QED
      BY <1>1, <2>1, <2>2, <2>3 DEF RowTyped, CloseClaim
  <1>4. RowInv(d)'
    BY DEF RowInv, CapabilityFacts, ResultFacts, LivenessFacts,
       RecoveryFacts, PolicyFacts, WorkerOwned, WorkerGone,
       UnlaunchedRowsAreBare, TypeOK, CloseClaim
  <1>5. RowChange(d)
    <2>1. EndIsFinal(d) /\ ClaimFollowsExit(d)
      BY DEF EndIsFinal, ClaimFollowsExit, CloseClaim
    <2>2. queue[d].state # "absent" => BudgetsOnlyShrink(d)
      BY DEF BudgetsOnlyShrink, TypeOK, RecoveryRow, PolicyRow,
         CloseClaim
    <2>3. queue[d].state # "absent" => AttemptIsPaidFor(d)
      BY DEF AttemptIsPaidFor, CloseClaim
    <2> QED
      BY <2>1, <2>2, <2>3 DEF RowChange
  <1> QED
    BY <1>2, <1>3, <1>4, <1>5 DEF RowStep

(* The inspection begins on a row whose worker is gone.                    *)
LEMMA BeginRecoveryInspectionStep ==
    ASSUME TypeOK, NEW d \in Dispatches, RowInv(d), BeginRecoveryInspection(d)
    PROVE  RowStep(d)
  <1>1. RowTyped(d)
    BY DEF TypeOK, RowTyped
  <1>2. OnlyRow(d)
    BY DEF TypeOK, OnlyRow, BeginRecoveryInspection
  <1>3. RowTyped(d)'
    <2>1. queue'[d] \in QueueRow
      BY <1>1 DEF RowTyped, QueueRow, BeginRecoveryInspection
    <2>2. recovery'[d] \in RecoveryRow
      BY <1>1 DEF TypeOK, RowTyped, RecoveryRow, BeginRecoveryInspection
    <2> QED
      BY <1>1, <2>1, <2>2 DEF RowTyped, BeginRecoveryInspection
  <1>4. RowInv(d)'
    BY DEF RowInv, RecoveryFacts, TypeOK, RecoveryRow,
       BeginRecoveryInspection, CanBeginInspection
  <1>5. RowChange(d)
    <2>1. EndIsFinal(d) /\ ClaimFollowsExit(d)
      BY DEF EndIsFinal, ClaimFollowsExit, BeginRecoveryInspection,
         CanBeginInspection
    <2>2. queue[d].state # "absent" => BudgetsOnlyShrink(d)
      BY DEF BudgetsOnlyShrink, TypeOK, RecoveryRow, PolicyRow,
         BeginRecoveryInspection
    <2>3. queue[d].state # "absent" => AttemptIsPaidFor(d)
      BY DEF AttemptIsPaidFor, BeginRecoveryInspection
    <2> QED
      BY <2>1, <2>2, <2>3 DEF RowChange
  <1> QED
    BY <1>2, <1>3, <1>4, <1>5 DEF RowStep

(* A continuation is claimed; it consumes its budget.                      *)
LEMMA ClaimContinuationStep ==
    ASSUME TypeOK, NEW d \in Dispatches, RowInv(d), CanBeginContinuation(d),
           ClaimContinuation(d), UNCHANGED cancelAction
    PROVE  RowStep(d)
  <1>1. RowTyped(d)
    BY DEF TypeOK, RowTyped
  <1>2. OnlyRow(d)
    BY DEF TypeOK, OnlyRow, ClaimContinuation
  <1>3. RowTyped(d)'
    <2>1. queue'[d] \in QueueRow
      BY DEF TypeOK, QueueRow, ClaimContinuation
    <2>2. recovery'[d] \in RecoveryRow
      BY DEF TypeOK, RecoveryRow, ClaimContinuation
    <2>3. policy'[d] \in PolicyRow
      BY <1>1 DEF TypeOK, RowTyped, PolicyRow, ClaimContinuation,
         Failures
    <2>4. cap'[d] \in CapabilityRow
      BY DEF TypeOK, CapabilityRow, ClaimContinuation
    <2>5. live'[d] \in LivenessRow
      BY DEF TypeOK, LivenessRow, ClaimContinuation
    <2> QED
      BY <1>1, <2>1, <2>2, <2>3, <2>4, <2>5 DEF RowTyped
  <1>4. RowInv(d)'
    <2>1. CapabilityFacts(d)'
      BY DEF TypeOK, QueueRow, ClaimContinuation
    <2>2. ResultFacts(d)'
      BY DEF TypeOK, QueueRow, ClaimContinuation, CanBeginContinuation
    <2>3. LivenessFacts(d)'
      BY DEF TypeOK, QueueRow, ClaimContinuation
    <2>4. RecoveryFacts(d)'
      BY DEF RowInv, RecoveryFacts, TypeOK, RecoveryRow,
         ClaimContinuation
    <2>5. PolicyFacts(d)'
      BY DEF RowInv, PolicyFacts, TypeOK, ClaimContinuation
    <2>6. WorkerOwned(d)'
      BY DEF WorkerOwned, TypeOK, ClaimContinuation
    <2>7. UnlaunchedRowsAreBare(d)'
      BY DEF UnlaunchedRowsAreBare, TypeOK, ClaimContinuation
    <2> QED
      BY <2>1, <2>2, <2>3, <2>4, <2>5, <2>6, <2>7 DEF RowInv
  <1>5. RowChange(d)
    <2>1. EndIsFinal(d) /\ ClaimFollowsExit(d)
      BY DEF WorkerGone, TypeOK, QueueRow, ClaimContinuation
    <2>2. queue[d].state # "absent" => BudgetsOnlyShrink(d)
      BY DEF BudgetsOnlyShrink, TypeOK, RecoveryRow, ClaimContinuation
    <2>3. queue[d].state # "absent" => AttemptIsPaidFor(d)
      BY DEF AttemptIsPaidFor, TypeOK, RecoveryRow, ClaimContinuation
    <2> QED
      BY <2>1, <2>2, <2>3 DEF RowChange
  <1> QED
    BY <1>2, <1>3, <1>4, <1>5 DEF RowStep

(* A continuation without a budget goes to a human.                        *)
LEMMA CloseContinuationStep ==
    ASSUME TypeOK, NEW d \in Dispatches, RowInv(d), CanBeginContinuation(d),
           CloseContinuation(d), UNCHANGED cancelAction
    PROVE  RowStep(d)
  <1>1. RowTyped(d)
    BY DEF TypeOK, RowTyped
  <1>2. OnlyRow(d)
    BY DEF TypeOK, OnlyRow, CloseContinuation
  <1>3. RowTyped(d)'
    <2>1. queue'[d] \in QueueRow
      BY <1>1 DEF RowTyped, QueueRow, CloseContinuation
    <2>2. recovery'[d] \in RecoveryRow
      BY <1>1 DEF TypeOK, RowTyped, RecoveryRow, CloseContinuation
    <2>3. policy'[d] \in PolicyRow
      BY <1>1 DEF RowTyped, PolicyRow, CloseContinuation
    <2> QED
      BY <1>1, <2>1, <2>2, <2>3 DEF RowTyped, CloseContinuation
  <1>4. RowInv(d)'
    BY DEF RowInv, RecoveryFacts, TypeOK, RecoveryRow, CloseContinuation,
       CanBeginContinuation
  <1>5. RowChange(d)
    <2>1. EndIsFinal(d) /\ ClaimFollowsExit(d)
      BY DEF EndIsFinal, ClaimFollowsExit, CloseContinuation,
         CanBeginContinuation
    <2>2. queue[d].state # "absent" => BudgetsOnlyShrink(d)
      BY DEF BudgetsOnlyShrink, TypeOK, RecoveryRow, PolicyRow,
         CloseContinuation
    <2>3. queue[d].state # "absent" => AttemptIsPaidFor(d)
      BY DEF AttemptIsPaidFor, CloseContinuation
    <2> QED
      BY <2>1, <2>2, <2>3 DEF RowChange
  <1> QED
    BY <1>2, <1>3, <1>4, <1>5 DEF RowStep

(* Time makes a recovery wait eligible.                                    *)
LEMMA EligibilityPassesStep ==
    ASSUME TypeOK, NEW d \in Dispatches, RowInv(d), EligibilityPasses(d)
    PROVE  RowStep(d)
  <1>1. RowTyped(d)
    BY DEF TypeOK, RowTyped
  <1>2. OnlyRow(d)
    BY DEF TypeOK, OnlyRow, EligibilityPasses
  <1>3. RowTyped(d)'
    <2>1. recovery'[d] \in RecoveryRow
      BY <1>1 DEF RowTyped, RecoveryRow, EligibilityPasses
    <2> QED
      BY <1>1, <2>1 DEF RowTyped, EligibilityPasses
  <1>4. RowInv(d)'
    BY DEF RowInv, CapabilityFacts, ResultFacts, LivenessFacts,
       RecoveryFacts, PolicyFacts, WorkerOwned, WorkerGone,
       UnlaunchedRowsAreBare, EligibilityPasses
  <1>5. RowChange(d)
    <2>1. EndIsFinal(d) /\ ClaimFollowsExit(d)
      BY DEF EndIsFinal, ClaimFollowsExit, EligibilityPasses
    <2>2. queue[d].state # "absent" => BudgetsOnlyShrink(d)
      BY DEF BudgetsOnlyShrink, TypeOK, RecoveryRow, PolicyRow,
         EligibilityPasses
    <2>3. queue[d].state # "absent" => AttemptIsPaidFor(d)
      BY DEF AttemptIsPaidFor, EligibilityPasses
    <2> QED
      BY <2>1, <2>2, <2>3 DEF RowChange
  <1> QED
    BY <1>2, <1>3, <1>4, <1>5 DEF RowStep

(* Time makes a queued row available.                                      *)
LEMMA AvailabilityPassesStep ==
    ASSUME TypeOK, NEW d \in Dispatches, RowInv(d), AvailabilityPasses(d)
    PROVE  RowStep(d)
  <1>1. RowTyped(d)
    BY DEF TypeOK, RowTyped
  <1>2. OnlyRow(d)
    BY DEF TypeOK, OnlyRow, AvailabilityPasses
  <1>3. RowTyped(d)'
    <2>1. queue'[d] \in QueueRow
      BY <1>1 DEF TypeOK, RowTyped, QueueRow, AvailabilityPasses
    <2> QED
      BY <1>1, <2>1 DEF RowTyped, AvailabilityPasses
  <1>4. RowInv(d)'
    BY DEF RowInv, CapabilityFacts, ResultFacts, LivenessFacts,
       RecoveryFacts, PolicyFacts, WorkerOwned, WorkerGone,
       UnlaunchedRowsAreBare, AvailabilityPasses
  <1>5. RowChange(d)
    <2>1. EndIsFinal(d) /\ ClaimFollowsExit(d)
      BY DEF EndIsFinal, ClaimFollowsExit, AvailabilityPasses
    <2>2. queue[d].state # "absent" => BudgetsOnlyShrink(d)
      BY DEF BudgetsOnlyShrink, TypeOK, RecoveryRow, PolicyRow,
         AvailabilityPasses
    <2>3. queue[d].state # "absent" => AttemptIsPaidFor(d)
      BY DEF AttemptIsPaidFor, AvailabilityPasses
    <2> QED
      BY <2>1, <2>2, <2>3 DEF RowChange
  <1> QED
    BY <1>2, <1>3, <1>4, <1>5 DEF RowStep

(* The operator RETRY of a row that waits for a human.                     *)
LEMMA RetryStep ==
    ASSUME TypeOK, NEW d \in Dispatches, RowInv(d), Retry(d)
    PROVE  RowStep(d)
  <1>1. RowTyped(d)
    BY DEF TypeOK, RowTyped
  <1>2. OnlyRow(d)
    BY DEF TypeOK, OnlyRow, Retry, Requeue
  <1>3. RowTyped(d)'
    <2>1. queue'[d] \in QueueRow
      BY DEF TypeOK, QueueRow, Retry, Requeue
    <2>2. cap'[d] \in CapabilityRow
      BY DEF TypeOK, CapabilityRow, Retry, Requeue
    <2>3. live'[d] \in LivenessRow
      BY DEF TypeOK, LivenessRow, Retry, Requeue
    <2>4. recovery'[d] \in RecoveryRow
      BY <1>1 DEF TypeOK, RowTyped, RecoveryRow, Retry
    <2>5. policy'[d] \in PolicyRow
      BY <1>1 DEF RowTyped, PolicyRow, Retry
    <2> QED
      BY <1>1, <2>1, <2>2, <2>3, <2>4, <2>5 DEF RowTyped, Retry
  <1>4. RowInv(d)'
    BY DEF RowInv, CapabilityFacts, ResultFacts, LivenessFacts,
       RecoveryFacts, PolicyFacts, WorkerOwned, WorkerGone,
       UnlaunchedRowsAreBare, TypeOK, Retry, Requeue, CanRetry, AwaitsHuman
  <1>5. RowChange(d)
    <2>1. EndIsFinal(d) /\ ClaimFollowsExit(d)
      BY DEF EndIsFinal, ClaimFollowsExit, TypeOK, Retry, Requeue,
         CanRetry, AwaitsHuman
    <2>2. queue[d].state # "absent" => BudgetsOnlyShrink(d)
      BY DEF BudgetsOnlyShrink, TypeOK, RecoveryRow, PolicyRow, Retry
    <2>3. queue[d].state # "absent" => AttemptIsPaidFor(d)
      BY DEF TypeOK, QueueRow, RecoveryRow, PolicyRow, Retry, Requeue,
         CanRetry, AwaitsHuman
    <2> QED
      BY <2>1, <2>2, <2>3 DEF RowChange
  <1> QED
    BY <1>2, <1>3, <1>4, <1>5 DEF RowStep

(* The operator changes a budget, never below what is used.                *)
LEMMA BudgetChangeStep ==
    ASSUME TypeOK, NEW d \in Dispatches, RowInv(d),
           NEW budget \in [RetryClasses -> Nat], BudgetChange(d, budget)
    PROVE  RowStep(d)
  <1>1. RowTyped(d)
    BY DEF TypeOK, RowTyped
  <1>2. OnlyRow(d)
    BY DEF TypeOK, OnlyRow, BudgetChange
  <1>3. RowTyped(d)'
    <2>1. policy'[d] \in PolicyRow
      BY <1>1 DEF RowTyped, PolicyRow, BudgetChange
    <2> QED
      BY <1>1, <2>1 DEF RowTyped, BudgetChange
  <1>4. RowInv(d)'
    <2>1. CapabilityFacts(d)'
      BY DEF RowInv, CapabilityFacts, BudgetChange
    <2>2. ResultFacts(d)'
      BY DEF RowInv, ResultFacts, BudgetChange
    <2>3. LivenessFacts(d)'
      BY DEF RowInv, LivenessFacts, BudgetChange
    <2>4. RecoveryFacts(d)'
      BY DEF RowInv, RecoveryFacts, BudgetChange
    <2>5. PolicyFacts(d)'
      BY DEF RowInv, PolicyFacts, BudgetChange, RetryClasses
    <2>6. WorkerOwned(d)'
      BY DEF RowInv, WorkerOwned, WorkerGone, BudgetChange
    <2>7. UnlaunchedRowsAreBare(d)'
      BY DEF RowInv, UnlaunchedRowsAreBare, BudgetChange
    <2> QED
      BY <2>1, <2>2, <2>3, <2>4, <2>5, <2>6, <2>7 DEF RowInv
  <1>5. RowChange(d)
    <2>1. EndIsFinal(d) /\ ClaimFollowsExit(d)
      BY DEF EndIsFinal, ClaimFollowsExit, BudgetChange
    <2>2. queue[d].state # "absent" => BudgetsOnlyShrink(d)
      BY DEF BudgetsOnlyShrink, TypeOK, RecoveryRow, PolicyRow,
         BudgetChange
    <2>3. queue[d].state # "absent" => AttemptIsPaidFor(d)
      BY DEF AttemptIsPaidFor, BudgetChange
    <2> QED
      BY <2>1, <2>2, <2>3 DEF RowChange
  <1> QED
    BY <1>2, <1>3, <1>4, <1>5 DEF RowStep

(* The operator grants a provider continuation.                            *)
LEMMA ProviderGrantStep ==
    ASSUME TypeOK, NEW d \in Dispatches, RowInv(d), ProviderGrant(d)
    PROVE  RowStep(d)
  <1>1. RowTyped(d)
    BY DEF TypeOK, RowTyped
  <1>2. OnlyRow(d)
    BY DEF TypeOK, OnlyRow, ProviderGrant
  <1>a. ProviderBudget \in Nat /\ "provider_transient" \in RetryClasses
    BY BudgetAssumption DEF ProviderBudget, RetryClasses
  <1>b. /\ [policy[d].used EXCEPT !["provider_transient"] = ProviderBudget + 1]
              \in [RetryClasses -> Nat]
        /\ [policy[d].budget EXCEPT !["provider_transient"] = ProviderBudget + 1]
              \in [RetryClasses -> Nat]
    BY <1>1, <1>a DEF RowTyped, PolicyRow
  <1>3. RowTyped(d)'
    <2>1. queue'[d] \in QueueRow
      BY DEF TypeOK, QueueRow, ProviderGrant
    <2>2. recovery'[d] \in RecoveryRow
      BY DEF TypeOK, RecoveryRow, ProviderGrant
    <2>3. policy'[d] \in PolicyRow
      BY <1>1, <1>b DEF TypeOK, RowTyped, PolicyRow, ProviderGrant
    <2> QED
      BY <1>1, <2>1, <2>2, <2>3 DEF RowTyped, ProviderGrant
  <1>4. RowInv(d)'
    <2>1. CapabilityFacts(d)'
      BY DEF RowInv, CapabilityFacts, ProviderGrant, AwaitsHuman
    <2>2. ResultFacts(d)'
      BY DEF RowInv, ResultFacts, ProviderGrant, AwaitsHuman
    <2>3. LivenessFacts(d)'
      BY DEF RowInv, LivenessFacts, ProviderGrant
    <2>4. RecoveryFacts(d)'
      BY DEF RecoveryFacts, TypeOK, RecoveryRow, ProviderGrant
    <2>5. PolicyFacts(d)'
      BY <1>b DEF RowInv, PolicyFacts, ProviderGrant
    <2>6. WorkerOwned(d)'
      BY DEF WorkerOwned, WorkerGone, ProviderGrant
    <2>7. UnlaunchedRowsAreBare(d)'
      BY DEF RowInv, UnlaunchedRowsAreBare, ProviderGrant
    <2> QED
      BY <2>1, <2>2, <2>3, <2>4, <2>5, <2>6, <2>7 DEF RowInv
  <1>5. RowChange(d)
    <2>1. EndIsFinal(d) /\ ClaimFollowsExit(d)
      BY DEF EndIsFinal, ClaimFollowsExit, ProviderGrant, AwaitsHuman
    <2>2. queue[d].state # "absent" => BudgetsOnlyShrink(d)
      BY DEF BudgetsOnlyShrink, PolicyFacts, TypeOK, RecoveryRow,
         ProviderGrant
    <2>3. queue[d].state # "absent" => AttemptIsPaidFor(d)
      BY DEF AttemptIsPaidFor, ProviderGrant
    <2> QED
      BY <2>1, <2>2, <2>3 DEF RowChange
  <1> QED
    BY <1>2, <1>3, <1>4, <1>5 DEF RowStep

(* The operator rebinds the profile.                                       *)
LEMMA CompatibilityRebindStep ==
    ASSUME TypeOK, NEW d \in Dispatches, RowInv(d), CompatibilityRebind(d)
    PROVE  RowStep(d)
  <1>1. RowTyped(d)
    BY DEF TypeOK, RowTyped
  <1>2. OnlyRow(d)
    BY DEF TypeOK, OnlyRow, CompatibilityRebind
  <1>3. RowTyped(d)'
    <2>1. cap'[d] \in CapabilityRow
      BY DEF TypeOK, CapabilityRow, CompatibilityRebind
    <2> QED
      BY <1>1, <2>1 DEF RowTyped, CompatibilityRebind
  <1>4. RowInv(d)'
    BY DEF RowInv, CapabilityFacts, ResultFacts, LivenessFacts,
       RecoveryFacts, PolicyFacts, WorkerOwned, WorkerGone,
       UnlaunchedRowsAreBare, CompatibilityRebind
  <1>5. RowChange(d)
    <2>1. EndIsFinal(d) /\ ClaimFollowsExit(d)
      BY DEF EndIsFinal, ClaimFollowsExit, CompatibilityRebind
    <2>2. queue[d].state # "absent" => BudgetsOnlyShrink(d)
      BY DEF BudgetsOnlyShrink, TypeOK, RecoveryRow, PolicyRow,
         CompatibilityRebind
    <2>3. queue[d].state # "absent" => AttemptIsPaidFor(d)
      BY DEF AttemptIsPaidFor, CompatibilityRebind
    <2> QED
      BY <2>1, <2>2, <2>3 DEF RowChange
  <1> QED
    BY <1>2, <1>3, <1>4, <1>5 DEF RowStep

(* A worker result is committed under its capability.                      *)
LEMMA CommitQueueResultStep ==
    ASSUME TypeOK, NEW d \in Dispatches, RowInv(d), NEW r \in Nat \ {0},
           NEW outcome \in ResultStates, CommitQueueResult(d, r, outcome)
    PROVE  RowStep(d)
  <1>1. RowTyped(d)
    BY DEF TypeOK, RowTyped
  <1>2. OnlyRow(d)
    BY DEF TypeOK, OnlyRow, CommitQueueResult, FinalizeQueueResult
  <1>3. RowTyped(d)'
    <2>1. queue'[d] \in QueueRow
      BY <1>1 DEF TypeOK, RowTyped, QueueRow, CommitQueueResult,
         FinalizeQueueResult
    <2>2. cap'[d] \in CapabilityRow
      BY DEF TypeOK, CapabilityRow, CommitQueueResult
    <2>3. recovery'[d] \in RecoveryRow
      BY <1>1 DEF TypeOK, RowTyped, RecoveryRow, CommitQueueResult,
         FinalizeQueueResult
    <2>4. policy'[d] \in PolicyRow
      BY <1>1 DEF RowTyped, PolicyRow, CommitQueueResult,
         FinalizeQueueResult
    <2> QED
      BY <1>1, <2>1, <2>2, <2>3, <2>4 DEF RowTyped, CommitQueueResult
  <1>4. RowInv(d)'
    BY DEF RowInv, ResultFacts, TypeOK, QueueRow, CommitQueueResult,
       FinalizeQueueResult, SubmitAllowed
  <1>5. RowChange(d)
    <2>1. EndIsFinal(d) /\ ClaimFollowsExit(d)
      BY DEF EndIsFinal, ClaimFollowsExit, TypeOK, CommitQueueResult,
         FinalizeQueueResult, SubmitAllowed
    <2>2. queue[d].state # "absent" => BudgetsOnlyShrink(d)
      BY DEF BudgetsOnlyShrink, TypeOK, RecoveryRow, PolicyRow,
         CommitQueueResult, FinalizeQueueResult
    <2>3. queue[d].state # "absent" => AttemptIsPaidFor(d)
      BY DEF AttemptIsPaidFor, TypeOK, CommitQueueResult,
         FinalizeQueueResult
    <2> QED
      BY <2>1, <2>2, <2>3 DEF RowChange
  <1> QED
    BY <1>2, <1>3, <1>4, <1>5 DEF RowStep

(* A retained result is committed after its worker.                        *)
LEMMA CommitRetainedQueueResultStep ==
    ASSUME TypeOK, NEW d \in Dispatches, RowInv(d), NEW r \in Nat \ {0},
           NEW outcome \in ResultStates,
           CommitRetainedQueueResult(d, r, outcome)
    PROVE  RowStep(d)
  <1>1. RowTyped(d)
    BY DEF TypeOK, RowTyped
  <1>2. OnlyRow(d)
    BY DEF TypeOK, OnlyRow, CommitRetainedQueueResult, FinalizeQueueResult
  <1>3. RowTyped(d)'
    <2>1. queue'[d] \in QueueRow
      BY <1>1 DEF TypeOK, RowTyped, QueueRow, CommitRetainedQueueResult,
         FinalizeQueueResult
    <2>2. cap'[d] \in CapabilityRow
      BY DEF TypeOK, CapabilityRow, CommitRetainedQueueResult
    <2>3. recovery'[d] \in RecoveryRow
      BY <1>1 DEF TypeOK, RowTyped, RecoveryRow,
         CommitRetainedQueueResult, FinalizeQueueResult
    <2>4. policy'[d] \in PolicyRow
      BY <1>1 DEF RowTyped, PolicyRow, CommitRetainedQueueResult,
         FinalizeQueueResult
    <2> QED
      BY <1>1, <2>1, <2>2, <2>3, <2>4 DEF RowTyped,
         CommitRetainedQueueResult
  <1>4. RowInv(d)'
    BY DEF RowInv, ResultFacts, TypeOK, QueueRow,
       CommitRetainedQueueResult, FinalizeQueueResult, CanCommitRetained,
       SubmitAllowed
  <1>5. RowChange(d)
    <2>1. EndIsFinal(d) /\ ClaimFollowsExit(d)
      BY DEF EndIsFinal, ClaimFollowsExit, TypeOK,
         CommitRetainedQueueResult, FinalizeQueueResult,
         CanCommitRetained, SubmitAllowed
    <2>2. queue[d].state # "absent" => BudgetsOnlyShrink(d)
      BY DEF BudgetsOnlyShrink, TypeOK, RecoveryRow, PolicyRow,
         CommitRetainedQueueResult, FinalizeQueueResult
    <2>3. queue[d].state # "absent" => AttemptIsPaidFor(d)
      BY DEF AttemptIsPaidFor, TypeOK, CommitRetainedQueueResult,
         FinalizeQueueResult
    <2> QED
      BY <2>1, <2>2, <2>3 DEF RowChange
  <1> QED
    BY <1>2, <1>3, <1>4, <1>5 DEF RowStep

(* A result found in the thread is ingested.                               *)
LEMMA IngestRecoveredResultStep ==
    ASSUME TypeOK, NEW d \in Dispatches, RowInv(d), NEW r \in Nat \ {0},
           NEW outcome \in ResultStates, IngestRecoveredResult(d, r, outcome)
    PROVE  RowStep(d)
  <1>1. RowTyped(d)
    BY DEF TypeOK, RowTyped
  <1>2. OnlyRow(d)
    BY DEF TypeOK, OnlyRow, IngestRecoveredResult, FinalizeQueueResult
  <1>3. RowTyped(d)'
    <2>1. queue'[d] \in QueueRow
      BY <1>1 DEF TypeOK, RowTyped, QueueRow, IngestRecoveredResult,
         FinalizeQueueResult
    <2>2. recovery'[d] \in RecoveryRow
      BY <1>1 DEF TypeOK, RowTyped, RecoveryRow, IngestRecoveredResult,
         FinalizeQueueResult
    <2>3. policy'[d] \in PolicyRow
      BY <1>1 DEF RowTyped, PolicyRow, IngestRecoveredResult,
         FinalizeQueueResult
    <2> QED
      BY <1>1, <2>1, <2>2, <2>3 DEF RowTyped, IngestRecoveredResult
  <1>4. RowInv(d)'
    BY DEF RowInv, ResultFacts, TypeOK, QueueRow, IngestRecoveredResult,
       FinalizeQueueResult
  <1>5. RowChange(d)
    <2>1. EndIsFinal(d) /\ ClaimFollowsExit(d)
      BY DEF EndIsFinal, ClaimFollowsExit, TypeOK, IngestRecoveredResult,
         FinalizeQueueResult
    <2>2. queue[d].state # "absent" => BudgetsOnlyShrink(d)
      BY DEF BudgetsOnlyShrink, TypeOK, RecoveryRow, PolicyRow,
         IngestRecoveredResult, FinalizeQueueResult
    <2>3. queue[d].state # "absent" => AttemptIsPaidFor(d)
      BY DEF AttemptIsPaidFor, TypeOK, IngestRecoveredResult,
         FinalizeQueueResult
    <2> QED
      BY <2>1, <2>2, <2>3 DEF RowChange
  <1> QED
    BY <1>2, <1>3, <1>4, <1>5 DEF RowStep

-----------------------------------------------------------------------------
(* The actions that end in a cancellation, and the alternatives of the     *)
(* larger ones.                                                            *)

(* A claim: a queued row or one due for recovery.                          *)
LEMMA ClaimQueueDispatchStep ==
    ASSUME TypeOK, NEW d \in Dispatches, RowInv(d), ClaimQueueDispatch(d)
    PROVE  RowStep(d)
  <1>1. RowTyped(d)
    BY DEF TypeOK, RowTyped
  <1>2. queue[d].state = "queued" /\ UNCHANGED cancelAction
    BY DEF ClaimQueueDispatch, Claimable
  <1>3. CASE CancelQueueRow(d, NoLiveness)
    <2>1. NoLiveness \in LivenessRow /\ NoLiveness.attempt = 0
      BY DEF LivenessRow
    <2> QED
      BY <1>2, <1>3, <2>1, CancelQueueRowStep
  <1>4. CASE /\ queue' = [queue EXCEPT ![d].state = "claimed",
                                       ![d].epoch = authority.epoch]
             /\ UNCHANGED <<cap, live, recovery, policy>>
    <2>1. OnlyRow(d)
      BY <1>2, <1>4 DEF TypeOK, OnlyRow
    <2>2. queue'[d] = [queue[d] EXCEPT !.state = "claimed",
                                       !.epoch = authority.epoch]
      BY <1>4 DEF TypeOK
    <2>3. RowTyped(d)'
      BY <1>1, <1>2, <1>4 DEF TypeOK, RowTyped, QueueRow
    <2>4. RowInv(d)'
      <3>1. CapabilityFacts(d)'
        BY <1>2, <1>4 DEF RowInv, CapabilityFacts,
           UnlaunchedRowsAreBare
      <3>2. ResultFacts(d)'
        <4>1. queue[d].result = 0
          BY <1>2 DEF RowInv, ResultFacts
        <4>2. queue'[d].result = 0 /\ queue'[d].state = "claimed"
          BY <2>2, <4>1
        <4> QED
          BY <4>2 DEF ResultFacts
      <3>3. LivenessFacts(d)'
        BY <1>2, <1>4 DEF RowInv, LivenessFacts, UnlaunchedRowsAreBare
      <3>4. RecoveryFacts(d)'
        BY <1>2, <1>4, <2>3 DEF RowTyped, RecoveryRow, RowInv,
           RecoveryFacts
      <3>5. PolicyFacts(d)'
        BY <1>4 DEF RowInv, PolicyFacts
      <3>6. WorkerOwned(d)'
        BY <1>2, <2>2 DEF WorkerOwned
      <3>7. UnlaunchedRowsAreBare(d)'
        BY <1>2, <2>2 DEF UnlaunchedRowsAreBare, UnlaunchedRowsAreBare
      <3> QED
        BY <3>1, <3>2, <3>3, <3>4, <3>5, <3>6, <3>7 DEF RowInv
    <2>5. RowChange(d)
      <3>1. EndIsFinal(d) /\ ClaimFollowsExit(d)
        BY <1>2, <1>4 DEF RowInv, UnlaunchedRowsAreBare, WorkerGone,
           EndIsFinal, ClaimFollowsExit
      <3>2. BudgetsOnlyShrink(d)
        BY <1>1, <1>4 DEF RowTyped, RecoveryRow, PolicyRow,
           BudgetsOnlyShrink
      <3>3. AttemptIsPaidFor(d)
        BY <2>2 DEF AttemptIsPaidFor
      <3> QED
        BY <3>1, <3>2, <3>3 DEF RowChange
    <2> QED
      BY <2>1, <2>3, <2>4, <2>5 DEF RowStep
  <1> QED
    BY <1>3, <1>4 DEF ClaimQueueDispatch

(* mark_worker_exit is one of the five exits above.                        *)
LEMMA MarkWorkerExitStep ==
    ASSUME TypeOK, NEW d \in Dispatches, RowInv(d),
           NEW kind \in ExitKinds, MarkWorkerExit(d, kind)
    PROVE  RowStep(d)
  <1>1. live[d].attempt # 0 /\ ~live[d].exited /\ UNCHANGED cancelAction
    BY DEF MarkWorkerExit
  <1>2. CASE queue[d].state \in Terminal
    BY <1>1, <1>2, ExitAfterTerminalStep DEF MarkWorkerExit
  <1>3. CASE queue[d].state \notin Terminal
    <2>1. \/ ExitRequeued(d, kind) \/ ExitRetryable(d, kind)
          \/ ExitAmbiguous(d, kind) \/ ExitClosed(d, kind)
      BY <1>3 DEF MarkWorkerExit
    <2> QED
      BY <1>1, <1>3, <2>1, ExitRequeuedStep, ExitRetryableStep,
         ExitAmbiguousStep, ExitClosedStep
  <1> QED
    BY <1>2, <1>3

(* mark_human_attention_required closes a claim.                           *)
LEMMA MarkHumanAttentionRequiredStep ==
    ASSUME TypeOK, NEW d \in Dispatches, RowInv(d), NEW failure \in Failures,
           WorkerGone(d), MarkHumanAttentionRequired(d, failure)
    PROVE  RowStep(d)
  BY CloseClaimStep, RecordRecoveryInspectionStep DEF
     MarkHumanAttentionRequired

(* begin_recovery_continuation claims or closes.                           *)
LEMMA BeginRecoveryContinuationStep ==
    ASSUME TypeOK, NEW d \in Dispatches, RowInv(d),
           BeginRecoveryContinuation(d)
    PROVE  RowStep(d)
  BY ClaimContinuationStep, CloseContinuationStep DEF
     BeginRecoveryContinuation

(* A cancellation request, with or without a running worker.               *)
LEMMA CancelStep ==
    ASSUME TypeOK, NEW d \in Dispatches, RowInv(d), Cancel(d)
    PROVE  RowStep(d)
  <1>1. RowTyped(d)
    BY DEF TypeOK, RowTyped
  <1>2. CASE ~WorkerGone(d)
    <2>1. /\ UNCHANGED <<queue, cap, live, recovery, policy>>
          /\ cancelAction' = [cancelAction EXCEPT ![d] = TRUE]
      BY <1>2 DEF Cancel
    <2> QED
      BY <2>1 DEF TypeOK, RowStep, OnlyRow, RowTyped, RowInv, RowChange,
         CapabilityFacts, ResultFacts, LivenessFacts, RecoveryFacts,
         PolicyFacts, WorkerOwned, WorkerGone, UnlaunchedRowsAreBare,
         EndIsFinal, ClaimFollowsExit, BudgetsOnlyShrink,
         AttemptIsPaidFor, RecoveryRow, PolicyRow
  <1>3. CASE WorkerGone(d)
    <2>1. /\ CancelQueueRow(d, live[d])
          /\ cancelAction' = [cancelAction EXCEPT ![d] = TRUE]
          /\ queue[d].state \notin Terminal \union {"absent"}
      BY <1>3 DEF Cancel, AcceptsAction
    <2>2. /\ live[d] \in LivenessRow
          /\ live[d].attempt # 0 =>
                live[d].exited /\ live[d].attempt = queue[d].attempt
      BY <1>1, <1>3 DEF RowTyped, RowInv, LivenessFacts, WorkerGone
    <2> QED
      BY <2>1, <2>2, CancelQueueRowStep
  <1> QED
    BY <1>2, <1>3

(* The stopped worker is acknowledged.                                     *)
LEMMA AcknowledgeWorkerCancellationExitStep ==
    ASSUME TypeOK, NEW d \in Dispatches, RowInv(d),
           AcknowledgeWorkerCancellationExit(d)
    PROVE  RowStep(d)
  <1>1. live[d] \in LivenessRow
    BY DEF TypeOK
  <1> DEFINE exited == [live[d] EXCEPT !.exited = TRUE]
  <1>2. exited \in LivenessRow /\ exited.exited
            /\ exited.attempt = live[d].attempt
    BY <1>1 DEF LivenessRow
  <1>3. /\ CancelQueueRow(d, exited)
        /\ UNCHANGED cancelAction
        /\ live[d].attempt # 0
        /\ queue[d].state \notin Terminal
    BY DEF AcknowledgeWorkerCancellationExit
  <1>4. queue[d].state # "absent" /\ live[d].attempt = queue[d].attempt
    BY <1>3 DEF RowInv, UnlaunchedRowsAreBare, LivenessFacts
  <1> QED
    BY <1>2, <1>3, <1>4, CancelQueueRowStep

-----------------------------------------------------------------------------
(* A step of one row: the other rows keep what they have.                  *)

(* Every launch step is a step of one row.                                 *)
LEMMA LaunchStepRow ==
    ASSUME TypeOK, NEW d \in Dispatches, RowInv(d), LaunchStep(d)
    PROVE  RowStep(d) /\ UNCHANGED authority
  <1>1. \A t \in 1..queue[d].attempt : t \in Nat
    BY DEF TypeOK, QueueRow
  <1>2. UNCHANGED authority
    BY DEF LaunchStep, EnqueueDispatch, ClaimQueueDispatch,
       ConfigureRecovery, IssueAttemptCapability, SetQueueStarting,
       BindWorkerLiveness, BindWorkerThread, RenewWorkerLiveness,
       CapabilityExpires, AdoptLiveWorker
  <1> QED
    BY <1>2, EnqueueDispatchStep, ClaimQueueDispatchStep,
       ConfigureRecoveryStep, IssueAttemptCapabilityStep,
       SetQueueStartingStep, BindWorkerLivenessStep, BindWorkerThreadStep,
       RenewWorkerLivenessStep, CapabilityExpiresStep, AdoptLiveWorkerStep
       DEF LaunchStep

(* So is every recovery step,                                              *)
LEMMA RecoveryStepRow ==
    ASSUME TypeOK, NEW d \in Dispatches, RowInv(d), RecoveryStep(d)
    PROVE  RowStep(d) /\ UNCHANGED authority
  <1>1. UNCHANGED authority
    BY DEF RecoveryStep, MarkWorkerExit, RecordRecoveryInspection,
       CloseClaim, MarkHumanAttentionRequired, BeginRecoveryInspection,
       BeginRecoveryContinuation, EligibilityPasses, AvailabilityPasses
  <1>2. {"none", "profile"} \subseteq Failures
    BY DEF Failures, ExitKinds, RetryClasses
  <1> QED
    BY <1>1, <1>2, MarkWorkerExitStep, RecordRecoveryInspectionStep,
       MarkHumanAttentionRequiredStep, BeginRecoveryInspectionStep,
       BeginRecoveryContinuationStep, EligibilityPassesStep,
       AvailabilityPassesStep DEF RecoveryStep

(* every operator action,                                                  *)
LEMMA OperatorStepRow ==
    ASSUME TypeOK, NEW d \in Dispatches, RowInv(d), OperatorStep(d)
    PROVE  RowStep(d) /\ UNCHANGED authority
  <1>1. UNCHANGED authority
    BY DEF OperatorStep, Retry, BudgetChange, ProviderGrant,
       CompatibilityRebind, Cancel, AcknowledgeWorkerCancellationExit
  <1>2. \A budget \in [RetryClasses -> 0..ProviderBudget + 1] :
            budget \in [RetryClasses -> Nat]
    BY BudgetAssumption DEF ProviderBudget, RetryClasses
  <1> QED
    BY <1>1, RetryStep, BudgetChangeStep, ProviderGrantStep,
       CompatibilityRebindStep, CancelStep,
       AcknowledgeWorkerCancellationExitStep DEF OperatorStep

(* and every step that carries a result.                                   *)
LEMMA ResultStepRow ==
    ASSUME TypeOK, NEW d \in Dispatches, RowInv(d), ResultStep(d)
    PROVE  RowStep(d) /\ UNCHANGED authority
  <1>1. UNCHANGED authority
    BY DEF ResultStep, CommitQueueResult, CommitRetainedQueueResult,
       IngestRecoveredResult
  <1>2. PICK outcome \in ResultStates :
            \/ CommitQueueResult(d, queue[d].attempt, outcome)
            \/ CommitRetainedQueueResult(d, queue[d].attempt, outcome)
            \/ \E r \in 1..queue[d].attempt :
                  IngestRecoveredResult(d, r, outcome)
    BY DEF ResultStep
  <1>3. queue[d].attempt \in Nat
    BY DEF TypeOK, QueueRow
  <1>4. CASE CommitQueueResult(d, queue[d].attempt, outcome)
    <2>1. queue[d].attempt # 0
      BY <1>4 DEF CommitQueueResult, SubmitAllowed
    <2> QED
      BY <1>1, <1>3, <1>4, <2>1, CommitQueueResultStep
  <1>5. CASE CommitRetainedQueueResult(d, queue[d].attempt, outcome)
    <2>1. queue[d].attempt # 0
      BY <1>5 DEF CommitRetainedQueueResult, CanCommitRetained,
         SubmitAllowed
    <2> QED
      BY <1>1, <1>3, <1>5, <2>1, CommitRetainedQueueResultStep
  <1>6. CASE \E r \in 1..queue[d].attempt : IngestRecoveredResult(d, r, outcome)
    <2>1. PICK r \in 1..queue[d].attempt : IngestRecoveredResult(d, r, outcome)
      BY <1>6
    <2>2. r \in Nat \ {0}
      BY <1>3
    <2> QED
      BY <1>1, <2>1, <2>2, IngestRecoveredResultStep
  <1> QED
    BY <1>2, <1>4, <1>5, <1>6

(* A step of the ledger is a step of one row, or changes no row at all.    *)
LEMMA NextIsRowStep ==
    ASSUME LedgerInv, Next
    PROVE  \/ /\ UNCHANGED <<queue, cap, live, recovery, policy, cancelAction>>
              /\ authority' \in [epoch : Nat, leased : BOOLEAN, fenced : BOOLEAN]
           \/ \E d \in Dispatches : RowStep(d) /\ UNCHANGED authority
  <1>1. CASE HarnessStep
    <2>1. UNCHANGED <<queue, cap, live, recovery, policy, cancelAction>>
      BY <1>1 DEF HarnessStep, AcquireHarness, LeaseExpires,
         RenewHarness, ArmHarnessRefreshFence, RequestHarnessShutdown
    <2>2. authority \in [epoch : Nat, leased : BOOLEAN, fenced : BOOLEAN]
      BY DEF LedgerInv, TypeOK
    <2>3. authority' \in [epoch : Nat, leased : BOOLEAN, fenced : BOOLEAN]
      <3>1. CASE AcquireHarness
        BY <2>2, <3>1 DEF AcquireHarness
      <3>2. CASE LeaseExpires \/ RenewHarness
        BY <2>2, <3>2 DEF LeaseExpires, RenewHarness
      <3>3. CASE ArmHarnessRefreshFence \/ RequestHarnessShutdown
        BY <2>2, <3>3 DEF ArmHarnessRefreshFence,
           RequestHarnessShutdown
      <3> QED
        BY <1>1, <3>1, <3>2, <3>3 DEF HarnessStep
    <2> QED
      BY <2>1, <2>3
  <1>2. CASE \E d \in Dispatches :
               LaunchStep(d) \/ RecoveryStep(d) \/ OperatorStep(d)
                   \/ ResultStep(d)
    BY <1>2, LaunchStepRow, RecoveryStepRow, OperatorStepRow, ResultStepRow
       DEF LedgerInv
  <1> QED
    BY <1>1, <1>2 DEF Next

(* The empty ledger satisfies the inductive invariant.                     *)
LEMMA LedgerInvInit == Init => LedgerInv
  <1> SUFFICES ASSUME Init PROVE LedgerInv
    OBVIOUS
  <1>1. NoDispatch \in QueueRow /\ NoCapability \in CapabilityRow
            /\ NoLiveness \in LivenessRow
    BY DEF NoDispatch, QueueRow, CapabilityRow, LivenessRow
  <1>2. NewRecovery \in RecoveryRow /\ NewPolicy \in PolicyRow
    BY BudgetAssumption DEF NewRecovery, RecoveryRow, NewPolicy, PolicyRow,
       Failures
  <1>3. TypeOK
    BY <1>1, <1>2 DEF Init, TypeOK
  <1>4. ASSUME NEW d \in Dispatches PROVE RowInv(d)
    <2>1. queue[d] = NoDispatch /\ cap[d] = NoCapability
              /\ live[d] = NoLiveness /\ recovery[d] = NewRecovery
              /\ policy[d] = NewPolicy
      BY DEF Init
    <2>2. PolicyFacts(d)
      BY <2>1, BudgetAssumption DEF PolicyFacts, NewPolicy,
         ProviderBudget, RetryClasses
    <2>3. RecoveryFacts(d)
      BY <2>1, BudgetAssumption DEF RecoveryFacts, NewRecovery
    <2> QED
      BY <2>1, <2>2, <2>3 DEF RowInv, CapabilityFacts, ResultFacts,
         LivenessFacts, WorkerOwned, WorkerGone, UnlaunchedRowsAreBare,
         NoDispatch
  <1> QED
    BY <1>3, <1>4 DEF LedgerInv

(* Every step keeps it: the row that changes by NextIsRowStep, the others  *)
(* because they are untouched.                                             *)
LEMMA LedgerInvNext == LedgerInv /\ [Next]_ledgerVars => LedgerInv'
  <1> SUFFICES ASSUME LedgerInv, [Next]_ledgerVars PROVE LedgerInv'
    OBVIOUS
  <1>1. ASSUME UNCHANGED <<queue, cap, live, recovery, policy, cancelAction>>,
               authority' \in [epoch : Nat, leased : BOOLEAN, fenced : BOOLEAN]
        PROVE  LedgerInv'
    BY <1>1 DEF LedgerInv, TypeOK, RowInv, CapabilityFacts, ResultFacts,
       LivenessFacts, RecoveryFacts, PolicyFacts, WorkerOwned, WorkerGone,
       UnlaunchedRowsAreBare
  <1>2. ASSUME NEW d \in Dispatches, RowStep(d), UNCHANGED authority
        PROVE  LedgerInv'
    <2>1. TypeOK'
      BY <1>2 DEF LedgerInv, TypeOK, RowStep, OnlyRow, RowTyped
    <2>2. ASSUME NEW e \in Dispatches PROVE RowInv(e)'
      <3>1. CASE e = d
        BY <1>2, <3>1 DEF RowStep
      <3>2. CASE e # d
        <4>1. /\ queue'[e] = queue[e] /\ cap'[e] = cap[e]
              /\ live'[e] = live[e] /\ recovery'[e] = recovery[e]
              /\ policy'[e] = policy[e]
          BY <1>2, <3>2 DEF RowStep, OnlyRow, LedgerInv, TypeOK
        <4>2. RowInv(e)
          BY DEF LedgerInv
        <4> QED
          BY <4>1, <4>2 DEF RowInv, CapabilityFacts, ResultFacts,
             LivenessFacts, RecoveryFacts, PolicyFacts, WorkerOwned,
             WorkerGone, UnlaunchedRowsAreBare
      <3> QED
        BY <3>1, <3>2
    <2> QED
      BY <2>1, <2>2 DEF LedgerInv
  <1>3. CASE UNCHANGED ledgerVars
    BY <1>1, <1>3 DEF ledgerVars, LedgerInv, TypeOK
  <1>4. CASE Next
    BY <1>1, <1>2, <1>4, NextIsRowStep
  <1> QED
    BY <1>3, <1>4

(* Every step changes at most one row, and that one as RowChange says.     *)
LEMMA RowsChange ==
    ASSUME LedgerInv, [Next]_ledgerVars
    PROVE  \A e \in Dispatches : RowChange(e)
  <1>1. ASSUME NEW e \in Dispatches, queue'[e] = queue[e],
               recovery'[e] = recovery[e], policy'[e] = policy[e]
        PROVE  RowChange(e)
    BY <1>1 DEF LedgerInv, TypeOK, RecoveryRow, PolicyRow, RowChange,
       EndIsFinal, ClaimFollowsExit, BudgetsOnlyShrink, AttemptIsPaidFor
  <1>2. CASE UNCHANGED <<queue, recovery, policy>>
    BY <1>1, <1>2
  <1>3. ASSUME NEW d \in Dispatches, RowStep(d)
        PROVE  \A e \in Dispatches : RowChange(e)
    <2>1. ASSUME NEW e \in Dispatches, e # d PROVE RowChange(e)
      BY <1>1, <1>3 DEF RowStep, OnlyRow, LedgerInv, TypeOK
    <2> QED
      BY <1>3, <2>1 DEF RowStep
  <1> QED
    BY <1>2, <1>3, NextIsRowStep DEF ledgerVars

-----------------------------------------------------------------------------
(* The inductive invariant, for every number of dispatches and every       *)
(* choice of the budgets.                                                  *)
THEOREM LedgerInvariant == Spec => []LedgerInv
  BY LedgerInvInit, LedgerInvNext, PTL DEF Spec

(* Every row of every table has the values of its columns.                 *)
THEOREM TypeCorrect == Spec => []TypeOK
  <1>1. LedgerInv => TypeOK
    BY DEF LedgerInv
  <1> QED
    BY <1>1, LedgerInvariant, PTL

(* No transaction leaves rows that _validate_rows would reject.          *)
THEOREM TransactionsKeepRowsValid == Spec => []RowsValid
  <1>1. LedgerInv => RowsValid
    BY DEF LedgerInv, RowsValid, RowInv
  <1> QED
    BY <1>1, LedgerInvariant, PTL

(* A worker that may be running is never one that recovery, a human or a   *)
(* new claim could meet.                                                   *)
THEOREM WorkersAreOwned == Spec => []RunningWorkerIsOwned
  <1>1. LedgerInv => RunningWorkerIsOwned
    BY DEF LedgerInv, RunningWorkerIsOwned, RowInv
  <1> QED
    BY <1>1, LedgerInvariant, PTL

(* Terminal rows never change again.                                       *)
THEOREM TerminalIsFinal == Spec => TerminalRowsAreFinal
  <1>1. LedgerInv /\ [Next]_ledgerVars =>
            [\A d \in Dispatches : EndIsFinal(d)]_ledgerVars
    BY RowsChange DEF RowChange
  <1> QED
    BY <1>1, LedgerInvariant, PTL DEF Spec, TerminalRowsAreFinal

(* A new worker is claimed only after the one before is gone.              *)
THEOREM ClaimsAreExclusive == Spec => ClaimsFollowExit
  <1>1. LedgerInv /\ [Next]_ledgerVars =>
            [\A d \in Dispatches : ClaimFollowsExit(d)]_ledgerVars
    BY RowsChange DEF RowChange
  <1> QED
    BY <1>1, LedgerInvariant, PTL DEF Spec, ClaimsFollowExit

(* Budgets only shrink and every further attempt consumes one.             *)
THEOREM AttemptsCost == Spec => AttemptsArePaidFor
  <1>1. LedgerInv /\ [Next]_ledgerVars =>
            [\A d \in Dispatches : queue[d].state # "absent" =>
                BudgetsOnlyShrink(d) /\ AttemptIsPaidFor(d)]_ledgerVars
    BY RowsChange DEF RowChange
  <1> QED
    BY <1>1, LedgerInvariant, PTL DEF Spec, AttemptsArePaidFor
=============================================================================
