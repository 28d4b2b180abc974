------------------------ MODULE WorkflowHarnessProofs ------------------------
(***************************************************************************)
(* Proofs about WorkflowHarness, for any set of dispatches, any budgets    *)
(* and any bounds.                                                         *)
(*                                                                         *)
(* The inductive invariant HInv adds three things to LedgerInv, which is   *)
(* proved of the tables alone: AttemptFacts bounds the attempts by what    *)
(* was paid for them, ProcessFacts says what the tables know of the worker *)
(* processes, and PositionFacts what the harness thread may rely on where  *)
(* it is.  A step changes the row of one dispatch at most, and does one of *)
(* four things to its worker: Kept, Renewed, Exited or Delivered.  One     *)
(* lemma for each of them shows that ProcessFacts survives, and one per    *)
(* action shows which of the four it is.  HNextStep collects them: it also *)
(* says that every step is a step of the ledger, which is the refinement.  *)
(***************************************************************************)
EXTENDS WorkflowHarness, DispatchLedgerProofs

\* What MaxAttempt leaves of a dispatch's attempts.
AttemptLimit == Greater(1, MaxAttempt)

\* Every attempt after the first was paid for out of a budget nobody raises
\* past its limit, or by a RETRY below MaxAttempt.
AttemptFacts(d) ==
    /\ queue[d].state = "absent" <=> queue[d].attempt = 0
    /\ queue[d].thread <= queue[d].attempt
    /\ queue[d].attempt <= AttemptLimit
                             + policy[d].used["pre_identity_transport"]
                             + recovery[d].contUsed
    /\ policy[d].budget["pre_identity_transport"]
           <= RetryBudget["pre_identity_transport"]
    /\ ContinuationBudget <= recovery[d].contBudget
    /\ recovery[d].contBudget
           <= Greater(ContinuationBudget, ProviderBudget) + policy[d].grant

\* The process of a dispatch that was launched and is not bound yet.
Loose(d) == pc = "popen" /\ cur = d

\* What the tables say of the processes of a dispatch.
ProcessFacts(d) ==
    /\ live[d].attempt # 0 => proc[d][live[d].attempt] # "none"
    /\ live[d].attempt # 0 /\ live[d].exited =>
           proc[d][live[d].attempt] \in Dead
    /\ live[d].attempt # 0 /\ children[d] # 0 => children[d] = live[d].attempt
    /\ queue[d].result # 0 =>
           /\ queue[d].result \in Attempts
           /\ proc[d][queue[d].result] \in {"done", "deaddone"}
    /\ \A a \in Attempts :
           /\ proc[d][a] \in Alive /\ <<d, a>> \notin orphans =>
                 a = queue[d].attempt /\ (live[d].attempt = a \/ Loose(d))
           /\ <<d, a>> \in orphans =>
                 /\ a <= queue[d].attempt /\ live[d].attempt # a
                 /\ a = queue[d].attempt =>
                       queue[d].state \notin {"absent", "queued"}

\* What the harness thread knows where it is.
PositionFacts ==
    /\ pc \in Launching \union {"stop"} => cur \in Dispatches
    /\ pc \in Launching =>
          /\ queue[cur].state \in {"claimed", "starting"}
          /\ live[cur] = NoLiveness
          /\ <<cur, queue[cur].attempt>> \notin orphans
    /\ pc = "popen" => proc[cur][queue[cur].attempt] # "none"
    /\ pc = "inspect" =>
          \A d \in todo : queue[d].state = "recovery_inspection_pending"
    /\ pc = "reap" => \A d \in todo : children[d] # 0

\* HTypeOK without the ledger's part.
HarnessTyped ==
    /\ pc \in Positions /\ back \in {"loop", "continue"}
    /\ todo \subseteq Dispatches
    /\ cur \in Dispatches \union {0}
    /\ children \in [Dispatches -> Attempts \union {0}]
    /\ reaped \in BOOLEAN
    /\ proc \in [Dispatches -> [Attempts -> {"none"} \union Alive \union Dead]]
    /\ orphans \subseteq Dispatches \X Attempts

HInv ==
    /\ LedgerInv /\ HarnessTyped /\ PositionFacts
    /\ \A d \in Dispatches : AttemptFacts(d) /\ ProcessFacts(d)

-----------------------------------------------------------------------------
(* Attempts are bounded: a step of the ledger keeps AttemptFacts.           *)

\* Every leaf may look into the enumerations.
USE DEF NoCapability, NoLiveness, Active, Recovering, ResultStates, Terminal

\* What the row of d is made of.
LEMMA RowOf ==
    ASSUME TypeOK, NEW d \in Dispatches
    PROVE  /\ queue[d] \in QueueRow /\ cap[d] \in CapabilityRow
           /\ live[d] \in LivenessRow /\ recovery[d] \in RecoveryRow
           /\ policy[d] \in PolicyRow
           /\ queue \in [Dispatches -> QueueRow]
           /\ live \in [Dispatches -> LivenessRow]
           /\ recovery \in [Dispatches -> RecoveryRow]
           /\ policy \in [Dispatches -> PolicyRow]
  BY DEF TypeOK

(* A launch keeps the number of attempts within the budgets that pay for them. *)
LEMMA LaunchStepPaid ==
    ASSUME LedgerInv, NEW d \in Dispatches, AttemptFacts(d), LaunchStep(d)
    PROVE  AttemptFacts(d)'
  <1>1. /\ TypeOK /\ queue[d] \in QueueRow /\ recovery[d] \in RecoveryRow
        /\ policy[d] \in PolicyRow
    BY RowOf DEF LedgerInv
  <1>2. CASE EnqueueDispatch(d)
    <2>1. /\ queue'[d].state = "queued" /\ queue'[d].attempt = 1
          /\ queue'[d].thread = 0
          /\ recovery'[d] = NewRecovery /\ policy'[d] = NewPolicy
      BY <1>1, <1>2 DEF EnqueueDispatch, TypeOK, NoDispatch
    <2> QED
      BY <2>1, BudgetAssumption DEF AttemptFacts, NewRecovery, NewPolicy,
         AttemptLimit, Greater, RetryClasses, ProviderBudget
  <1>3. CASE ClaimQueueDispatch(d)
    <2>1. /\ queue[d].state # "absent" /\ queue'[d].state # "absent"
          /\ queue'[d].attempt = queue[d].attempt
          /\ queue'[d].thread = queue[d].thread
      BY <1>1, <1>3 DEF ClaimQueueDispatch, Claimable, CancelQueueRow, TypeOK,
         QueueRow
    <2>2. /\ policy'[d].used = policy[d].used
          /\ policy'[d].budget = policy[d].budget
          /\ policy'[d].grant = policy[d].grant
      BY <1>1, <1>3 DEF ClaimQueueDispatch, CancelQueueRow, TypeOK, PolicyRow
    <2>3. /\ recovery'[d].contUsed = recovery[d].contUsed
          /\ recovery'[d].contBudget = recovery[d].contBudget
      BY <1>1, <1>3 DEF ClaimQueueDispatch, CancelQueueRow, TypeOK, RecoveryRow
    <2> QED
      BY <2>1, <2>2, <2>3 DEF AttemptFacts
  <1>4. CASE ConfigureRecovery(d)
    <2>1. /\ queue' = queue /\ policy' = policy
          /\ recovery'[d] = [recovery[d] EXCEPT !.contBudget = ContinuationBudget,
                                  !.fresh = FALSE, !.freshBudget = 0]
      BY <1>1, <1>4 DEF ConfigureRecovery, TypeOK
    <2> QED
      BY <1>1, <2>1, BudgetAssumption DEF AttemptFacts, RecoveryRow, PolicyRow,
         Greater, ProviderBudget, RetryClasses
  <1>5. CASE SetQueueStarting(d) \/ BindWorkerLiveness(d) \/ AdoptLiveWorker(d)
    BY SMTT(30), <1>1, <1>5 DEF SetQueueStarting, BindWorkerLiveness, AdoptLiveWorker,
       TypeOK, AttemptFacts, QueueRow
  <1>6. CASE \E t \in 1..queue[d].attempt : BindWorkerThread(d, t)
    BY <1>1, <1>6 DEF BindWorkerThread, TypeOK, AttemptFacts, QueueRow
  <1>7. CASE IssueAttemptCapability(d) \/ RenewWorkerLiveness(d)
                \/ CapabilityExpires(d)
    BY <1>7 DEF IssueAttemptCapability, RenewWorkerLiveness, CapabilityExpires,
       AttemptFacts
  <1> QED
    BY <1>2, <1>3, <1>4, <1>5, <1>6, <1>7 DEF LaunchStep

(* So does the decision an inspection records. *)
LEMMA RecordRecoveryInspectionPaid ==
    ASSUME LedgerInv, NEW d \in Dispatches, AttemptFacts(d),
           NEW decision \in {"recovery_retry_wait",
               "recovery_continuation_pending", "human_attention_required"},
           NEW wait \in Waits, RecordRecoveryInspection(d, decision, wait)
    PROVE  AttemptFacts(d)'
  <1>1. /\ TypeOK /\ queue[d] \in QueueRow /\ recovery[d] \in RecoveryRow
        /\ policy[d] \in PolicyRow
    BY RowOf DEF LedgerInv
  <1>2. queue[d].state # "absent" /\ queue'[d].state # "absent"
    <2>1. queue[d].state \in Recovering
      BY DEF RecordRecoveryInspection, LedgerInv, RowInv, RecoveryFacts
    <2> QED
      BY <1>1, <2>1 DEF RecordRecoveryInspection, InspectionDecision, TypeOK,
         QueueRow
  <1>4. queue'[d].attempt = queue[d].attempt /\ queue'[d].thread = queue[d].thread
    BY <1>1 DEF RecordRecoveryInspection, TypeOK, QueueRow
  <1>3. /\ policy'[d].used = policy[d].used /\ policy'[d].budget = policy[d].budget
        /\ policy'[d].grant = policy[d].grant
        /\ recovery'[d].contUsed = recovery[d].contUsed
        /\ recovery'[d].contBudget = recovery[d].contBudget
    BY <1>1 DEF RecordRecoveryInspection, TypeOK, PolicyRow, RecoveryRow
  <1> QED
    BY <1>2, <1>4, <1>3 DEF AttemptFacts

(* So does asking for a human. *)
LEMMA MarkHumanPaid ==
    ASSUME LedgerInv, NEW d \in Dispatches, AttemptFacts(d), NEW failure,
           MarkHumanAttentionRequired(d, failure)
    PROVE  AttemptFacts(d)'
  <1>1. /\ TypeOK /\ queue[d] \in QueueRow /\ recovery[d] \in RecoveryRow
        /\ policy[d] \in PolicyRow
    BY RowOf DEF LedgerInv
  <1>2. CASE CloseClaim(d, failure)
    <2>1. /\ queue[d].state # "absent" /\ queue'[d].state # "absent"
          /\ queue'[d].attempt = queue[d].attempt
          /\ queue'[d].thread = queue[d].thread
      BY <1>1, <1>2 DEF CloseClaim, TypeOK, QueueRow
    <2>2. /\ policy'[d].used = policy[d].used
          /\ policy'[d].budget = policy[d].budget
          /\ policy'[d].grant = policy[d].grant
          /\ recovery'[d].contUsed = recovery[d].contUsed
          /\ recovery'[d].contBudget = recovery[d].contBudget
      BY <1>1, <1>2 DEF CloseClaim, TypeOK, PolicyRow, RecoveryRow
    <2> QED
      BY <2>1, <2>2 DEF AttemptFacts
  <1>3. CASE RecordRecoveryInspection(d, "human_attention_required", "none")
    BY <1>3, RecordRecoveryInspectionPaid DEF Waits
  <1> QED
    BY <1>2, <1>3 DEF MarkHumanAttentionRequired

(* A row put back into the queue has the next attempt, and no thread. *)
LEMMA RequeuePaid ==
    ASSUME LedgerInv, NEW d \in Dispatches, NEW ready \in BOOLEAN,
           Requeue(d, ready), queue[d].state # "absent", AttemptFacts(d)
    PROVE  /\ queue'[d].state = "queued" /\ queue'[d].attempt = queue[d].attempt + 1
           /\ queue'[d].thread = 0 /\ queue'[d].attempt # 0
  BY DEF Requeue, LedgerInv, TypeOK, QueueRow

(* A requeued exit uses up one of the retries, whose budget is not raised.  *)
LEMMA MarkWorkerExitPaid ==
    ASSUME LedgerInv, NEW d \in Dispatches, AttemptFacts(d),
           NEW kind \in ExitKinds, MarkWorkerExit(d, kind)
    PROVE  AttemptFacts(d)'
  <1>1. /\ TypeOK /\ queue[d] \in QueueRow /\ recovery[d] \in RecoveryRow
        /\ policy[d] \in PolicyRow /\ live[d].attempt # 0
    BY RowOf DEF LedgerInv, MarkWorkerExit
  <1>2. queue[d].state # "absent"
    BY <1>1 DEF LedgerInv, RowInv, UnlaunchedRowsAreBare
  <1>3. CASE ExitAfterTerminal(d)
    BY <1>3 DEF ExitAfterTerminal, AttemptFacts
  <1>4. CASE ExitRequeued(d, kind)
    <2>1. /\ queue'[d].state = "queued" /\ queue'[d].attempt = queue[d].attempt + 1
          /\ queue'[d].thread = 0 /\ queue'[d].attempt # 0
      BY <1>2, <1>4, RequeuePaid DEF ExitRequeued
    <2>2. /\ policy'[d].budget = policy[d].budget
          /\ policy'[d].grant = policy[d].grant
          /\ policy'[d].used["pre_identity_transport"]
                 = policy[d].used["pre_identity_transport"] + 1
      BY <1>1, <1>4 DEF ExitRequeued, TypeOK, PolicyRow, RetryClasses
    <2>3. /\ recovery'[d].contUsed = recovery[d].contUsed
          /\ recovery'[d].contBudget = recovery[d].contBudget
      BY <1>1, <1>4 DEF ExitRequeued, TypeOK, RecoveryRow
    <2> QED
      BY <1>1, <2>1, <2>2, <2>3, BudgetAssumption DEF AttemptFacts, QueueRow,
         PolicyRow, RecoveryRow, AttemptLimit, Greater, RetryClasses
  <1>5. CASE ExitRetryable(d, kind)
    <2>1. /\ queue'[d].state # "absent" /\ queue'[d].attempt = queue[d].attempt
          /\ queue'[d].thread = queue[d].thread
      BY <1>1, <1>2, <1>5 DEF ExitRetryable, ExitState, AfterExit, TypeOK, QueueRow
    <2>2. /\ policy'[d].budget = policy[d].budget
          /\ policy'[d].grant = policy[d].grant
          /\ policy'[d].used["pre_identity_transport"]
                 = policy[d].used["pre_identity_transport"]
      BY <1>1, <1>5 DEF ExitRetryable, TypeOK, PolicyRow, RetryClasses
    <2>3. /\ recovery'[d].contUsed = recovery[d].contUsed
          /\ recovery'[d].contBudget = ContinuationBudgetFor(d, kind)
      BY <1>1, <1>5 DEF ExitRetryable, TypeOK, RecoveryRow
    <2>4. policy[d].budget["provider_transient"] <= ProviderBudget + policy[d].grant
      BY DEF LedgerInv, RowInv, PolicyFacts
    <2>5. /\ ContinuationBudget <= ContinuationBudgetFor(d, kind)
          /\ ContinuationBudgetFor(d, kind)
                 <= Greater(ContinuationBudget, ProviderBudget) + policy[d].grant
      <3>1. /\ policy[d].budget["provider_transient"] \in Nat
            /\ recovery[d].contBudget \in Nat /\ policy[d].grant \in Nat
            /\ ProviderBudget \in Nat /\ ContinuationBudget \in Nat
        BY <1>1, BudgetAssumption DEF PolicyRow, RecoveryRow, RetryClasses,
           ProviderBudget
      <3>2. CASE kind = "provider_transient"
        BY <2>4, <3>1, <3>2 DEF ContinuationBudgetFor, Greater, AttemptFacts
      <3>3. CASE kind # "provider_transient"
        BY <3>3 DEF ContinuationBudgetFor, AttemptFacts
      <3> QED
        BY <3>2, <3>3
    <2> QED
      BY <1>2, <2>1, <2>2, <2>3, <2>5 DEF AttemptFacts
  <1>6. CASE ExitAmbiguous(d, kind) \/ ExitClosed(d, kind)
    <2>1. /\ queue'[d].state # "absent" /\ queue'[d].attempt = queue[d].attempt
          /\ queue'[d].thread = queue[d].thread
      BY <1>1, <1>2, <1>6 DEF ExitAmbiguous, ExitClosed, ExitState, AfterExit,
         TypeOK, QueueRow
    <2>2. /\ policy'[d].budget = policy[d].budget
          /\ policy'[d].grant = policy[d].grant
          /\ policy'[d].used = policy[d].used
      BY <1>1, <1>6 DEF ExitAmbiguous, ExitClosed, TypeOK, PolicyRow
    <2>3. /\ recovery'[d].contUsed = recovery[d].contUsed
          /\ recovery'[d].contBudget = recovery[d].contBudget
      BY <1>1, <1>6 DEF ExitAmbiguous, ExitClosed, TypeOK, RecoveryRow
    <2> QED
      BY <1>2, <2>1, <2>2, <2>3 DEF AttemptFacts
  <1> QED
    BY <1>3, <1>4, <1>5, <1>6 DEF MarkWorkerExit

(* A continuation is a further attempt, paid for by the continuation budget. *)
LEMMA BeginRecoveryContinuationPaid ==
    ASSUME LedgerInv, NEW d \in Dispatches, AttemptFacts(d),
           BeginRecoveryContinuation(d)
    PROVE  AttemptFacts(d)'
  <1>1. /\ TypeOK /\ queue[d] \in QueueRow /\ recovery[d] \in RecoveryRow
        /\ policy[d] \in PolicyRow
        /\ queue[d].state = "recovery_continuation_pending"
    BY RowOf DEF LedgerInv, BeginRecoveryContinuation, CanBeginContinuation
  <1>2. /\ policy'[d].budget = policy[d].budget
        /\ policy'[d].grant = policy[d].grant
        /\ policy'[d].used = policy[d].used
    BY <1>1 DEF BeginRecoveryContinuation, ClaimContinuation, CloseContinuation,
       TypeOK, PolicyRow
  <1>3. CASE ClaimContinuation(d)
    <2>1. /\ queue'[d].state = "claimed" /\ queue'[d].attempt = queue[d].attempt + 1
          /\ queue'[d].thread \in {0, queue[d].thread}
      BY <1>1, <1>3 DEF ClaimContinuation, TypeOK, QueueRow
    <2>2. /\ recovery'[d].contUsed = recovery[d].contUsed + 1
          /\ recovery'[d].contBudget = recovery[d].contBudget
      BY <1>1, <1>3 DEF ClaimContinuation, TypeOK, RecoveryRow
    <2> QED
      BY <1>1, <1>2, <2>1, <2>2, BudgetAssumption DEF AttemptFacts, QueueRow,
         PolicyRow, RecoveryRow, AttemptLimit, Greater, RetryClasses
  <1>4. CASE CloseContinuation(d)
    <2>1. /\ queue'[d].state # "absent" /\ queue'[d].attempt = queue[d].attempt
          /\ queue'[d].thread = queue[d].thread
      BY <1>1, <1>4 DEF CloseContinuation, TypeOK, QueueRow
    <2>2. /\ recovery'[d].contUsed = recovery[d].contUsed
          /\ recovery'[d].contBudget = recovery[d].contBudget
      BY <1>1, <1>4 DEF CloseContinuation, TypeOK, RecoveryRow
    <2> QED
      BY <1>1, <1>2, <2>1, <2>2 DEF AttemptFacts
  <1> QED
    BY <1>3, <1>4 DEF BeginRecoveryContinuation

(* Every further attempt a recovery transaction starts is paid for. *)
LEMMA RecoveryStepPaid ==
    ASSUME LedgerInv, NEW d \in Dispatches, AttemptFacts(d), RecoveryStep(d)
    PROVE  AttemptFacts(d)'
  <1>1. /\ TypeOK /\ queue[d] \in QueueRow /\ recovery[d] \in RecoveryRow
    BY RowOf DEF LedgerInv
  <1>2. CASE BeginRecoveryInspection(d)
    <2>1. /\ queue[d].state # "absent" /\ queue'[d].state # "absent"
          /\ queue'[d].attempt = queue[d].attempt
          /\ queue'[d].thread = queue[d].thread
      BY <1>1, <1>2 DEF BeginRecoveryInspection, CanBeginInspection, TypeOK,
         QueueRow
    <2>2. /\ recovery'[d].contUsed = recovery[d].contUsed
          /\ recovery'[d].contBudget = recovery[d].contBudget
          /\ policy' = policy
      BY <1>1, <1>2 DEF BeginRecoveryInspection, TypeOK, RecoveryRow
    <2> QED
      BY <2>1, <2>2 DEF AttemptFacts
  <1>3. CASE EligibilityPasses(d)
    BY <1>1, <1>3 DEF EligibilityPasses, TypeOK, RecoveryRow, AttemptFacts
  <1>4. CASE AvailabilityPasses(d)
    BY <1>1, <1>4 DEF AvailabilityPasses, TypeOK, QueueRow, AttemptFacts
  <1>5. {"future", "due"} \subseteq Waits
    BY DEF Waits
  <1> QED
    BY <1>2, <1>3, <1>4, <1>5, MarkWorkerExitPaid, RecordRecoveryInspectionPaid,
       MarkHumanPaid, BeginRecoveryContinuationPaid DEF RecoveryStep

(* So is one an operator's request starts. *)
LEMMA OperatorStepPaid ==
    ASSUME LedgerInv, NEW d \in Dispatches, AttemptFacts(d), OperatorStep(d)
    PROVE  AttemptFacts(d)'
  <1>1. /\ TypeOK /\ queue[d] \in QueueRow /\ recovery[d] \in RecoveryRow
        /\ policy[d] \in PolicyRow
    BY RowOf DEF LedgerInv
  <1>2. CASE Retry(d)
    <2>1. /\ queue'[d].state = "queued" /\ queue'[d].attempt = queue[d].attempt + 1
          /\ queue'[d].thread = 0 /\ queue'[d].attempt # 0
      BY <1>2, RequeuePaid DEF Retry, CanRetry, AcceptsAction
    <2>2. /\ queue'[d].attempt <= AttemptLimit
          /\ queue[d].attempt \in Nat /\ queue'[d].attempt \in Nat
      BY <1>1, <1>2, <2>1, BudgetAssumption DEF Retry, AttemptLimit, Greater, QueueRow
    <2>3. /\ policy'[d].used = policy[d].used
          /\ policy'[d].budget = policy[d].budget
          /\ policy'[d].grant = policy[d].grant
          /\ recovery'[d].contUsed = recovery[d].contUsed
          /\ recovery'[d].contBudget = recovery[d].contBudget
      BY <1>1, <1>2 DEF Retry, TypeOK, PolicyRow, RecoveryRow
    <2>4. /\ policy[d].used["pre_identity_transport"] \in Nat
          /\ recovery[d].contUsed \in Nat /\ AttemptLimit \in Nat
      BY <1>1, BudgetAssumption DEF PolicyRow, RecoveryRow, RetryClasses,
         AttemptLimit, Greater
    <2> QED
      BY <2>1, <2>2, <2>3, <2>4 DEF AttemptFacts
  <1>3. ASSUME NEW budget \in [RetryClasses -> 0..ProviderBudget + 1],
               BudgetChange(d, budget)
        PROVE  AttemptFacts(d)'
    <2>1. /\ queue' = queue /\ recovery' = recovery
          /\ policy'[d].used = policy[d].used /\ policy'[d].budget = budget
          /\ policy'[d].grant = policy[d].grant
      BY <1>1, <1>3 DEF BudgetChange, TypeOK, PolicyRow
    <2>2. budget["pre_identity_transport"] <= RetryBudget["pre_identity_transport"]
      BY <1>3 DEF BudgetChange, RetryClasses
    <2> QED
      BY <2>1, <2>2 DEF AttemptFacts
  <1>4. CASE ProviderGrant(d)
    <2>1. /\ queue[d].state # "absent" /\ queue'[d].state # "absent"
          /\ queue'[d].attempt = queue[d].attempt
          /\ queue'[d].thread = queue[d].thread
      BY <1>1, <1>4 DEF ProviderGrant, AcceptsAction, TypeOK, QueueRow
    <2>2. /\ policy'[d].used["pre_identity_transport"]
                = policy[d].used["pre_identity_transport"]
          /\ policy'[d].budget["pre_identity_transport"]
                = policy[d].budget["pre_identity_transport"]
          /\ policy'[d].grant = 1
      BY <1>1, <1>4 DEF ProviderGrant, TypeOK, PolicyRow, RetryClasses
    <2>3. /\ recovery'[d].contUsed = recovery[d].contUsed
          /\ recovery'[d].contBudget = ProviderBudget + 1
          /\ recovery[d].contBudget = ProviderBudget
      BY <1>1, <1>4 DEF ProviderGrant, TypeOK, RecoveryRow
    <2>4. ProviderBudget \in Nat /\ ContinuationBudget \in Nat
      BY BudgetAssumption DEF ProviderBudget, RetryClasses
    <2> QED
      BY <2>1, <2>2, <2>3, <2>4 DEF AttemptFacts, Greater
  <1>5. CASE CompatibilityRebind(d)
    BY <1>5 DEF CompatibilityRebind, AttemptFacts
  <1>6. ASSUME NEW liveness, CancelQueueRow(d, liveness),
               queue[d].state # "absent"
        PROVE  AttemptFacts(d)'
    <2>1. /\ queue'[d].state # "absent" /\ queue'[d].attempt = queue[d].attempt
          /\ queue'[d].thread = queue[d].thread
      BY <1>1, <1>6 DEF CancelQueueRow, TypeOK, QueueRow
    <2>2. /\ policy'[d].used = policy[d].used
          /\ policy'[d].budget = policy[d].budget
          /\ policy'[d].grant = policy[d].grant
          /\ recovery'[d].contUsed = recovery[d].contUsed
          /\ recovery'[d].contBudget = recovery[d].contBudget
      BY <1>1, <1>6 DEF CancelQueueRow, TypeOK, PolicyRow, RecoveryRow
    <2> QED
      BY <1>6, <2>1, <2>2 DEF AttemptFacts
  <1>7. CASE Cancel(d)
    <2>1. CASE UNCHANGED <<queue, cap, live, recovery, policy>>
      BY <2>1 DEF AttemptFacts
    <2>2. CASE CancelQueueRow(d, live[d])
      BY <1>6, <1>7, <2>2 DEF Cancel, AcceptsAction
    <2> QED
      BY <1>7, <2>1, <2>2 DEF Cancel
  <1>8. CASE AcknowledgeWorkerCancellationExit(d)
    <2>1. queue[d].state # "absent"
      BY <1>8 DEF AcknowledgeWorkerCancellationExit, LedgerInv, RowInv,
         UnlaunchedRowsAreBare
    <2> QED
      BY <1>6, <1>8, <2>1 DEF AcknowledgeWorkerCancellationExit
  <1> QED
    BY <1>2, <1>3, <1>4, <1>5, <1>7, <1>8 DEF OperatorStep

(* The arrival of a result starts none. *)
LEMMA ResultStepPaid ==
    ASSUME LedgerInv, NEW d \in Dispatches, AttemptFacts(d), ResultStep(d)
    PROVE  AttemptFacts(d)'
  <1>1. /\ TypeOK /\ queue[d] \in QueueRow /\ recovery[d] \in RecoveryRow
        /\ policy[d] \in PolicyRow
    BY RowOf DEF LedgerInv
  <1>2. ASSUME NEW r, NEW outcome \in ResultStates, NEW inspected,
               FinalizeQueueResult(d, r, outcome, inspected),
               queue[d].state # "absent"
        PROVE  AttemptFacts(d)'
    <2>1. /\ queue'[d].state # "absent" /\ queue'[d].attempt = queue[d].attempt
          /\ queue'[d].thread = queue[d].thread
      BY <1>1, <1>2 DEF FinalizeQueueResult, TypeOK, QueueRow
    <2>2. /\ policy'[d].used = policy[d].used
          /\ policy'[d].budget = policy[d].budget
          /\ policy'[d].grant = policy[d].grant
          /\ recovery'[d].contUsed = recovery[d].contUsed
          /\ recovery'[d].contBudget = recovery[d].contBudget
      BY <1>1, <1>2 DEF FinalizeQueueResult, TypeOK, PolicyRow, RecoveryRow
    <2> QED
      BY <1>2, <2>1, <2>2 DEF AttemptFacts
  <1>3. PICK outcome \in ResultStates :
            \/ CommitQueueResult(d, queue[d].attempt, outcome)
            \/ CommitRetainedQueueResult(d, queue[d].attempt, outcome)
            \/ \E r \in 1..queue[d].attempt :
                  IngestRecoveredResult(d, r, outcome)
    BY DEF ResultStep
  <1>4. queue[d].state # "absent"
    BY <1>3 DEF CommitQueueResult, CommitRetainedQueueResult, CanCommitRetained,
       SubmitAllowed, IngestRecoveredResult
  <1> QED
    BY <1>2, <1>3, <1>4 DEF CommitQueueResult, CommitRetainedQueueResult,
       IngestRecoveredResult

(* Whatever the ledger does, the attempts of a dispatch stay within what     *)
(* its budgets and the operator's RETRYs admit.                             *)
LEMMA AttemptsNext ==
    ASSUME LedgerInv, [Next]_ledgerVars, \A d \in Dispatches : AttemptFacts(d)
    PROVE  \A d \in Dispatches : AttemptFacts(d)'
  <1>1. CASE UNCHANGED <<queue, recovery, policy>>
    BY <1>1 DEF AttemptFacts
  <1>2. ASSUME NEW d \in Dispatches,
               LaunchStep(d) \/ RecoveryStep(d) \/ OperatorStep(d) \/ ResultStep(d)
        PROVE  \A e \in Dispatches : AttemptFacts(e)'
    <2>1. OnlyRow(d)
      BY <1>2, LaunchStepRow, RecoveryStepRow, OperatorStepRow, ResultStepRow
         DEF LedgerInv, RowStep
    <2>2. AttemptFacts(d)'
      BY <1>2, LaunchStepPaid, RecoveryStepPaid, OperatorStepPaid, ResultStepPaid
    <2>3. ASSUME NEW e \in Dispatches, e # d
          PROVE  AttemptFacts(e)'
      BY <2>1, <2>3 DEF OnlyRow, AttemptFacts, LedgerInv, TypeOK
    <2> QED
      BY <2>2, <2>3
  <1>3. CASE HarnessStep
    BY <1>1, <1>3 DEF HarnessStep, AcquireHarness, LeaseExpires, RenewHarness,
       ArmHarnessRefreshFence, RequestHarnessShutdown
  <1> QED
    BY <1>1, <1>2, <1>3 DEF Next, ledgerVars

(* So the current attempt is one of Attempts.                               *)
LEMMA AttemptBound ==
    ASSUME LedgerInv, NEW d \in Dispatches, AttemptFacts(d)
    PROVE  queue[d].state # "absent" => queue[d].attempt \in Attempts
  <1>1. /\ queue[d] \in QueueRow /\ recovery[d] \in RecoveryRow
        /\ policy[d] \in PolicyRow
    BY RowOf DEF LedgerInv
  <1>2. /\ policy[d].used["pre_identity_transport"]
               <= policy[d].budget["pre_identity_transport"]
        /\ recovery[d].contUsed <= recovery[d].contBudget
    BY DEF LedgerInv, RowInv, PolicyFacts, RecoveryFacts, RetryClasses
  <1>3. /\ policy[d].used["pre_identity_transport"] \in Nat
        /\ policy[d].budget["pre_identity_transport"] \in Nat
        /\ RetryBudget["pre_identity_transport"] \in Nat
        /\ recovery[d].contUsed \in Nat /\ recovery[d].contBudget \in Nat
        /\ policy[d].grant \in {0, 1} /\ queue[d].attempt \in Nat
        /\ AttemptLimit \in Nat /\ Greater(ContinuationBudget, ProviderBudget) \in Nat
    BY <1>1, BudgetAssumption DEF QueueRow, PolicyRow, RecoveryRow, RetryClasses,
       AttemptLimit, Greater, ProviderBudget
  <1> QED
    BY <1>2, <1>3 DEF AttemptFacts, Attempts, AttemptLimit

-----------------------------------------------------------------------------
(* What a step does to a dispatch and its processes.                       *)

\* A process goes on, ends or is left alone; it does not come back.
Progress(p, q) ==
    /\ p # "none" => q # "none"
    /\ p \in Dead => q \in Dead
    /\ q \in Alive => p \in Alive
    /\ p \in {"done", "deaddone"} => q \in {"done", "deaddone"}

Progresses(d) == \A a \in Attempts : Progress(proc[d][a], proc'[d][a])

\* The row keeps its attempt, worker and result, and is not queued again.
Kept(d) ==
    /\ queue'[d].attempt = queue[d].attempt \/ queue[d].attempt = 0
    /\ live'[d] = live[d]
    /\ queue'[d].result = queue[d].result
    /\ queue'[d].state \in {"absent", "queued"} =>
           queue[d].state \in {"absent", "queued"}

\* The row goes on to its next attempt.
Renewed(d) ==
    /\ queue'[d].attempt = queue[d].attempt + 1
    /\ live'[d] = NoLiveness
    /\ queue'[d].result = queue[d].result

\* The exit of the bound worker is recorded.
Exited(d) ==
    /\ queue'[d].attempt = queue[d].attempt
    /\ live[d].attempt # 0 /\ live'[d] = [live[d] EXCEPT !.exited = TRUE]
    /\ queue'[d].result = queue[d].result
    /\ queue'[d].state \notin {"absent", "queued"}

\* The row gets the result of attempt r.
Delivered(d, r) ==
    /\ queue'[d].attempt = queue[d].attempt
    /\ live'[d] = live[d]
    /\ queue'[d].result = r
    /\ queue'[d].state \notin {"absent", "queued"}

USE DEF Alive

(* The phases of a dead process, and what a kill does to each phase. *)
LEMMA DeadPhases ==
    /\ Dead = {"deadboot", "deadturn", "deaddone"}
    /\ \A p \in Alive : Killed(p) \in Dead
    /\ \A p \in {"none"} \union Dead : Killed(p) = p
    /\ Killed("done") = "deaddone"
  BY DEF Dead, DeadOf, Killed

(* A process that is killed, or left alone, never comes back to life. *)
LEMMA KilledProgress ==
    ASSUME NEW p \in {"none"} \union Alive \union Dead
    PROVE  Progress(p, p) /\ Progress(p, Killed(p))
           /\ Killed(p) \in {"none"} \union Dead
  BY DeadPhases DEF Progress

(* A transaction that leaves attempt and liveness alone keeps what is known of the
   dispatch's processes. *)
LEMMA KeptProcessFacts ==
    ASSUME HInv, NEW d \in Dispatches, Kept(d), Progresses(d),
           children'[d] \in {0, children[d]},
           \A a \in Attempts : <<d, a>> \in orphans' <=> <<d, a>> \in orphans,
           Loose(d)' <=> Loose(d)
    PROVE  ProcessFacts(d)'
  <1>1. /\ ProcessFacts(d) /\ queue[d].attempt \in Nat
        /\ live[d].attempt # 0 => live[d].attempt = queue[d].attempt
        /\ live[d].attempt # 0 => live[d].attempt \in Attempts
        /\ queue[d].attempt = 0 => live[d].attempt = 0
    BY RowOf, AttemptBound DEF HInv, LedgerInv, RowInv, LivenessFacts,
       UnlaunchedRowsAreBare, AttemptFacts, QueueRow
  <1>2. \A a \in Attempts : a \in Int /\ a >= 1
    BY BudgetAssumption DEF Attempts, Greater, ProviderBudget, RetryClasses
  <1>3. CASE queue[d].attempt = 0
    <2>1. \A a \in Attempts : <<d, a>> \notin orphans /\ proc[d][a] \notin Alive
      BY <1>1, <1>2, <1>3 DEF ProcessFacts
    <2> QED
      BY <1>1, <1>3, <2>1 DEF ProcessFacts, Kept, Progresses, Progress
  <1>4. CASE queue'[d].attempt = queue[d].attempt
    BY <1>1, <1>4 DEF ProcessFacts, Kept, Progresses, Progress
  <1> QED
    BY <1>3, <1>4 DEF Kept

(* A transaction that starts a further attempt keeps it too, provided the last worker is
   not alive; no process has the new number yet. *)
LEMMA RenewedProcessFacts ==
    ASSUME HInv, NEW d \in Dispatches, Renewed(d), Progresses(d),
           live[d].attempt # 0 => proc[d][live[d].attempt] \notin Alive,
           children'[d] \in {0, children[d]}, orphans' = orphans,
           ~Loose(d)
    PROVE  /\ ProcessFacts(d)'
           /\ <<d, queue'[d].attempt>> \notin orphans
  <1>1. ProcessFacts(d) /\ queue[d].attempt \in Nat
    BY RowOf DEF HInv, LedgerInv, QueueRow
  <1>2. \A a \in Attempts : a \in Int /\ a >= 1
    BY BudgetAssumption DEF Attempts, Greater, ProviderBudget, RetryClasses
  <1>3. \A a \in Attempts : proc[d][a] \in Alive => <<d, a>> \in orphans
    BY <1>1, <1>2 DEF ProcessFacts
  <1>4. \A a \in Attempts : <<d, a>> \in orphans => a < queue'[d].attempt
    BY <1>1, <1>2 DEF ProcessFacts, Renewed
  <1>5. orphans \subseteq Dispatches \X Attempts
    BY DEF HInv, HarnessTyped
  <1>6. <<d, queue'[d].attempt>> \notin orphans
    BY <1>1, <1>4, <1>5 DEF Renewed
  <1> QED
    BY <1>1, <1>2, <1>3, <1>4, <1>6 DEF ProcessFacts, Renewed, Progresses, Progress

(* A recorded exit keeps it when the process really is dead. *)
LEMMA ExitedProcessFacts ==
    ASSUME HInv, NEW d \in Dispatches, Exited(d), Progresses(d),
           proc'[d][live[d].attempt] \in Dead,
           children'[d] \in {0, children[d]}, orphans' = orphans,
           ~Loose(d)
    PROVE  ProcessFacts(d)'
  <1>1. ProcessFacts(d) /\ queue[d].attempt \in Nat /\ live[d] \in LivenessRow
    BY RowOf DEF HInv, LedgerInv, QueueRow
  <1>2. live'[d].attempt = live[d].attempt
    BY <1>1 DEF Exited, LivenessRow
  <1> QED
    BY <1>1, <1>2, DeadPhases DEF ProcessFacts, Exited, Progresses, Progress

(* An accepted result keeps it when the process wrote that result. *)
LEMMA DeliveredProcessFacts ==
    ASSUME HInv, NEW d \in Dispatches, NEW r \in Attempts, Delivered(d, r),
           proc[d][r] \in {"done", "deaddone"}, UNCHANGED <<children, proc, orphans>>,
           Loose(d)' <=> Loose(d)
    PROVE  ProcessFacts(d)'
  BY DEF HInv, ProcessFacts, Delivered

-----------------------------------------------------------------------------
(* Steps of the ledger, as far as the processes are concerned.             *)

\* A step of d's row leaves the others alone.
LEMMA OthersKept ==
    ASSUME LedgerInv, NEW d \in Dispatches, OnlyRow(d)
    PROVE  \A e \in Dispatches \ {d} :
               /\ queue'[e] = queue[e] /\ live'[e] = live[e] /\ Kept(e)
  BY DEF OnlyRow, LedgerInv, TypeOK, Kept

(* An action that leaves the ledger alone keeps every row. *)
LEMMA SameLedgerKept ==
    ASSUME UNCHANGED <<queue, live>>
    PROVE  \A d \in Dispatches : Kept(d)
  BY DEF Kept

(* Each group of the harness's calls is a step of the ledger on one row. *)
LEMMA LedgerRow ==
    ASSUME LedgerInv, NEW d \in Dispatches,
           LaunchStep(d) \/ RecoveryStep(d) \/ OperatorStep(d) \/ ResultStep(d)
    PROVE  Next /\ OnlyRow(d)
  <1>1. OnlyRow(d)
    BY LaunchStepRow, RecoveryStepRow, OperatorStepRow, ResultStepRow
       DEF LedgerInv, RowStep
  <1> QED
    BY <1>1 DEF Next

(* record_recovery_inspection leaves attempt and liveness alone. *)
LEMMA RecordRecoveryInspectionKept ==
    ASSUME LedgerInv, NEW d \in Dispatches,
           NEW decision \in {"recovery_retry_wait",
               "recovery_continuation_pending", "human_attention_required"},
           NEW wait, RecordRecoveryInspection(d, decision, wait)
    PROVE  Kept(d)
  <1>1. TypeOK /\ queue[d] \in QueueRow
    BY RowOf DEF LedgerInv
  <1>2. queue'[d] = [queue[d] EXCEPT !.state = queue'[d].state]
           /\ queue'[d].state \in {InspectionDecision(d, decision), queue[d].state}
    BY <1>1 DEF RecordRecoveryInspection, TypeOK, QueueRow
  <1> QED
    BY <1>1, <1>2 DEF Kept, RecordRecoveryInspection, InspectionDecision, QueueRow

(* So does mark_human_attention_required of a row whose worker is gone. *)
LEMMA MarkHumanKept ==
    ASSUME LedgerInv, NEW d \in Dispatches, NEW failure \in {"none", "profile"},
           WorkerGone(d), MarkHumanAttentionRequired(d, failure)
    PROVE  Next /\ OnlyRow(d) /\ Kept(d)
  <1>1. Next /\ OnlyRow(d)
    BY LedgerRow DEF RecoveryStep
  <1>2. CASE CloseClaim(d, failure)
    <2>1. queue \in [Dispatches -> QueueRow] /\ live' = live
      BY <1>2 DEF CloseClaim, LedgerInv, TypeOK
    <2>2. /\ queue'[d].attempt = queue[d].attempt
          /\ queue'[d].result = queue[d].result
          /\ queue'[d].state = "human_attention_required"
      BY <1>2, <2>1 DEF CloseClaim, QueueRow
    <2> QED
      BY <1>1, <2>1, <2>2 DEF Kept
  <1>3. CASE RecordRecoveryInspection(d, "human_attention_required", "none")
    BY <1>1, <1>3, RecordRecoveryInspectionKept
  <1> QED
    BY <1>1, <1>2, <1>3 DEF MarkHumanAttentionRequired

(* claim_queue_dispatch takes or cancels a queued row and forgets the last liveness. *)
LEMMA ClaimQueueDispatchKept ==
    ASSUME LedgerInv, NEW d \in Dispatches, ClaimQueueDispatch(d)
    PROVE  /\ Next /\ OnlyRow(d) /\ Kept(d)
           /\ queue[d].state = "queued" /\ live'[d] = NoLiveness
           /\ queue'[d].state # "queued"
           /\ queue'[d].attempt = queue[d].attempt
  <1>1. Next /\ OnlyRow(d)
    BY LedgerRow DEF LaunchStep
  <1>2. queue[d].state = "queued" /\ live[d] = NoLiveness
    BY DEF ClaimQueueDispatch, Claimable, LedgerInv, RowInv, UnlaunchedRowsAreBare
  <1>3. queue[d] \in QueueRow /\ queue \in [Dispatches -> QueueRow]
            /\ live \in [Dispatches -> LivenessRow]
    BY RowOf DEF LedgerInv
  <1>4. /\ queue'[d].attempt = queue[d].attempt
        /\ queue'[d].result = queue[d].result
        /\ queue'[d].state \in {"claimed", "cancelled"}
        /\ live'[d] = NoLiveness
    <2>1. CASE UNCHANGED live /\ queue' =
               [queue EXCEPT ![d].state = "claimed", ![d].epoch = authority.epoch]
      BY <1>2, <1>3, <2>1 DEF QueueRow
    <2>2. CASE CancelQueueRow(d, NoLiveness)
      BY <1>3, <2>2 DEF CancelQueueRow, QueueRow
    <2> QED
      BY <2>1, <2>2 DEF ClaimQueueDispatch
  <1> QED
    BY <1>1, <1>2, <1>4 DEF Kept

\* The other steps that keep the row.
Calm(d) ==
    \/ EnqueueDispatch(d) \/ ConfigureRecovery(d) \/ IssueAttemptCapability(d)
    \/ SetQueueStarting(d) \/ RenewWorkerLiveness(d) \/ CapabilityExpires(d)
    \/ AdoptLiveWorker(d) \/ BeginRecoveryInspection(d) \/ EligibilityPasses(d)
    \/ AvailabilityPasses(d) \/ ProviderGrant(d) \/ CompatibilityRebind(d)
    \/ Cancel(d)
    \/ \E t \in 1..queue[d].attempt : BindWorkerThread(d, t)
    \/ \E budget \in [RetryClasses -> 0..ProviderBudget + 1] :
          BudgetChange(d, budget)

(* The transactions that neither start nor end a worker. *)
LEMMA CalmKept ==
    ASSUME LedgerInv, NEW d \in Dispatches, AttemptFacts(d), Calm(d)
    PROVE  Next /\ OnlyRow(d) /\ Kept(d)
  <1>1. Next /\ OnlyRow(d)
    BY LedgerRow DEF Calm, LaunchStep, RecoveryStep, OperatorStep
  <1>2. /\ TypeOK /\ queue[d] \in QueueRow /\ queue \in [Dispatches -> QueueRow]
        /\ live \in [Dispatches -> LivenessRow]
    BY RowOf DEF LedgerInv
  <1>3. CASE EnqueueDispatch(d)
    <2>1. queue[d].state = "absent" /\ queue[d].result = 0 /\ live' = live
             /\ queue'[d].result = 0 /\ queue'[d].attempt = 1
      BY <1>2, <1>3 DEF EnqueueDispatch, NoDispatch, LedgerInv, RowInv, ResultFacts
    <2> QED
      BY <1>1, <2>1 DEF Kept, AttemptFacts
  <1>4. CASE ConfigureRecovery(d) \/ IssueAttemptCapability(d)
               \/ RenewWorkerLiveness(d) \/ CapabilityExpires(d)
               \/ EligibilityPasses(d) \/ CompatibilityRebind(d)
    BY <1>1, <1>4 DEF ConfigureRecovery, IssueAttemptCapability, RenewWorkerLiveness,
       CapabilityExpires, EligibilityPasses, CompatibilityRebind, Kept
  <1>5. CASE SetQueueStarting(d) \/ AdoptLiveWorker(d) \/ AvailabilityPasses(d)
    BY <1>1, <1>2, <1>5 DEF SetQueueStarting, AdoptLiveWorker, AvailabilityPasses, Kept,
       QueueRow
  <1>6. CASE BeginRecoveryInspection(d) \/ ProviderGrant(d)
    BY <1>1, <1>2, <1>6 DEF BeginRecoveryInspection, ProviderGrant, Kept, QueueRow
  <1>7. CASE \E t \in 1..queue[d].attempt : BindWorkerThread(d, t)
    BY <1>1, <1>2, <1>7 DEF BindWorkerThread, Kept, QueueRow
  <1>8. CASE \E budget \in [RetryClasses -> 0..ProviderBudget + 1] :
               BudgetChange(d, budget)
    BY <1>1, <1>8 DEF BudgetChange, Kept
  <1>9. CASE Cancel(d)
    BY <1>1, <1>2, <1>9 DEF Cancel, CancelQueueRow, Kept, QueueRow
  <1> QED
    BY <1>1, <1>3, <1>4, <1>5, <1>6, <1>7, <1>8, <1>9 DEF Calm

(* RETRY starts a further attempt, of a row whose last worker has exited. *)
LEMMA RetryRenews ==
    ASSUME LedgerInv, NEW d \in Dispatches, Retry(d)
    PROVE  /\ Next /\ OnlyRow(d) /\ Renewed(d)
           /\ live[d].attempt # 0 => live[d].exited
           /\ queue'[d].state = "queued"
  <1>1. Next /\ OnlyRow(d)
    BY LedgerRow DEF OperatorStep
  <1>2. live[d].attempt # 0 => live[d].exited
    BY DEF Retry, CanRetry, AwaitsHuman, LedgerInv, RowInv, WorkerOwned, WorkerGone
  <1>3. Renewed(d) /\ queue'[d].state = "queued"
    BY DEF Retry, Requeue, Renewed, LedgerInv, TypeOK, QueueRow
  <1> QED
    BY <1>1, <1>2, <1>3

(* begin_recovery_continuation starts a further attempt or asks for a human, of a row
   whose last worker has exited. *)
LEMMA BeginRecoveryContinuationEffect ==
    ASSUME LedgerInv, NEW d \in Dispatches, BeginRecoveryContinuation(d)
    PROVE  /\ Next /\ OnlyRow(d)
           /\ live[d].attempt # 0 => live[d].exited
           /\ \/ Renewed(d) /\ queue'[d].state = "claimed"
              \/ Kept(d) /\ queue'[d].state = "human_attention_required"
  <1>1. Next /\ OnlyRow(d)
    BY LedgerRow DEF RecoveryStep
  <1>2. live[d].attempt # 0 => live[d].exited
    BY DEF BeginRecoveryContinuation, CanBeginContinuation, WorkerGone
  <1>3. queue[d] \in QueueRow /\ queue \in [Dispatches -> QueueRow]
            /\ live \in [Dispatches -> LivenessRow]
    BY RowOf DEF LedgerInv
  <1>4. CASE ClaimContinuation(d)
    BY <1>1, <1>2, <1>3, <1>4 DEF ClaimContinuation, Renewed, QueueRow
  <1>5. CASE CloseContinuation(d)
    BY <1>1, <1>2, <1>3, <1>5 DEF CloseContinuation, Kept, QueueRow
  <1> QED
    BY <1>1, <1>2, <1>4, <1>5 DEF BeginRecoveryContinuation

(* mark_worker_exit records the exit, and puts the row back into the queue when a retry
   is due at once. *)
LEMMA MarkWorkerExitEffect ==
    ASSUME LedgerInv, NEW d \in Dispatches, NEW kind \in ExitKinds,
           MarkWorkerExit(d, kind)
    PROVE  Next /\ OnlyRow(d) /\ (Renewed(d) \/ Exited(d))
  <1>1. Next /\ OnlyRow(d)
    BY LedgerRow DEF RecoveryStep
  <1>2. /\ queue[d] \in QueueRow /\ queue \in [Dispatches -> QueueRow]
        /\ live \in [Dispatches -> LivenessRow] /\ live[d].attempt # 0
    BY RowOf DEF LedgerInv, MarkWorkerExit
  <1>3. queue[d].state \notin {"absent", "queued"}
    BY <1>2 DEF LedgerInv, RowInv, UnlaunchedRowsAreBare
  <1>4. CASE ExitAfterTerminal(d)
    BY <1>1, <1>2, <1>3, <1>4 DEF ExitAfterTerminal, Exited
  <1>5. CASE ExitRequeued(d, kind)
    BY <1>1, <1>2, <1>5 DEF ExitRequeued, Requeue, Renewed, QueueRow
  <1>6. CASE ExitRetryable(d, kind) \/ ExitAmbiguous(d, kind) \/ ExitClosed(d, kind)
    <2>1. PICK s \in {queue[d].state, "human_attention_required",
                      "recovery_inspection_pending"} :
             /\ queue' = [queue EXCEPT ![d].state = s]
             /\ live' = [live EXCEPT ![d].exited = TRUE]
      BY <1>6 DEF ExitRetryable, ExitAmbiguous, ExitClosed, ExitState, AfterExit
    <2>2. /\ queue'[d].attempt = queue[d].attempt
          /\ queue'[d].result = queue[d].result
          /\ live'[d] = [live[d] EXCEPT !.exited = TRUE]
          /\ queue'[d].state = s
      BY <1>2, <2>1 DEF QueueRow
    <2> QED
      BY <1>1, <1>2, <1>3, <2>1, <2>2 DEF Exited
  <1> QED
    BY <1>1, <1>4, <1>5, <1>6 DEF MarkWorkerExit

(* The acknowledgement of a cancellation records the exit. *)
LEMMA AcknowledgeEffect ==
    ASSUME LedgerInv, NEW d \in Dispatches, AcknowledgeWorkerCancellationExit(d)
    PROVE  Next /\ OnlyRow(d) /\ Exited(d)
  <1>1. Next /\ OnlyRow(d)
    BY LedgerRow DEF OperatorStep
  <1>2. queue[d] \in QueueRow /\ queue \in [Dispatches -> QueueRow]
            /\ live \in [Dispatches -> LivenessRow]
    BY RowOf DEF LedgerInv
  <1> QED
    BY <1>1, <1>2 DEF AcknowledgeWorkerCancellationExit, CancelQueueRow, Exited,
       QueueRow

(* The three ways a result reaches the ledger name the attempt that produced it. *)
LEMMA ResultEffect ==
    ASSUME LedgerInv, NEW d \in Dispatches, NEW outcome \in ResultStates, NEW r,
           \/ CommitQueueResult(d, r, outcome) /\ r = queue[d].attempt
           \/ CommitRetainedQueueResult(d, r, outcome) /\ r = queue[d].attempt
           \/ IngestRecoveredResult(d, r, outcome) /\ r \in 1..queue[d].attempt
    PROVE  Next /\ OnlyRow(d) /\ Delivered(d, r)
  <1>1. Next /\ OnlyRow(d)
    BY LedgerRow DEF ResultStep
  <1>2. queue[d] \in QueueRow /\ queue \in [Dispatches -> QueueRow]
    BY RowOf DEF LedgerInv
  <1> QED
    BY <1>1, <1>2 DEF CommitQueueResult, CommitRetainedQueueResult,
       IngestRecoveredResult, FinalizeQueueResult, Delivered, QueueRow

-----------------------------------------------------------------------------
(* Steps of the harness: each is a step of the ledger, or leaves it alone, *)
(* and keeps the invariant.                                                *)

HStep == [Next]_ledgerVars /\ HInv'

USE DEF Launching, Stages, Positions

(* What has to be shown of a step: the ledger steps, and the process facts survive. *)
LEMMA StepFacts ==
    ASSUME HInv, [Next]_ledgerVars, HarnessTyped', PositionFacts',
           \A d \in Dispatches : ProcessFacts(d)'
    PROVE  HStep
  <1>1. LedgerInv' /\ \A d \in Dispatches : AttemptFacts(d)'
    BY LedgerInvNext, AttemptsNext DEF HInv
  <1> QED
    BY <1>1 DEF HStep, HInv

\* Nothing is demanded of the other positions.
LEMMA FreePosition ==
    ASSUME pc' \notin Launching \union {"stop", "inspect", "reap"}
    PROVE  PositionFacts'
  BY DEF PositionFacts

\* The rows the thread works on cannot be touched behind its back.
LEMMA PositionKept ==
    ASSUME HInv, UNCHANGED <<pc, cur, children, orphans>>, todo' \subseteq todo,
           \A d \in Dispatches : Progresses(d),
           \A d \in Dispatches : queue[d].state \notin {"absent", "queued"} =>
               queue'[d] = queue[d] /\ live'[d] = live[d]
    PROVE  PositionFacts'
  <1>1. PositionFacts /\ todo \subseteq Dispatches
    BY DEF HInv, HarnessTyped
  <1>2. pc = "popen" => /\ cur \in Dispatches
                        /\ queue[cur].attempt \in Attempts
                        /\ queue'[cur] = queue[cur]
    BY <1>1, AttemptBound DEF PositionFacts, HInv
  <1>3. pc = "popen" => proc'[cur][queue'[cur].attempt] # "none"
    BY <1>1, <1>2 DEF PositionFacts, Progresses, Progress
  <1> QED
    BY <1>1, <1>3 DEF PositionFacts

(* A step that leaves the processes alone lets them progress. *)
LEMMA SameProgress ==
    ASSUME HInv, UNCHANGED proc
    PROVE  \A d \in Dispatches : Progresses(d)
  BY KilledProgress DEF HInv, HarnessTyped, Progresses

\* Steps in which no process and no row changes its fate.
LEMMA QuietStep ==
    ASSUME HInv, [Next]_ledgerVars, HarnessTyped', PositionFacts',
           \A d \in Dispatches : Kept(d) /\ (Loose(d)' <=> Loose(d)),
           UNCHANGED <<children, proc, orphans>>
    PROVE  HStep
  <1>1. \A d \in Dispatches : ProcessFacts(d)'
    BY SameProgress, KeptProcessFacts
  <1> QED
    BY <1>1, StepFacts

\* Steps of one row leave the processes of the others alone.
LEMMA RowProcess ==
    ASSUME HInv, NEW d \in Dispatches, OnlyRow(d), ProcessFacts(d)',
           orphans' = orphans,
           \A e \in Dispatches \ {d} :
               /\ proc'[e] = proc[e] /\ children'[e] \in {0, children[e]}
               /\ Loose(e)' <=> Loose(e)
    PROVE  \A e \in Dispatches : ProcessFacts(e)'
  <1>1. \A e \in Dispatches \ {d} : Kept(e)
    BY OthersKept DEF HInv
  <1>2. \A e \in Dispatches \ {d} : Progresses(e)
    BY KilledProgress DEF HInv, HarnessTyped, Progresses
  <1>3. \A e \in Dispatches \ {d} : ProcessFacts(e)'
    BY <1>1, <1>2, KeptProcessFacts
  <1> QED
    BY <1>3

(* The steps of the service loop that write nothing to the ledger. *)
LEMMA ServiceSteps ==
    ASSUME HInv,
           \/ Start \/ LeaseRunsOut \/ RecoverOnce \/ StageDone \/ Wake
           \/ RenewalTick \/ ReapDone
           \/ \E d \in Dispatches : StillRunning(d) \/ ReapRefused(d)
    PROVE  HStep
  <1>1. [Next]_ledgerVars /\ UNCHANGED <<queue, live>>
    BY DEF Start, LeaseRunsOut, RecoverOnce, StageDone, Wake, RenewalTick,
       ReapDone, StillRunning, ReapRefused, Next, HarnessStep, AcquireHarness,
       LeaseExpires, RenewHarness, ledgerVars
  <1>2. HarnessTyped'
    <2>1. HarnessTyped
      BY DEF HInv
    <2>2. CASE StageDone \/ RecoverOnce
      <3>1. pc' \in Positions /\ todo' \subseteq Dispatches
        BY <2>2 DEF StageDone, RecoverOnce, NextStage, Work
      <3> QED
        BY <2>1, <2>2, <3>1 DEF HarnessTyped, StageDone, RecoverOnce
    <2>3. CASE \/ Start \/ LeaseRunsOut \/ Wake \/ RenewalTick \/ ReapDone
               \/ \E d \in Dispatches : StillRunning(d) \/ ReapRefused(d)
      BY <2>1, <2>3 DEF HarnessTyped, Start, LeaseRunsOut, Wake, RenewalTick,
         ReapDone, StillRunning, ReapRefused, Goto, Visited, harnessVars
    <2> QED
      BY <2>2, <2>3
  <1>3. PositionFacts'
    <2>1. CASE StageDone /\ pc' = "inspect"
      BY <1>1, <2>1 DEF StageDone, NextStage, Work, PositionFacts
    <2>2. CASE \/ LeaseRunsOut
               \/ \E d \in Dispatches : StillRunning(d) \/ ReapRefused(d)
      BY <1>1, <2>2, SameProgress, PositionKept DEF LeaseRunsOut, harnessVars,
         StillRunning, ReapRefused, Visited
    <2>3. CASE RenewalTick
      BY <2>3 DEF RenewalTick, PositionFacts
    <2>4. CASE \/ Start \/ RecoverOnce \/ Wake \/ ReapDone
               \/ StageDone /\ pc' # "inspect"
      BY <2>4, FreePosition DEF Start, RecoverOnce, StageDone, Wake, ReapDone,
         Goto, NextStage
    <2> QED
      BY <2>1, <2>2, <2>3, <2>4
  <1>4. /\ UNCHANGED <<children, proc, orphans>>
        /\ \A d \in Dispatches : Loose(d)' <=> Loose(d)
    BY DEF Start, LeaseRunsOut, RecoverOnce, StageDone, Wake, RenewalTick,
       ReapDone, StillRunning, ReapRefused, Goto, Visited, harnessVars, NextStage,
       Loose
  <1> QED
    BY <1>1, <1>2, <1>3, <1>4, SameLedgerKept, QuietStep

\* One row changes and keeps its worker.
LEMMA KeptStep ==
    ASSUME HInv, NEW d \in Dispatches, Next, OnlyRow(d), Kept(d),
           HarnessTyped', PositionFacts',
           \A e \in Dispatches : Loose(e)' <=> Loose(e),
           UNCHANGED <<children, proc, orphans>>
    PROVE  HStep
  <1>1. \A e \in Dispatches : Kept(e)
    BY OthersKept DEF HInv
  <1> QED
    BY <1>1, QuietStep

(* A calm transaction that leaves the processes alone is a proper step of the harness. *)
LEMMA CalmStep ==
    ASSUME HInv, NEW d \in Dispatches, Calm(d), HarnessTyped', PositionFacts',
           \A e \in Dispatches : Loose(e)' <=> Loose(e),
           UNCHANGED <<children, proc, orphans>>
    PROVE  HStep
  BY CalmKept, KeptStep DEF HInv

\* The clock, the command line and the fence.
LEMMA OutsideStep ==
    ASSUME HInv, Outside
    PROVE  HStep
  <1>1. /\ HarnessTyped' /\ UNCHANGED <<pc, cur, todo, children, proc, orphans>>
        /\ \A e \in Dispatches : Loose(e)' <=> Loose(e)
    BY DEF HInv, HarnessTyped, Outside, harnessVars, Loose
  <1>2. CASE ArmHarnessRefreshFence
    <2>1. Next /\ UNCHANGED <<queue, live>>
      BY <1>2 DEF Next, HarnessStep, ArmHarnessRefreshFence
    <2>2. PositionFacts'
      BY <1>1, <2>1, SameProgress, PositionKept
    <2> QED
      BY <1>1, <2>1, <2>2, SameLedgerKept, QuietStep
  <1>3. ASSUME NEW d \in Dispatches,
               \/ EnqueueDispatch(d) \/ CapabilityExpires(d)
               \/ EligibilityPasses(d) \/ AvailabilityPasses(d)
        PROVE  HStep
    <2>1. Calm(d)
      BY <1>3 DEF Calm
    <2>2. live' = live /\ \A e \in Dispatches :
              queue[e].state \notin {"absent", "queued"} => queue'[e] = queue[e]
      BY <1>3 DEF EnqueueDispatch, CapabilityExpires, EligibilityPasses,
         AvailabilityPasses, HInv, LedgerInv, TypeOK
    <2>3. PositionFacts'
      BY <1>1, <2>2, SameProgress, PositionKept
    <2> QED
      BY <1>1, <2>1, <2>3, CalmStep
  <1> QED
    BY <1>2, <1>3 DEF Outside

\* A claimed row is configured, gets its capability and starts.
LEMMA PrepareStep ==
    ASSUME HInv, Configure \/ Issue \/ CrossIntoStarting
    PROVE  HStep
  <1>1. /\ cur \in Dispatches /\ queue[cur].state \in {"claimed", "starting"}
        /\ live[cur] = NoLiveness /\ <<cur, queue[cur].attempt>> \notin orphans
    BY DEF HInv, PositionFacts, Configure, Issue, CrossIntoStarting
  <1>2. /\ HarnessTyped' /\ UNCHANGED <<cur, children, proc, orphans>>
        /\ pc' \in Launching \ {"popen"}
        /\ \A e \in Dispatches : Loose(e)' <=> Loose(e)
    BY DEF HInv, HarnessTyped, Configure, Issue, CrossIntoStarting, Goto, Loose
  <1>3. /\ queue'[cur].state \in {"claimed", "starting"}
        /\ queue'[cur].attempt = queue[cur].attempt /\ live' = live
    BY <1>1 DEF Configure, Issue, CrossIntoStarting, ConfigureRecovery,
       IssueAttemptCapability, SetQueueStarting, ledgerVars, HInv, LedgerInv, TypeOK,
       QueueRow
  <1>4. PositionFacts'
    BY <1>1, <1>2, <1>3 DEF PositionFacts
  <1>5. CASE UNCHANGED ledgerVars
    BY <1>2, <1>4, <1>5, SameLedgerKept, QuietStep DEF ledgerVars
  <1>6. CASE ~UNCHANGED ledgerVars
    <2>1. Calm(cur)
      BY <1>6 DEF Configure, Issue, CrossIntoStarting, Calm
    <2> QED
      BY <1>1, <1>2, <1>4, <2>1, CalmStep
  <1> QED
    BY <1>5, <1>6

\* A failed preparation closes a claim that has no worker.
LEMMA SpawnFailsStep ==
    ASSUME HInv, SpawnFails
    PROVE  HStep
  <1>1. cur \in Dispatches /\ WorkerGone(cur) /\ pc # "popen"
    BY DEF HInv, PositionFacts, SpawnFails, WorkerGone
  <1>2. PICK failure \in {"none", "profile"} :
            MarkHumanAttentionRequired(cur, failure)
    BY DEF SpawnFails
  <1>3. Next /\ OnlyRow(cur) /\ Kept(cur)
    BY <1>1, <1>2, MarkHumanKept DEF HInv
  <1>4. /\ HarnessTyped' /\ PositionFacts'
        /\ UNCHANGED <<children, proc, orphans>>
        /\ \A e \in Dispatches : Loose(e)' <=> Loose(e)
    BY <1>1, FreePosition DEF HInv, HarnessTyped, SpawnFails, Loose
  <1> QED
    BY <1>1, <1>3, <1>4, KeptStep

\* Requests that leave the worker of a row alone.
LEMMA QuietRequests ==
    ASSUME HInv, NEW d \in Dispatches,
           \/ \E a \in Attempts : Heartbeat(d, a)
           \/ RecoveryAction(d) /\ ~Retry(d)
           \/ ResumeInspection(d)
    PROVE  HStep
  <1>1. /\ HarnessTyped' /\ UNCHANGED <<children, proc, orphans>>
        /\ \A e \in Dispatches : Loose(e)' <=> Loose(e)
    BY DEF HInv, HarnessTyped, Heartbeat, ServesWorker, RecoveryAction,
       ResumeInspection, Goto, Visited, harnessVars, Loose
  <1>2. PositionFacts'
    BY DEF Heartbeat, ServesWorker, RecoveryAction, ResumeInspection, Goto, Visited,
       harnessVars, PositionFacts
  <1>3. CASE UNCHANGED ledgerVars
    BY <1>1, <1>2, <1>3, SameLedgerKept, QuietStep DEF ledgerVars
  <1>4. CASE ~UNCHANGED ledgerVars
    <2>1. Calm(d)
      BY <1>4 DEF Heartbeat, RecoveryAction, ResumeInspection, Calm
    <2> QED
      BY <1>1, <1>2, <2>1, CalmStep
  <1> QED
    BY <1>3, <1>4

-----------------------------------------------------------------------------
(* Recovery decisions and claims.                                          *)

\* Nobody who may be running is bound to a row that is inspected.
LEMMA InspectedIsGone ==
    ASSUME HInv, NEW d \in todo, pc = "inspect"
    PROVE  /\ d \in Dispatches /\ WorkerGone(d)
           /\ queue[d].state = "recovery_inspection_pending"
  BY DEF HInv, HarnessTyped, PositionFacts, LedgerInv, RowInv, WorkerOwned

\* A result that a worker process of the dispatch produced is accepted.
LEMMA DeliverStep ==
    ASSUME HInv, NEW d \in Dispatches, NEW outcome \in ResultStates,
           NEW r \in Attempts, proc[d][r] \in {"done", "deaddone"},
           \/ CommitQueueResult(d, r, outcome) /\ r = queue[d].attempt
           \/ CommitRetainedQueueResult(d, r, outcome) /\ r = queue[d].attempt
           \/ IngestRecoveredResult(d, r, outcome) /\ r \in 1..queue[d].attempt,
           HarnessTyped', OnlyRow(d) => PositionFacts',
           \A e \in Dispatches : Loose(e)' <=> Loose(e),
           UNCHANGED <<children, proc, orphans>>
    PROVE  HStep
  <1>1. Next /\ OnlyRow(d) /\ Delivered(d, r)
    BY ResultEffect DEF HInv
  <1>2. ProcessFacts(d)'
    BY <1>1, DeliveredProcessFacts
  <1>3. \A e \in Dispatches : ProcessFacts(e)'
    BY <1>1, <1>2, RowProcess
  <1> QED
    BY <1>1, <1>3, StepFacts

(* A worker's result arrives while the service serves requests. *)
LEMMA SubmitResultStep ==
    ASSUME HInv, NEW d \in Dispatches, NEW a \in Attempts, SubmitResult(d, a)
    PROVE  HStep
  <1>1. /\ HarnessTyped' /\ PositionFacts'
        /\ \A e \in Dispatches : Loose(e)' <=> Loose(e)
        /\ UNCHANGED <<children, proc, orphans>>
    BY FreePosition DEF HInv, HarnessTyped, SubmitResult, ServesWorker, Goto, Loose
  <1> QED
    BY <1>1, DeliverStep DEF SubmitResult, ServesWorker

(* A retained result is committed when the process has written one. *)
LEMMA RecoverRetainedStep ==
    ASSUME HInv, NEW d \in Dispatches, RecoverRetainedWorkerResult(d)
    PROVE  HStep
  <1>1. /\ HarnessTyped' /\ PositionFacts'
        /\ \A e \in Dispatches : Loose(e)' <=> Loose(e)
        /\ UNCHANGED <<children, proc, orphans>>
    BY FreePosition DEF HInv, HarnessTyped, RecoverRetainedWorkerResult, Visited,
       Loose
  <1>2. CASE UNCHANGED ledgerVars
    BY <1>1, <1>2, SameLedgerKept, QuietStep DEF ledgerVars
  <1>3. ASSUME Current(d) \in {"done", "deaddone"}, CanCommitRetained(d),
               NEW outcome \in ResultStates,
               CommitRetainedQueueResult(d, queue[d].attempt, outcome)
        PROVE  HStep
    <2>1. queue[d].state # "absent"
      BY <1>3 DEF CanCommitRetained, SubmitAllowed
    <2>2. queue[d].attempt \in Attempts
      BY <2>1, AttemptBound DEF HInv
    <2> QED
      BY <1>1, <1>3, <2>2, DeliverStep DEF Current
  <1> QED
    BY <1>2, <1>3 DEF RecoverRetainedWorkerResult

\* What an inspection decides.
LEMMA DecideEffect ==
    ASSUME HInv, NEW d \in todo, pc = "inspect", NEW kind, Decide(d, kind)
    PROVE  \/ Next /\ OnlyRow(d) /\ Kept(d)
           \/ \E r \in Finished(d), outcome \in ResultStates :
                 IngestRecoveredResult(d, r, outcome)
  <1>1. d \in Dispatches /\ WorkerGone(d) /\ LedgerInv
    BY InspectedIsGone DEF HInv
  <1>2. \/ \E r \in Finished(d), outcome \in ResultStates :
              IngestRecoveredResult(d, r, outcome)
        \/ MarkHumanAttentionRequired(d, "none")
        \/ RecordRecoveryInspection(d, "recovery_retry_wait", "future")
        \/ \E wait \in {"future", "due"} :
              RecordRecoveryInspection(d, "recovery_continuation_pending", wait)
    BY DEF Decide
  <1>3. CASE MarkHumanAttentionRequired(d, "none")
    BY <1>1, <1>3, MarkHumanKept
  <1>4. CASE RecordRecoveryInspection(d, "recovery_retry_wait", "future")
    <2>1. Next /\ OnlyRow(d)
      BY <1>1, <1>4, LedgerRow DEF RecoveryStep
    <2> QED
      BY <1>1, <1>4, <2>1, RecordRecoveryInspectionKept
  <1>5. ASSUME NEW wait \in {"future", "due"},
               RecordRecoveryInspection(d, "recovery_continuation_pending", wait)
        PROVE  Next /\ OnlyRow(d) /\ Kept(d)
    <2>1. Next /\ OnlyRow(d)
      BY <1>1, <1>5, LedgerRow DEF RecoveryStep
    <2> QED
      BY <1>1, <1>5, <2>1, RecordRecoveryInspectionKept
  <1> QED
    BY <1>2, <1>3, <1>4, <1>5

(* A row whose worker exited is inspected and decided about, or handed to a human when
   there is no thread to inspect. *)
LEMMA RecoverExitedStep ==
    ASSUME HInv, NEW d \in Dispatches, RecoverExitedDispatch(d)
    PROVE  HStep
  <1>1. /\ HarnessTyped' /\ UNCHANGED <<pc, cur, children, proc, orphans>>
        /\ todo' = todo \ {d} /\ d \in todo /\ pc = "inspect"
        /\ \A e \in Dispatches : Loose(e)' <=> Loose(e)
    BY DEF HInv, HarnessTyped, RecoverExitedDispatch, Visited, Loose
  <1>2. OnlyRow(d) => PositionFacts'
    <2>1. ASSUME OnlyRow(d), NEW e \in todo \ {d}
          PROVE  queue'[e].state = "recovery_inspection_pending"
      <3>1. queue'[e] = queue[e]
        BY <2>1, OthersKept DEF HInv, HarnessTyped
      <3> QED
        BY <1>1, <2>1, <3>1, InspectedIsGone
    <2> QED
      BY <1>1, <2>1 DEF PositionFacts
  <1>3. CASE Next /\ OnlyRow(d) /\ Kept(d)
    BY <1>1, <1>2, <1>3, KeptStep
  <1>4. ASSUME NEW r \in Finished(d), NEW outcome \in ResultStates,
               IngestRecoveredResult(d, r, outcome)
        PROVE  HStep
    <2>1. /\ r \in Attempts /\ proc[d][r] \in {"done", "deaddone"}
          /\ r <= queue[d].attempt
      BY <1>4 DEF Finished
    <2>2. r \in 1..queue[d].attempt
      BY <2>1, RowOf DEF Attempts, HInv, LedgerInv, QueueRow
    <2> QED
      BY <1>1, <1>2, <1>4, <2>1, <2>2, DeliverStep
  <1>5. CASE MarkHumanAttentionRequired(d, "none")
    BY <1>1, <1>3, <1>5, InspectedIsGone, MarkHumanKept DEF HInv
  <1> QED
    BY <1>1, <1>3, <1>4, <1>5, DecideEffect DEF RecoverExitedDispatch

\* The queue is served: a row that nobody works on is claimed.
LEMMA ProcessOnceStep ==
    ASSUME HInv, ProcessOnce
    PROVE  HStep
  <1>1. UNCHANGED <<todo, children, proc, orphans>> /\ pc = "queue"
    BY DEF ProcessOnce
  <1>2. CASE UNCHANGED ledgerVars /\ pc' = "loop" /\ UNCHANGED <<cur, back>>
    <2>1. /\ HarnessTyped' /\ PositionFacts'
          /\ \A e \in Dispatches : Loose(e)' <=> Loose(e)
      BY <1>1, <1>2, FreePosition DEF HInv, HarnessTyped, ProcessOnce, Loose
    <2> QED
      BY <1>1, <1>2, <2>1, SameLedgerKept, QuietStep DEF ledgerVars
  <1>3. ASSUME NEW d \in Dispatches, ClaimQueueDispatch(d), Launch(d, "loop")
        PROVE  HStep
    <2>1. /\ Next /\ OnlyRow(d) /\ Kept(d) /\ queue[d].state = "queued"
          /\ live'[d] = NoLiveness /\ queue'[d].attempt = queue[d].attempt
      BY <1>3, ClaimQueueDispatchKept DEF HInv
    <2>2. <<d, queue[d].attempt>> \notin orphans
      BY <2>1, AttemptBound DEF HInv, ProcessFacts
    <2>3. /\ HarnessTyped'
          /\ \A e \in Dispatches : Loose(e)' <=> Loose(e)
      BY <1>1, <1>3 DEF HInv, HarnessTyped, ProcessOnce, Launch, Loose
    <2>4. PositionFacts'
      BY <1>1, <1>3, <2>1, <2>2 DEF Launch, PositionFacts
    <2> QED
      BY <1>1, <2>1, <2>3, <2>4, KeptStep
  <1> QED
    BY <1>2, <1>3 DEF ProcessOnce

\* A row goes on to its next attempt: the worker of the last one is gone.
LEMMA RenewStep ==
    ASSUME HInv, NEW d \in Dispatches, Next, OnlyRow(d), Renewed(d),
           live[d].attempt # 0 => \/ live[d].exited
                                  \/ proc[d][live[d].attempt] \notin Alive,
           HarnessTyped',
           <<d, queue'[d].attempt>> \notin orphans => PositionFacts',
           UNCHANGED <<proc, orphans>>, children'[d] \in {0, children[d]},
           \A e \in Dispatches \ {d} : children'[e] = children[e],
           pc # "popen", pc' # "popen"
    PROVE  HStep
  <1>1. live[d].attempt # 0 => proc[d][live[d].attempt] \notin Alive
    BY DeadPhases DEF HInv, ProcessFacts
  <1>2. ProcessFacts(d)' /\ <<d, queue'[d].attempt>> \notin orphans
    BY <1>1, SameProgress, RenewedProcessFacts DEF Loose
  <1>3. \A e \in Dispatches : ProcessFacts(e)'
    BY <1>2, RowProcess DEF Loose
  <1> QED
    BY <1>2, <1>3, StepFacts

(* An operator's RETRY, served by the harness. *)
LEMMA RetryHStep ==
    ASSUME HInv, NEW d \in Dispatches, RecoveryAction(d), Retry(d)
    PROVE  HStep
  <1>1. pc = "loop" /\ UNCHANGED <<children, proc, orphans>>
    BY DEF RecoveryAction
  <1>2. /\ HarnessTyped' /\ pc' \in {"queue", "stop"}
        /\ PositionFacts'
    BY <1>1 DEF HInv, HarnessTyped, RecoveryAction, Goto, PositionFacts
  <1>3. /\ Next /\ OnlyRow(d) /\ Renewed(d)
        /\ live[d].attempt # 0 => live[d].exited
    BY RetryRenews DEF HInv
  <1> QED
    BY <1>1, <1>2, <1>3, RenewStep

(* A continuation is begun only for a row whose worker exited. *)
LEMMA ContinueDispatchStep ==
    ASSUME HInv, NEW d \in Dispatches, ContinueDispatch(d)
    PROVE  HStep
  <1>1. /\ pc = "continue" /\ todo' = todo \ {d}
        /\ UNCHANGED <<children, proc, orphans>>
    BY DEF ContinueDispatch
  <1>2. /\ HarnessTyped' /\ pc' # "popen"
        /\ \A e \in Dispatches : Loose(e)' <=> Loose(e)
    BY <1>1 DEF HInv, HarnessTyped, ContinueDispatch, Launch, Loose
  <1>3. CASE UNCHANGED <<ledgerVars, pc, cur, back>>
    <2>1. PositionFacts'
      BY <1>1, <1>3, FreePosition
    <2> QED
      BY <1>1, <1>2, <1>3, <2>1, SameLedgerKept, QuietStep DEF ledgerVars
  <1>4. CASE BeginRecoveryContinuation(d) /\ Launch(d, "continue")
    <2>1. /\ Next /\ OnlyRow(d)
          /\ live[d].attempt # 0 => live[d].exited
          /\ \/ Renewed(d) /\ queue'[d].state = "claimed"
             \/ Kept(d) /\ queue'[d].state = "human_attention_required"
      BY <1>4, BeginRecoveryContinuationEffect DEF HInv
    <2>2. CASE Renewed(d) /\ queue'[d].state = "claimed"
      <3>1. <<d, queue'[d].attempt>> \notin orphans => PositionFacts'
        BY <1>1, <1>4, <2>2 DEF Launch, PositionFacts, Renewed
      <3> QED
        BY <1>1, <1>2, <2>1, <2>2, <3>1, RenewStep
    <2>3. CASE Kept(d) /\ queue'[d].state = "human_attention_required"
      <3>1. PositionFacts'
        BY <1>4, <2>3, FreePosition DEF Launch
      <3> QED
        BY <1>1, <1>2, <2>1, <2>3, <3>1, KeptStep
    <2> QED
      BY <2>1, <2>2, <2>3
  <1> QED
    BY <1>3, <1>4 DEF ContinueDispatch

-----------------------------------------------------------------------------
(* Recorded exits.                                                         *)

\* The exit of the bound worker is recorded when its process has ended.
LEMMA ExitStep ==
    ASSUME HInv, NEW d \in Dispatches, Next, OnlyRow(d), Exited(d), Progresses(d),
           proc'[d][live[d].attempt] \in Dead,
           \A e \in Dispatches \ {d} : /\ proc'[e] = proc[e]
                                       /\ children'[e] = children[e],
           children'[d] \in {0, children[d]}, orphans' = orphans,
           HarnessTyped', PositionFacts', pc # "popen", pc' # "popen"
    PROVE  HStep
  <1>1. ProcessFacts(d)'
    BY ExitedProcessFacts DEF Loose
  <1>2. \A e \in Dispatches : ProcessFacts(e)'
    BY <1>1, RowProcess DEF Loose
  <1> QED
    BY <1>2, StepFacts

(* Recording the exit of a process that is dead; the reaper, the cancellation and the
   recovery share it. *)
LEMMA WorkerExitStep ==
    ASSUME HInv, NEW d \in Dispatches, NEW kind \in ExitKinds,
           MarkWorkerExit(d, kind),
           proc[d][live[d].attempt] \in Dead, UNCHANGED <<proc, orphans>>,
           children'[d] \in {0, children[d]},
           \A e \in Dispatches \ {d} : children'[e] = children[e],
           HarnessTyped', PositionFacts', pc # "popen", pc' # "popen"
    PROVE  HStep
  <1>1. Next /\ OnlyRow(d) /\ (Renewed(d) \/ Exited(d))
    BY MarkWorkerExitEffect DEF HInv
  <1>2. proc[d][live[d].attempt] \notin Alive
    BY DeadPhases
  <1>3. CASE Renewed(d)
    BY <1>1, <1>2, <1>3, RenewStep
  <1>4. CASE Exited(d)
    BY <1>1, <1>4, SameProgress, ExitStep
  <1> QED
    BY <1>1, <1>3, <1>4

\* The scan of the active rows: what has no worker is closed, what is dead is
\* recorded, what lives is adopted.
LEMMA ReconcileStep ==
    ASSUME HInv, NEW d \in Dispatches, ReconcileActive(d)
    PROVE  HStep
  <1>1. /\ HarnessTyped' /\ PositionFacts' /\ pc # "popen" /\ pc' # "popen"
        /\ UNCHANGED <<children, proc, orphans>>
        /\ \A e \in Dispatches : Loose(e)' <=> Loose(e)
    BY FreePosition DEF HInv, HarnessTyped, ReconcileActive, Visited, Loose
  <1>2. CASE live[d].attempt = 0 /\ MarkHumanAttentionRequired(d, "none")
    <2>1. Next /\ OnlyRow(d) /\ Kept(d)
      BY <1>2, MarkHumanKept DEF HInv, WorkerGone
    <2> QED
      BY <1>1, <2>1, KeptStep
  <1>3. CASE /\ live[d].attempt # 0 /\ proc[d][live[d].attempt] \notin Alive
             /\ MarkWorkerExit(d, "unknown")
    <2>1. live[d].attempt \in Attempts
      BY <1>3, RowOf, AttemptBound DEF HInv, LedgerInv, RowInv, LivenessFacts,
         UnlaunchedRowsAreBare
    <2>2. proc[d][live[d].attempt] \in Dead
      BY <1>3, <2>1 DEF HInv, HarnessTyped, ProcessFacts
    <2>3. "unknown" \in ExitKinds
      BY DEF ExitKinds
    <2> QED
      BY <1>1, <1>3, <2>2, <2>3, WorkerExitStep
  <1>4. CASE UNCHANGED ledgerVars
    BY <1>1, <1>4, SameLedgerKept, QuietStep DEF ledgerVars
  <1>5. CASE AdoptLiveWorker(d)
    BY <1>1, <1>5, CalmStep DEF Calm
  <1> QED
    BY <1>2, <1>3, <1>4, <1>5 DEF ReconcileActive

\* The exact process is ended before its exit is acknowledged.
LEMMA CancellationStep ==
    ASSUME HInv, NEW d \in Dispatches, AdvanceWorkerCancellation(d),
           HarnessTyped', PositionFacts', orphans' = orphans,
           pc # "popen", pc' # "popen"
    PROVE  HStep
  <1>1. CASE UNCHANGED <<ledgerVars, children, proc>>
    BY <1>1, SameLedgerKept, QuietStep DEF ledgerVars, Loose
  <1>2. CASE /\ ~WorkerGone(d) /\ AcknowledgeWorkerCancellationExit(d)
             /\ proc' = [proc EXCEPT ![d][live[d].attempt] = Killed(@)]
             /\ children' = [children EXCEPT ![d] = 0]
    <2>1. live[d].attempt # 0 /\ live[d].attempt \in Attempts
      BY <1>2, RowOf, AttemptBound DEF HInv, LedgerInv, RowInv, LivenessFacts,
         UnlaunchedRowsAreBare, WorkerGone
    <2>2. /\ proc \in [Dispatches -> [Attempts -> {"none"} \union Alive \union Dead]]
          /\ children \in [Dispatches -> Attempts \union {0}]
          /\ proc[d][live[d].attempt] # "none"
      BY <2>1 DEF HInv, HarnessTyped, ProcessFacts
    <2>3. Progresses(d) /\ proc'[d][live[d].attempt] \in Dead
      <3>1. \A a \in Attempts : proc'[d][a] = IF a = live[d].attempt
                                              THEN Killed(proc[d][a])
                                              ELSE proc[d][a]
        BY <1>2, <2>1, <2>2
      <3>2. \A a \in Attempts : proc[d][a] \in {"none"} \union Alive \union Dead
        BY <2>2
      <3>3. Progresses(d)
        BY <3>1, <3>2, KilledProgress DEF Progresses
      <3> QED
        BY <2>1, <2>2, <3>1, <3>2, <3>3, DeadPhases
    <2>4. \A e \in Dispatches \ {d} : /\ proc'[e] = proc[e]
                                      /\ children'[e] = children[e]
      BY <1>2, <2>2
    <2>5. children'[d] = 0
      BY <1>2, <2>2
    <2>6. Next /\ OnlyRow(d) /\ Exited(d)
      BY <1>2, AcknowledgeEffect DEF HInv
    <2> QED
      BY <2>3, <2>4, <2>5, <2>6, ExitStep
  <1> QED
    BY <1>1, <1>2 DEF AdvanceWorkerCancellation

\* A cancelled process keeps its place in the table of processes.
LEMMA CancellationTyped ==
    ASSUME HInv, NEW d \in Dispatches, AdvanceWorkerCancellation(d)
    PROVE  /\ proc' \in [Dispatches -> [Attempts -> {"none"} \union Alive \union Dead]]
           /\ children' \in [Dispatches -> Attempts \union {0}]
  <1>1. /\ proc \in [Dispatches -> [Attempts -> {"none"} \union Alive \union Dead]]
        /\ children \in [Dispatches -> Attempts \union {0}]
    BY DEF HInv, HarnessTyped
  <1>2. \A p \in {"none"} \union Alive \union Dead :
            Killed(p) \in {"none"} \union Alive \union Dead
    BY DEF Killed, DeadOf, Dead
  <1>3. CASE UNCHANGED <<children, proc>>
    BY <1>1, <1>3
  <1>4. CASE /\ proc' = [proc EXCEPT ![d][live[d].attempt] = Killed(@)]
             /\ children' = [children EXCEPT ![d] = 0]
    <2>2. ASSUME NEW a \in Attempts
          PROVE  proc'[d][a] \in {"none"} \union Alive \union Dead
      <3>1. proc[d][a] \in {"none"} \union Alive \union Dead
        BY <1>1
      <3>2. proc'[d][a] = proc[d][a] \/ proc'[d][a] = Killed(proc[d][a])
        BY <1>1, <1>4
      <3> QED
        BY <1>2, <3>1, <3>2
    <2>3. proc'[d] \in [Attempts -> {"none"} \union Alive \union Dead]
      BY <1>1, <1>4, <2>2
    <2>4. proc' = [proc EXCEPT ![d] = proc'[d]]
      BY <1>1, <1>4
    <2> QED
      BY <1>1, <1>4, <2>3, <2>4
  <1> QED
    BY <1>3, <1>4 DEF AdvanceWorkerCancellation

(* A worker is stopped and its exit recorded, or the wish stays pending. *)
LEMMA StopWorkerStep ==
    ASSUME HInv, StopWorker
    PROVE  HStep
  <1>1. cur \in Dispatches /\ AdvanceWorkerCancellation(cur)
    BY DEF HInv, PositionFacts, StopWorker
  <1>2. HarnessTyped'
    BY <1>1, CancellationTyped DEF HInv, HarnessTyped, StopWorker
  <1>3. PositionFacts' /\ pc # "popen" /\ pc' # "popen" /\ orphans' = orphans
    BY FreePosition DEF StopWorker
  <1> QED
    BY <1>1, <1>2, <1>3, CancellationStep

(* A pending cancellation is advanced by the next scan. *)
LEMMA AdvancePendingStep ==
    ASSUME HInv, NEW d \in Dispatches, AdvancePendingCancellation(d)
    PROVE  HStep
  <1>1. AdvanceWorkerCancellation(d)
    BY DEF AdvancePendingCancellation
  <1>2. HarnessTyped'
    BY <1>1, CancellationTyped DEF HInv, HarnessTyped, AdvancePendingCancellation,
       Visited
  <1>3. PositionFacts' /\ pc # "popen" /\ pc' # "popen" /\ orphans' = orphans
    BY FreePosition DEF AdvancePendingCancellation, Visited
  <1> QED
    BY <1>1, <1>2, <1>3, CancellationStep

\* A dead child is let go with what is known of it on record.
LEMMA ReapChildStep ==
    ASSUME HInv, NEW d \in Dispatches, ReapChild(d)
    PROVE  HStep
  <1>1. /\ pc = "reap" /\ pc' = "reap" /\ d \in todo /\ todo' = todo \ {d}
        /\ UNCHANGED <<cur, back, proc, orphans>>
        /\ proc[d][children[d]] \in Dead
        /\ children \in [Dispatches -> Attempts \union {0}]
        /\ children' = [children EXCEPT ![d] = 0]
        /\ todo \subseteq Dispatches
    BY DEF HInv, HarnessTyped, ReapChild, Visited
  <1>2. children'[d] = 0 /\ \A e \in Dispatches \ {d} : children'[e] = children[e]
    BY <1>1
  <1>3. children[d] # 0 /\ (live[d].attempt # 0 => children[d] = live[d].attempt)
    BY <1>1 DEF HInv, PositionFacts, ProcessFacts
  <1>4. HarnessTyped'
    BY <1>1 DEF HInv, HarnessTyped, ReapChild
  <1>5. PositionFacts'
    BY <1>1, <1>2 DEF HInv, PositionFacts
  <1>6. ASSUME [Next]_ledgerVars, \A e \in Dispatches : Kept(e)
        PROVE  HStep
    <2>1. \A e \in Dispatches : ProcessFacts(e)'
      BY <1>1, <1>2, <1>6, SameProgress, KeptProcessFacts DEF Loose
    <2> QED
      BY <1>4, <1>5, <1>6, <2>1, StepFacts
  <1>7. CASE UNCHANGED ledgerVars
    BY <1>6, <1>7, SameLedgerKept DEF ledgerVars
  <1>8. CASE live[d].attempt = 0 /\ MarkHumanAttentionRequired(d, "none")
    <2>1. Next /\ OnlyRow(d) /\ Kept(d)
      BY <1>8, MarkHumanKept DEF HInv, WorkerGone
    <2> QED
      BY <1>6, <2>1, OthersKept DEF HInv
  <1>9. CASE live[d].attempt # 0 /\ AcknowledgeWorkerCancellationExit(d)
    <2>1. Next /\ OnlyRow(d) /\ Exited(d)
      BY <1>9, AcknowledgeEffect DEF HInv
    <2> QED
      BY <1>1, <1>2, <1>3, <1>4, <1>5, <1>9, <2>1, SameProgress, ExitStep
  <1>10. CASE live[d].attempt # 0 /\
               \E kind \in ExitKindsOf(proc[d][children[d]]) :
                   MarkWorkerExit(d, kind)
    <2>1. PICK kind \in ExitKindsOf(proc[d][children[d]]) : MarkWorkerExit(d, kind)
      BY <1>10
    <2>2. kind \in ExitKinds
      BY <2>1 DEF ExitKindsOf, ExitKinds, RetryClasses
    <2> QED
      BY <1>1, <1>2, <1>3, <1>4, <1>5, <1>10, <2>1, <2>2, WorkerExitStep
  <1> QED
    BY <1>7, <1>8, <1>9, <1>10 DEF ReapChild, RecordChildExit, CloseForHuman

-----------------------------------------------------------------------------
(* Launches, crashes and the worker processes.                             *)

(* The launch starts a process for an attempt that has none. *)
LEMMA PopenStep ==
    ASSUME HInv, Popen
    PROVE  HStep
  <1>1. /\ cur \in Dispatches /\ queue[cur].state \in {"claimed", "starting"}
        /\ live[cur] = NoLiveness /\ <<cur, queue[cur].attempt>> \notin orphans
    BY DEF HInv, PositionFacts, Popen
  <1>2. queue[cur].attempt \in Attempts /\ queue[cur].result = 0
    BY <1>1, AttemptBound DEF HInv, LedgerInv, RowInv, ResultFacts
  <1>3. /\ proc \in [Dispatches -> [Attempts -> {"none"} \union Alive \union Dead]]
        /\ proc' = [proc EXCEPT ![cur][queue[cur].attempt] = "boot"]
        /\ pc' = "popen" /\ pc = "starting"
        /\ UNCHANGED <<ledgerVars, cur, children, orphans>>
        /\ UNCHANGED <<queue, live>>
    BY DEF HInv, HarnessTyped, Popen, Goto, ledgerVars
  <1>4. HarnessTyped'
    BY <1>1, <1>2, <1>3 DEF HInv, HarnessTyped, Popen, Goto
  <1>5. PositionFacts'
    BY <1>1, <1>2, <1>3 DEF PositionFacts
  <1>6. ProcessFacts(cur)'
    <2>1. ASSUME NEW a \in Attempts, proc'[cur][a] \in Alive, <<cur, a>> \notin orphans
          PROVE  a = queue[cur].attempt
      <3>1. CASE proc[cur][a] \in Alive
        BY <1>1, <2>1, <3>1 DEF HInv, ProcessFacts
      <3>2. CASE proc[cur][a] \notin Alive
        BY <1>1, <1>2, <1>3, <2>1, <3>2
      <3> QED
        BY <3>1, <3>2
    <2>2. ProcessFacts(cur)
      BY <1>1 DEF HInv
    <2> QED
      BY <1>1, <1>2, <1>3, <2>1, <2>2 DEF ProcessFacts, Loose
  <1>7. \A e \in Dispatches \ {cur} : proc'[e] = proc[e]
    BY <1>3
  <1>8. OnlyRow(cur)
    BY <1>1, <1>3 DEF OnlyRow, ledgerVars, HInv, LedgerInv, TypeOK
  <1>9. \A e \in Dispatches : ProcessFacts(e)'
    BY <1>1, <1>3, <1>6, <1>7, <1>8, RowProcess DEF Loose
  <1> QED
    BY <1>3, <1>4, <1>5, <1>9, StepFacts

(* The process started is bound to the row it was started for, or killed. *)
LEMMA BindChildStep ==
    ASSUME HInv, BindChild
    PROVE  HStep
  <1>0. PICK d \in Dispatches : d = cur
    BY DEF HInv, PositionFacts, BindChild
  <1>1. /\ queue[d].state \in {"claimed", "starting"}
        /\ live[d] = NoLiveness /\ <<d, queue[d].attempt>> \notin orphans
        /\ proc[d][queue[d].attempt] # "none" /\ pc = "popen"
    BY <1>0 DEF HInv, PositionFacts, BindChild
  <1>2. /\ queue[d].attempt \in Attempts /\ queue[d].attempt # 0
        /\ queue[d].result = 0 /\ queue[d] \in QueueRow
        /\ queue \in [Dispatches -> QueueRow] /\ live \in [Dispatches -> LivenessRow]
    BY <1>1, RowOf, AttemptBound DEF HInv, LedgerInv, RowInv, ResultFacts, AttemptFacts
  <1>3. /\ queue'[d].attempt = queue[d].attempt /\ queue'[d].result = 0
        /\ live'[d] = [attempt |-> queue[d].attempt, exited |-> FALSE]
    BY <1>0, <1>1, <1>2 DEF BindChild, BindWorkerLiveness, QueueRow
  <1>4. /\ UNCHANGED <<proc, orphans>> /\ pc' = back /\ pc' \in {"loop", "continue"}
        /\ children' = [children EXCEPT ![d] = queue[d].attempt]
        /\ children \in [Dispatches -> Attempts \union {0}]
    BY <1>0 DEF HInv, HarnessTyped, BindChild
  <1>5. HarnessTyped' /\ PositionFacts'
    BY <1>1, <1>2, <1>4, FreePosition DEF HInv, HarnessTyped, BindChild
  <1>6. ProcessFacts(d)'
    <2>1. ProcessFacts(d)
      BY <1>1 DEF HInv
    <2>2. children'[d] = queue[d].attempt
      BY <1>1, <1>4
    <2> QED
      BY <1>1, <1>2, <1>3, <1>4, <2>1, <2>2 DEF ProcessFacts, Loose
  <1>7. Next /\ OnlyRow(d)
    BY <1>0, <1>1, LedgerRow DEF BindChild, LaunchStep, HInv
  <1>8. \A e \in Dispatches \ {d} : children'[e] = children[e] /\ proc'[e] = proc[e]
    BY <1>4
  <1>9. \A e \in Dispatches : ProcessFacts(e)'
    BY <1>1, <1>4, <1>6, <1>7, <1>8, <1>0, RowProcess DEF Loose
  <1> QED
    BY <1>5, <1>7, <1>9, StepFacts

\* A process that was launched and never bound is on its own from now on.
LEMMA AbandonedProcessFacts ==
    ASSUME HInv, NEW d \in Dispatches, Loose(d),
           queue'[d].attempt = queue[d].attempt, queue'[d].result = queue[d].result,
           queue'[d].state \notin {"absent", "queued"}, live'[d] = live[d],
           Progresses(d), children'[d] \in {0, children[d]}, pc' # "popen",
           orphans' = orphans \union {<<d, queue[d].attempt>>}
    PROVE  ProcessFacts(d)'
  <1>1. /\ ProcessFacts(d) /\ live[d] = NoLiveness
        /\ queue[d].attempt \in Attempts /\ queue[d].attempt \in Nat
    BY RowOf, AttemptBound DEF HInv, PositionFacts, Loose, LedgerInv, QueueRow
  <1>2. \A a \in Attempts : a \in Int /\ a # 0
    BY BudgetAssumption DEF Attempts, Greater, ProviderBudget, RetryClasses
  <1>3. \A a \in Attempts : proc[d][a] \in Alive => <<d, a>> \in orphans'
    BY <1>1, <1>2 DEF ProcessFacts
  <1>4. \A a \in Attempts : <<d, a>> \in orphans' =>
            a <= queue[d].attempt
    BY <1>1 DEF ProcessFacts
  <1> QED
    BY <1>1, <1>2, <1>3, <1>4 DEF ProcessFacts, Progresses, Progress

\* Nothing happens to the processes of the other dispatches.
LEMMA UnboundTyped ==
    ASSUME HInv
    PROVE  /\ Unbound \subseteq Dispatches \X Attempts
           /\ \A d \in Dispatches : ~Loose(d) =>
                 \A a \in Attempts : <<d, a>> \notin Unbound
           /\ \A d \in Dispatches : Loose(d) => Unbound = {<<d, queue[d].attempt>>}
  BY AttemptBound DEF HInv, PositionFacts, Unbound, Loose

\* close() ends the children; nothing else becomes of a process.
LEMMA CloseEffect ==
    ASSUME HInv, Close
    PROVE  /\ proc' \in [Dispatches -> [Attempts -> {"none"} \union Alive \union Dead]]
           /\ \A d \in Dispatches : Progresses(d)
  <1>1. proc \in [Dispatches -> [Attempts -> {"none"} \union Alive \union Dead]]
    BY DEF HInv, HarnessTyped
  <1>2. ASSUME NEW d \in Dispatches, NEW a \in Attempts
        PROVE  /\ proc'[d][a] \in {"none"} \union Alive \union Dead
               /\ Progress(proc[d][a], proc'[d][a])
    <2>1. proc[d][a] \in {"none"} \union Alive \union Dead
      BY <1>1
    <2>2. proc'[d][a] = proc[d][a] \/ proc'[d][a] = Killed(proc[d][a])
      BY DEF Close
    <2> QED
      BY <2>1, <2>2, KilledProgress
  <1> QED
    BY <1>2 DEF Close, Progresses

\* The harness is gone, with the processes it had not bound.
LEMMA DownStep ==
    ASSUME HInv, [Next]_ledgerVars, Down, orphans' = orphans \union Unbound,
           \A d \in Dispatches : Progresses(d) /\ Kept(d),
           \A d \in Dispatches : Loose(d) =>
               queue'[d].attempt = queue[d].attempt
                   /\ queue'[d].state \notin {"absent", "queued"},
           proc' \in [Dispatches -> [Attempts -> {"none"} \union Alive \union Dead]]
    PROVE  HStep
  <1>1. HarnessTyped' /\ PositionFacts'
    BY UnboundTyped DEF HInv, HarnessTyped, Down, PositionFacts, NoChildren
  <1>2. \A d \in Dispatches : children'[d] = 0 /\ ~Loose(d)'
    BY DEF Down, NoChildren, Loose
  <1>3. ASSUME NEW d \in Dispatches PROVE ProcessFacts(d)'
    <2>1. CASE Loose(d)
      BY <1>2, <2>1, UnboundTyped, AbandonedProcessFacts DEF Kept, Down
    <2>2. CASE ~Loose(d)
      <3>1. \A a \in Attempts : <<d, a>> \in orphans' <=> <<d, a>> \in orphans
        BY <2>2, UnboundTyped
      <3> QED
        BY <1>2, <2>2, <3>1, KeptProcessFacts
    <2> QED
      BY <2>1, <2>2
  <1> QED
    BY <1>1, <1>3, StepFacts

(* The harness dies: its children become orphans, its files stay. *)
LEMMA CrashStep ==
    ASSUME HInv, Crash
    PROVE  HStep
  <1>1. UNCHANGED <<queue, live>> /\ UNCHANGED ledgerVars
    BY DEF Crash, ledgerVars
  <1>2. \A d \in Dispatches : Loose(d) => queue[d].state \notin {"absent", "queued"}
    BY DEF HInv, PositionFacts, Loose
  <1>3. proc' \in [Dispatches -> [Attempts -> {"none"} \union Alive \union Dead]]
    BY DEF HInv, HarnessTyped, Crash
  <1> QED
    BY <1>1, <1>2, <1>3, SameLedgerKept, SameProgress, DownStep DEF Crash

(* An orderly shutdown kills the children it knows. *)
LEMMA ShutdownStep ==
    ASSUME HInv, Shutdown
    PROVE  HStep
  <1>1. Next /\ UNCHANGED <<queue, live>>
    BY DEF Shutdown, RequestHarnessShutdown, Next, HarnessStep
  <1>2. Unbound = {} /\ \A d \in Dispatches : ~Loose(d)
    BY DEF Shutdown, Unbound, Loose
  <1> QED
    BY <1>1, <1>2, SameLedgerKept, CloseEffect, DownStep DEF Shutdown, Close

\* A worker that cannot be bound leaves a closed claim behind.
LEMMA BindFailsStep ==
    ASSUME HInv, BindFails
    PROVE  HStep
  <1>0. PICK d \in Dispatches : d = cur
    BY DEF HInv, PositionFacts, BindFails
  <1>1. WorkerGone(d) /\ queue[d].state \in {"claimed", "starting"} /\ Loose(d)
    BY <1>0 DEF HInv, PositionFacts, BindFails, WorkerGone, Loose
  <1>2. Next /\ OnlyRow(d) /\ Kept(d)
    BY <1>0, <1>1, MarkHumanKept DEF HInv, BindFails
  <1>3. \A e \in Dispatches : Kept(e)
    BY <1>2, OthersKept DEF HInv
  <1>4. /\ queue'[d].attempt = queue[d].attempt
        /\ queue'[d].state \notin {"absent", "queued"}
    BY <1>1, <1>2 DEF Kept, HInv, AttemptFacts
  <1>5. \A e \in Dispatches : Loose(e) => e = d
    BY <1>0 DEF Loose
  <1>6. CASE Close
    BY <1>2, <1>3, <1>4, <1>5, <1>6, CloseEffect, DownStep DEF BindFails, Close
  <1>7. CASE /\ pc' = "continue" /\ cur' = 0 /\ back' = "loop"
             /\ UNCHANGED <<todo, children, reaped, proc>>
    <2>1. HarnessTyped' /\ PositionFacts'
      BY <1>7, UnboundTyped, FreePosition DEF HInv, HarnessTyped, BindFails
    <2>2. \A e \in Dispatches : ~Loose(e)' /\ Progresses(e)
      BY <1>7, SameProgress DEF Loose
    <2>3. ProcessFacts(d)'
      BY <1>1, <1>2, <1>4, <1>7, <2>2, UnboundTyped, AbandonedProcessFacts
         DEF Kept, BindFails
    <2>4. ASSUME NEW e \in Dispatches \ {d} PROVE ProcessFacts(e)'
      <3>1. \A a \in Attempts : <<e, a>> \in orphans' <=> <<e, a>> \in orphans
        BY <1>5, UnboundTyped DEF BindFails
      <3> QED
        BY <1>3, <1>5, <1>7, <2>2, <3>1, KeptProcessFacts
    <2> QED
      BY <1>2, <2>1, <2>3, <2>4, StepFacts
  <1> QED
    BY <1>6, <1>7 DEF BindFails

\* A worker process goes on or dies; the tables do not notice.
LEMMA ProcessStep ==
    ASSUME HInv, NEW d \in Dispatches, NEW a \in Attempts, NEW q,
           q \in {"none"} \union Alive \union Dead, Progress(proc[d][a], q),
           proc' = [proc EXCEPT ![d][a] = q]
    PROVE  /\ proc' \in [Dispatches -> [Attempts -> {"none"} \union Alive \union Dead]]
           /\ \A e \in Dispatches : Progresses(e)
  <1>1. proc \in [Dispatches -> [Attempts -> {"none"} \union Alive \union Dead]]
    BY DEF HInv, HarnessTyped
  <1>2. proc' \in [Dispatches -> [Attempts -> {"none"} \union Alive \union Dead]]
    BY <1>1
  <1>3. ASSUME NEW e \in Dispatches, NEW b \in Attempts
        PROVE  Progress(proc[e][b], proc'[e][b])
    <2>1. CASE e = d /\ b = a
      BY <1>1, <2>1
    <2>2. CASE ~(e = d /\ b = a)
      <3>1. proc'[e][b] = proc[e][b] /\ proc[e][b] \in {"none"} \union Alive \union Dead
        BY <1>1, <2>2
      <3> QED
        BY <3>1, KilledProgress
    <2> QED
      BY <2>1, <2>2
  <1> QED
    BY <1>2, <1>3 DEF Progresses

(* The worker process runs on its own and touches no row. *)
LEMMA WorkerStep ==
    ASSUME HInv, Worker
    PROVE  HStep
  <1>1. PICK d \in Dispatches, a \in Attempts : WorkerFinishes(d, a) \/ WorkerDies(d, a)
    BY DEF Worker
  <1>2. /\ UNCHANGED <<pc, todo, cur, children, orphans>> /\ UNCHANGED <<queue, live>>
        /\ UNCHANGED ledgerVars
    BY <1>1 DEF WorkerFinishes, WorkerDies, ledgerVars
  <1>3. /\ proc \in [Dispatches -> [Attempts -> {"none"} \union Alive \union Dead]]
        /\ proc[d][a] \in {"none"} \union Alive \union Dead
    BY DEF HInv, HarnessTyped
  <1>4. /\ proc' \in [Dispatches -> [Attempts -> {"none"} \union Alive \union Dead]]
        /\ \A e \in Dispatches : Progresses(e)
    <2>1. CASE WorkerFinishes(d, a)
      <3>1. Progress(proc[d][a], "done")
        BY <2>1, DeadPhases DEF WorkerFinishes, Progress, Dead, DeadOf
      <3> QED
        BY <2>1, <3>1, ProcessStep DEF WorkerFinishes
    <2>2. CASE WorkerDies(d, a)
      <3>1. proc' = [proc EXCEPT ![d][a] = Killed(proc[d][a])]
        BY <1>3, <2>2 DEF WorkerDies
      <3>2. /\ Progress(proc[d][a], Killed(proc[d][a]))
            /\ Killed(proc[d][a]) \in {"none"} \union Alive \union Dead
        BY <1>3, KilledProgress
      <3> QED
        BY <3>1, <3>2, ProcessStep
    <2> QED
      BY <1>1, <2>1, <2>2
  <1>5. HarnessTyped'
    BY <1>1, <1>4 DEF HInv, HarnessTyped, WorkerFinishes, WorkerDies
  <1>6. PositionFacts'
    BY <1>2, <1>4, PositionKept
  <1>7. \A e \in Dispatches : ProcessFacts(e)'
    BY <1>2, <1>4, SameLedgerKept, KeptProcessFacts DEF Loose
  <1> QED
    BY <1>2, <1>5, <1>6, <1>7, StepFacts

(* A worker's own request binds it to the attempt it was started for. *)
LEMMA BindWorkerStep ==
    ASSUME HInv, NEW d \in Dispatches, NEW a \in Attempts, BindWorker(d, a)
    PROVE  HStep
  <1>1. /\ queue[d].attempt = a /\ queue[d].thread \in Nat
        /\ queue[d].thread <= queue[d].attempt /\ a \in Nat /\ a >= 1
    BY RowOf, BudgetAssumption DEF HInv, LedgerInv, AttemptFacts, QueueRow, BindWorker,
       ServesWorker, Attempts, Greater, ProviderBudget, RetryClasses
  <1>2. \E t \in 1..queue[d].attempt : BindWorkerThread(d, t)
    BY <1>1 DEF BindWorker
  <1>3. Next /\ OnlyRow(d) /\ Kept(d)
    BY <1>2, CalmKept DEF HInv, Calm
  <1>4. Progress(proc[d][a], "turn")
    BY DeadPhases DEF BindWorker, Progress, Dead, DeadOf
  <1>5. /\ proc' \in [Dispatches -> [Attempts -> {"none"} \union Alive \union Dead]]
        /\ \A e \in Dispatches : Progresses(e)
    BY <1>4, ProcessStep DEF BindWorker
  <1>6. /\ HarnessTyped' /\ PositionFacts' /\ UNCHANGED <<pc, cur, children, orphans>>
    BY <1>5, FreePosition DEF HInv, HarnessTyped, BindWorker, ServesWorker
  <1>7. \A e \in Dispatches : Kept(e)
    BY <1>3, OthersKept DEF HInv
  <1>8. \A e \in Dispatches : ProcessFacts(e)'
    BY <1>5, <1>6, <1>7, KeptProcessFacts DEF Loose
  <1> QED
    BY <1>3, <1>6, <1>8, StepFacts

-----------------------------------------------------------------------------
(* The system.                                                             *)

\* Nothing has been enqueued or launched.
LEMMA HInvInit == HInit => HInv
  <1> SUFFICES ASSUME HInit PROVE HInv
    OBVIOUS
  <1>1. LedgerInv
    BY LedgerInvInit DEF HInit
  <1>2. HarnessTyped /\ PositionFacts
    BY DEF HInit, HarnessTyped, PositionFacts, NoChildren
  <1>3. ASSUME NEW d \in Dispatches PROVE AttemptFacts(d) /\ ProcessFacts(d)
    <2>1. /\ queue[d] = NoDispatch /\ live[d] = NoLiveness
          /\ recovery[d] = NewRecovery /\ policy[d] = NewPolicy
      BY DEF HInit, Init
    <2>2. AttemptFacts(d)
      BY <2>1, BudgetAssumption DEF AttemptFacts, NoDispatch, NewRecovery, NewPolicy,
         AttemptLimit, Greater, ProviderBudget, RetryClasses
    <2>3. ProcessFacts(d)
      BY <2>1 DEF HInit, ProcessFacts, NoDispatch
    <2> QED
      BY <2>2, <2>3
  <1> QED
    BY <1>1, <1>2, <1>3 DEF HInv

\* Every step of the harness, its workers and its surroundings keeps HInv and
\* does to the tables what a step of the ledger may do.
LEMMA HNextStep == HInv /\ [HNext]_vars => HStep
  <1> SUFFICES ASSUME HInv, [HNext]_vars PROVE HStep
    OBVIOUS
  <1>1. CASE UNCHANGED vars
    <2>1. UNCHANGED ledgerVars /\ UNCHANGED <<queue, live>>
      BY <1>1 DEF vars, ledgerVars
    <2>2. HarnessTyped' /\ UNCHANGED <<pc, cur, todo, children, proc, orphans>>
      BY <1>1 DEF vars, harnessVars, HInv, HarnessTyped
    <2>3. PositionFacts'
      BY <2>1, <2>2, SameProgress, PositionKept
    <2> QED
      BY <2>1, <2>2, <2>3, SameLedgerKept, QuietStep DEF Loose
  <1>2. CASE Start \/ LeaseRunsOut
    BY <1>2, ServiceSteps
  <1>3. CASE Crash
    BY <1>3, CrashStep
  <1>4. CASE Proceed
    <2>1. CASE RecoverOnce \/ StageDone \/ RenewalTick \/ ReapDone
      BY <2>1, ServiceSteps
    <2>2. CASE ProcessOnce \/ StopWorker
      BY <2>2, ProcessOnceStep, StopWorkerStep
    <2>3. CASE Spawn
      BY <2>3, PrepareStep, PopenStep, BindChildStep, SpawnFailsStep, BindFailsStep
         DEF Spawn
    <2>4. ASSUME NEW d \in Dispatches, Scan(d) PROVE HStep
      BY <2>4, AdvancePendingStep, RecoverRetainedStep, QuietRequests, ReconcileStep,
         RecoverExitedStep, ContinueDispatchStep, ServiceSteps, ReapChildStep DEF Scan
    <2> QED
      BY <1>4, <2>1, <2>2, <2>3, <2>4 DEF Proceed
  <1>5. CASE Request
    <2>1. CASE Wake \/ Shutdown
      BY <2>1, ServiceSteps, ShutdownStep
    <2>2. ASSUME NEW d \in Dispatches, RecoveryAction(d) PROVE HStep
      BY <2>2, RetryHStep, QuietRequests
    <2>3. ASSUME NEW d \in Dispatches, NEW a \in Attempts,
                 BindWorker(d, a) \/ Heartbeat(d, a) \/ SubmitResult(d, a)
          PROVE  HStep
      BY <2>3, BindWorkerStep, QuietRequests, SubmitResultStep
    <2> QED
      BY <1>5, <2>1, <2>2, <2>3 DEF Request
  <1>6. CASE Worker \/ Outside
    BY <1>6, WorkerStep, OutsideStep
  <1> QED
    BY <1>1, <1>2, <1>3, <1>4, <1>5, <1>6 DEF HNext

(* The inductive invariant: what the tables, the thread and the processes  *)
(* say of each other in every state the supervisor can be in.              *)
THEOREM HarnessInvariant == HSpec => []HInv
  <1>1. HInv /\ [HNext]_vars => HInv'
    BY HNextStep DEF HStep
  <1> QED
    BY <1>1, HInvInit, PTL DEF HSpec

(* The thread never works on a row that is not there, and no attempt       *)
(* exceeds what the budgets and MaxAttempt admit.                          *)
THEOREM HarnessTypeCorrect == HSpec => []HTypeOK
  <1>1. HInv => HTypeOK
    BY DEF HInv, HarnessTyped, HTypeOK, LedgerInv
  <1> QED
    BY <1>1, HarnessInvariant, PTL

(* Neither the reaper, a restart nor a cancellation declares a running     *)
(* worker gone.                                                            *)
THEOREM ExitsAreReal == HSpec => []RecordedExitsAreReal
  <1>1. HInv => RecordedExitsAreReal
    BY DEF HInv, ProcessFacts, RecordedExitsAreReal
  <1> QED
    BY <1>1, HarnessInvariant, PTL

(* Whoever delivers a result, a worker of the dispatch had produced it.    *)
THEOREM ResultsHaveProducers == HSpec => []ResultsAreProduced
  <1>1. HInv => ResultsAreProduced
    BY DEF HInv, ProcessFacts, ResultsAreProduced
  <1> QED
    BY <1>1, HarnessInvariant, PTL

(* Two workers of a dispatch never run at once, unless one of them was     *)
(* launched and lost before it was bound.                                  *)
THEOREM OneWorkerRuns == HSpec => []OneWorkerPerDispatch
  <1>1. HInv => OneWorkerPerDispatch
    BY DEF HInv, ProcessFacts, OneWorkerPerDispatch
  <1> QED
    BY <1>1, HarnessInvariant, PTL

(* Whoever records a cancellation has seen the bound worker end.           *)
THEOREM CancelledWorkStops == HSpec => []CancelledWorkIsStopped
  <1>1. ASSUME HInv, NEW d \in Dispatches, queue[d].state = "cancelled",
               NEW a \in Attempts, proc[d][a] \in Alive
        PROVE  <<d, a>> \in orphans
    <2>1. live[d].attempt # 0 => proc[d][live[d].attempt] \in Dead
      BY <1>1 DEF HInv, LedgerInv, RowInv, LivenessFacts, ProcessFacts
    <2>2. ~Loose(d)
      BY <1>1 DEF HInv, PositionFacts, Loose
    <2>3. a \in Int /\ a # 0
      BY BudgetAssumption DEF Attempts, Greater, ProviderBudget, RetryClasses
    <2> QED
      BY <1>1, <2>1, <2>2, <2>3, DeadPhases DEF HInv, ProcessFacts
  <1>2. HInv => CancelledWorkIsStopped
    BY <1>1 DEF CancelledWorkIsStopped
  <1> QED
    BY <1>2, HarnessInvariant, PTL

(* The supervisor with its processes does nothing to the tables that the   *)
(* ledger's own specification does not allow: what is proved of every      *)
(* order of ledger calls holds of the running system.                      *)
THEOREM HarnessImplementsLedger == HSpec => Spec
  <1>1. HInit => Init
    BY DEF HInit
  <1>2. HInv /\ [HNext]_vars => [Next]_ledgerVars
    BY HNextStep DEF HStep
  <1> QED
    BY <1>1, <1>2, HarnessInvariant, PTL DEF HSpec, Spec

=============================================================================
