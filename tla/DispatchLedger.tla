--------------------------- MODULE DispatchLedger ---------------------------
(***************************************************************************)
(* The dispatch part of the durable ledger (src/codex_flow/ledger.py): the *)
(* SQLite tables that say who may run a dispatch, which worker attempt is  *)
(* current, what became of it and how it is recovered.  One variable per   *)
(* table, one action per Ledger method, every action one transaction.      *)
(*                                                                         *)
(* Identities are numbers: a dispatch is its queue sequence, a worker      *)
(* process, its token and its result are the attempt that owns them, an    *)
(* SDK thread is the attempt that created it; 0 stands for NULL.  A time   *)
(* is only "in the future" or "due".  The revision counter of              *)
(* retry_policies is left out: an operator action carries the revision it  *)
(* read and is refused when it is stale, so only current readers act.      *)
(***************************************************************************)
EXTENDS Integers

CONSTANTS
    Dispatches,          \* the sequence numbers of the dispatch queue
    InspectionBudget,    \* recovery_state.inspection_budget (4)
    ContinuationBudget,  \* the default continuation_budget (1)
    RetryBudget,         \* retry_policies.*_budget at enqueue (5, 1, 2, 3)
    MaxAttempt,          \* bound: no operator RETRY from this attempt on
    MaxEpoch             \* bound: the number of harness acquisitions

VARIABLES
    queue,         \* dispatch_queue
    cap,           \* attempt_capabilities
    live,          \* worker_liveness
    recovery,      \* recovery_state
    policy,        \* retry_policies
    cancelAction,  \* recovery_controls holds a cancel action
    authority      \* harness_authority

ledgerVars == <<queue, cap, live, recovery, policy, cancelAction, authority>>

-----------------------------------------------------------------------------
(* The retryable failure classes a worker exit code can name, and the      *)
(* other outcomes of an exit: "closed" stands for every class that is      *)
(* never retried, "unknown" for an exit nobody classified.                 *)
RetryClasses ==
    {"pre_identity_transport", "invalid_response_chain", "schema_envelope",
     "provider_transient"}

ExitKinds == RetryClasses \union {"closed", "result_transport", "unknown"}

Failures == ExitKinds \union {"none", "profile"}

Strategy ==
    [c \in RetryClasses |->
        CASE c = "pre_identity_transport" -> "backoff"
          [] c = "invalid_response_chain" -> "fresh_thread"
          [] c = "schema_envelope" -> "same_thread_schema_correction"
          [] OTHER -> "same_thread_continuation"]

Strategies ==
    {"none", "backoff", "fresh_thread", "same_thread_schema_correction",
     "same_thread_continuation", "human_attention_required"}

Active    == {"claimed", "starting", "running"}
Recovering == {"recovery_inspection_pending", "recovery_retry_wait",
               "recovery_continuation_pending"}
ResultStates == {"completed", "failed"}
Terminal  == ResultStates \union {"cancelled"}
QueueStates == {"absent", "queued", "human_attention_required"}
                   \union Active \union Recovering \union Terminal

Waits == {"none", "future", "due"}

ASSUME BudgetAssumption ==
    /\ Dispatches \subseteq Nat
    /\ InspectionBudget \in Nat /\ ContinuationBudget \in Nat
    /\ RetryBudget \in [RetryClasses -> Nat]
    /\ MaxAttempt \in Nat /\ MaxEpoch \in Nat

(* The provider budget is not an operator's to set; one extra unit may be  *)
(* granted once.                                                           *)
ProviderBudget == RetryBudget["provider_transient"]

NoCapability == [attempt |-> 0, status |-> "none"]
NoLiveness   == [attempt |-> 0, exited |-> FALSE]

NoDispatch ==
    [state |-> "absent", attempt |-> 0, epoch |-> 0, thread |-> 0,
     result |-> 0, ready |-> FALSE]

NewRecovery ==
    [kind |-> "none", inspUsed |-> 0, contUsed |-> 0,
     contBudget |-> ContinuationBudget, fresh |-> FALSE, freshUsed |-> 0,
     freshBudget |-> 0, wait |-> "none", inspected |-> FALSE]

NewPolicy ==
    [used |-> [c \in RetryClasses |-> 0], budget |-> RetryBudget,
     grant |-> 0, lastFailure |-> "none", strategy |-> "none"]

Init ==
    /\ queue = [d \in Dispatches |-> NoDispatch]
    /\ cap = [d \in Dispatches |-> NoCapability]
    /\ live = [d \in Dispatches |-> NoLiveness]
    /\ recovery = [d \in Dispatches |-> NewRecovery]
    /\ policy = [d \in Dispatches |-> NewPolicy]
    /\ cancelAction = [d \in Dispatches |-> FALSE]
    /\ authority = [epoch |-> 0, leased |-> FALSE, fenced |-> FALSE]

-----------------------------------------------------------------------------
(* The harness lease and the refresh fence.                                *)

(* A replacement needs the lease to have run out or to be fenced; it gets  *)
(* a new epoch and an open fence.                                          *)
AcquireHarness ==
    /\ authority.leased => authority.fenced
    /\ authority.epoch < MaxEpoch
    /\ authority' = [epoch |-> authority.epoch + 1, leased |-> TRUE,
                     fenced |-> FALSE]
    /\ UNCHANGED <<queue, cap, live, recovery, policy, cancelAction>>

LeaseExpires ==
    /\ authority.leased
    /\ authority' = [authority EXCEPT !.leased = FALSE]
    /\ UNCHANGED <<queue, cap, live, recovery, policy, cancelAction>>

(* Renewal checks the epoch and the owner, not the expiry.                 *)
RenewHarness ==
    /\ authority.epoch # 0
    /\ authority' = [authority EXCEPT !.leased = TRUE]
    /\ UNCHANGED <<queue, cap, live, recovery, policy, cancelAction>>

NoActiveChildren ==
    \A d \in Dispatches :
        /\ queue[d].state \notin Active
        /\ live[d].attempt # 0 => live[d].exited

ArmHarnessRefreshFence ==
    /\ authority.epoch # 0
    /\ NoActiveChildren
    /\ authority' = [authority EXCEPT !.fenced = TRUE]
    /\ UNCHANGED <<queue, cap, live, recovery, policy, cancelAction>>

RequestHarnessShutdown ==
    /\ authority.epoch # 0
    /\ authority' = [authority EXCEPT !.fenced = TRUE]
    /\ UNCHANGED <<queue, cap, live, recovery, policy, cancelAction>>

-----------------------------------------------------------------------------
(* Queueing and launching.                                                 *)

EnqueueDispatch(d) ==
    /\ queue[d].state = "absent"
    /\ ~authority.fenced
    /\ \A e \in Dispatches : e < d => queue[e].state # "absent"
    /\ queue' = [queue EXCEPT ![d] =
                    [NoDispatch EXCEPT !.state = "queued", !.attempt = 1,
                                       !.ready = TRUE]]
    /\ recovery' = [recovery EXCEPT ![d] = NewRecovery]
    /\ policy' = [policy EXCEPT ![d] = NewPolicy]
    /\ UNCHANGED <<cap, live, cancelAction, authority>>

(* Every way of cancelling a row ends here: the capability is revoked, the *)
(* claim, the retry strategy and the recovery decision are dropped.        *)
CancelQueueRow(d, liveness) ==
    /\ queue' = [queue EXCEPT ![d].state = "cancelled", ![d].epoch = 0]
    /\ cap' = [cap EXCEPT ![d] = NoCapability]
    /\ live' = [live EXCEPT ![d] = liveness]
    /\ recovery' = [recovery EXCEPT ![d].kind = "none", ![d].wait = "none",
                                    ![d].inspected = FALSE]
    /\ policy' = [policy EXCEPT ![d].strategy = "none"]

Claimable(d) == queue[d].state = "queued" /\ queue[d].ready

(* The oldest due row is claimed, or cancelled when the execution it       *)
(* belongs to was cancelled meanwhile.                                     *)
ClaimQueueDispatch(d) ==
    /\ authority.leased /\ ~authority.fenced
    /\ Claimable(d)
    /\ \A e \in Dispatches : e < d => ~Claimable(e)
    /\ \/ /\ queue' = [queue EXCEPT ![d].state = "claimed",
                                    ![d].epoch = authority.epoch]
          /\ UNCHANGED <<cap, live, recovery, policy>>
       \/ CancelQueueRow(d, NoLiveness)
    /\ UNCHANGED <<cancelAction, authority>>

CanConfigure(d) ==
    /\ recovery[d].inspUsed <= InspectionBudget
    /\ recovery[d].contUsed <= ContinuationBudget
    /\ recovery[d].freshUsed <= 0

(* Every launch writes the default recovery budgets again, and is refused  *)
(* when more than the default was already consumed.                        *)
ConfigureRecovery(d) ==
    /\ CanConfigure(d)
    /\ recovery' = [recovery EXCEPT ![d].contBudget = ContinuationBudget,
                                    ![d].fresh = FALSE, ![d].freshBudget = 0]
    /\ UNCHANGED <<queue, cap, live, policy, cancelAction, authority>>

(* A capability already issued carries another token, which conflicts.     *)
IssueAttemptCapability(d) ==
    /\ queue[d].state = "claimed"
    /\ cap[d] = NoCapability
    /\ cap' = [cap EXCEPT ![d] = [attempt |-> queue[d].attempt,
                                  status |-> "valid"]]
    /\ UNCHANGED <<queue, live, recovery, policy, cancelAction, authority>>

SetQueueStarting(d) ==
    /\ authority.leased
    /\ queue[d].epoch = authority.epoch
    /\ queue[d].state \in {"claimed", "starting"}
    /\ queue' = [queue EXCEPT ![d].state = "starting"]
    /\ UNCHANGED <<cap, live, recovery, policy, cancelAction, authority>>

(* The lease of a capability that was not consumed is extended.            *)
RenewedCapability(d) ==
    IF cap[d].status = "expired" THEN [cap[d] EXCEPT !.status = "valid"]
                                 ELSE cap[d]

(* The claim, the attempt and the token must be the current ones.          *)
OwnsClaim(d) ==
    /\ authority.leased
    /\ queue[d].epoch = authority.epoch
    /\ cap[d].attempt # 0 /\ cap[d].attempt = queue[d].attempt

BindWorkerLiveness(d) ==
    /\ OwnsClaim(d)
    /\ queue[d].state \in Active
    /\ live[d] = NoLiveness
    /\ live' = [live EXCEPT ![d] = [attempt |-> queue[d].attempt,
                                    exited |-> FALSE]]
    /\ cap' = [cap EXCEPT ![d] = RenewedCapability(d)]
    /\ queue' = [queue EXCEPT ![d].state =
                    IF @ = "claimed" THEN "starting" ELSE @]
    /\ UNCHANGED <<recovery, policy, cancelAction, authority>>

BindWorkerThread(d, t) ==
    /\ OwnsClaim(d)
    /\ queue[d].thread \in {0, t}
    /\ queue[d].state \in Active
    /\ queue' = [queue EXCEPT ![d].state = "running", ![d].thread = t]
    /\ UNCHANGED <<cap, live, recovery, policy, cancelAction, authority>>

RenewWorkerLiveness(d) ==
    /\ authority.leased
    /\ live[d].attempt # 0
    /\ queue[d].state \in {"starting", "running"}
    /\ cap' = [cap EXCEPT ![d] = RenewedCapability(d)]
    /\ UNCHANGED <<queue, live, recovery, policy, cancelAction, authority>>

CapabilityExpires(d) ==
    /\ cap[d].status = "valid"
    /\ cap' = [cap EXCEPT ![d].status = "expired"]
    /\ UNCHANGED <<queue, live, recovery, policy, cancelAction, authority>>

AdoptLiveWorker(d) ==
    /\ authority.leased
    /\ live[d].attempt # 0 /\ ~live[d].exited
    /\ queue[d].state \in Active
    /\ queue' = [queue EXCEPT ![d].epoch = authority.epoch]
    /\ UNCHANGED <<cap, live, recovery, policy, cancelAction, authority>>

-----------------------------------------------------------------------------
(* Worker exit.                                                            *)

InspectionsSpent(d) == recovery[d].inspUsed >= InspectionBudget

AfterExit(d) ==
    IF InspectionsSpent(d) THEN "human_attention_required"
                           ELSE "recovery_inspection_pending"

(* Mutant: the inspection of a provider failure is given back.             *)
InspectionsAfterExit_Refund(d, kind) ==
    IF kind = "provider_transient" THEN recovery[d].inspUsed - 1
                                   ELSE recovery[d].inspUsed

(* A provider failure is already typed: its inspection is counted when the *)
(* thread is read, every other one here.                                   *)
InspectionsAfterExit(d, kind) ==
    IF InspectionsSpent(d) \/ kind = "provider_transient"
    THEN recovery[d].inspUsed ELSE recovery[d].inspUsed + 1

(* Mutant: off by one at the budget.                                       *)
Retryable_OffByOne(d, kind) ==
    /\ kind \in RetryClasses
    /\ policy[d].used[kind] <= policy[d].budget[kind]

Retryable(d, kind) ==
    /\ kind \in RetryClasses
    /\ policy[d].used[kind] < policy[d].budget[kind]

Greater(m, n) == IF m >= n THEN m ELSE n

(* Mutant: the capability of the old attempt is not revoked.               *)
Requeue_KeepsCapability(d, ready) ==
    /\ queue' = [queue EXCEPT ![d].state = "queued", ![d].epoch = 0,
                              ![d].attempt = @ + 1, ![d].thread = 0,
                              ![d].ready = ready]
    /\ live' = [live EXCEPT ![d] = NoLiveness]
    /\ UNCHANGED cap

(* Back to the queue under the next attempt: nothing of the old attempt    *)
(* may remain.                                                             *)
Requeue(d, ready) ==
    /\ queue' = [queue EXCEPT ![d].state = "queued", ![d].epoch = 0,
                              ![d].attempt = @ + 1, ![d].thread = 0,
                              ![d].ready = ready]
    /\ cap' = [cap EXCEPT ![d] = NoCapability]
    /\ live' = [live EXCEPT ![d] = NoLiveness]

ExitRequeued(d, kind) ==
    /\ kind = "pre_identity_transport" /\ Retryable(d, kind)
    /\ Requeue(d, FALSE)
    /\ recovery' = [recovery EXCEPT ![d].kind = "none", ![d].wait = "none",
                        ![d].inspUsed = InspectionsAfterExit(d, kind),
                        ![d].inspected = FALSE]
    /\ policy' = [policy EXCEPT ![d].used[kind] = @ + 1,
                      ![d].lastFailure = kind, ![d].strategy = "backoff"]

(* A row that is not active keeps its queue state.                         *)
ExitState(d) ==
    IF queue[d].state \in Active THEN AfterExit(d) ELSE queue[d].state

(* A broken response chain opens one fresh thread, a provider failure as   *)
(* many continuations as its budget has retries.                           *)
OpensFreshThread(d, kind) ==
    kind = "invalid_response_chain" /\ recovery[d].freshUsed = 0

FreshBudgetFor(d, kind) ==
    IF OpensFreshThread(d, kind) THEN Greater(recovery[d].freshBudget, 1)
                                 ELSE recovery[d].freshBudget

ContinuationBudgetFor(d, kind) ==
    IF kind = "provider_transient"
    THEN Greater(recovery[d].contBudget, policy[d].budget[kind])
    ELSE recovery[d].contBudget

ExitRetryable(d, kind) ==
    /\ kind # "pre_identity_transport" /\ Retryable(d, kind)
    /\ queue' = [queue EXCEPT ![d].state = ExitState(d)]
    /\ live' = [live EXCEPT ![d].exited = TRUE]
    /\ recovery' = [recovery EXCEPT ![d].kind = AfterExit(d),
               ![d].wait = "none",
               ![d].inspUsed = InspectionsAfterExit(d, kind),
               ![d].fresh = IF OpensFreshThread(d, kind) THEN TRUE ELSE @,
               ![d].freshBudget = FreshBudgetFor(d, kind),
               ![d].contBudget = ContinuationBudgetFor(d, kind)]
    /\ policy' = [policy EXCEPT ![d].used[kind] = @ + 1,
                      ![d].lastFailure = kind,
                      ![d].strategy = Strategy[kind]]
    /\ UNCHANGED cap

(* An unclassified exit consumes no retry budget and keeps the inspection. *)
ExitAmbiguous(d, kind) ==
    /\ kind = "unknown" /\ queue[d].state \in Active \union Recovering
    /\ queue' = [queue EXCEPT ![d].state = ExitState(d)]
    /\ live' = [live EXCEPT ![d].exited = TRUE]
    /\ recovery' = [recovery EXCEPT ![d].kind = AfterExit(d),
               ![d].wait = "none",
               ![d].inspUsed = InspectionsAfterExit(d, kind)]
    /\ policy' = [policy EXCEPT ![d].lastFailure = kind,
                      ![d].strategy = "none"]
    /\ UNCHANGED cap

(* Everything else fails closed.                                           *)
ExitClosed(d, kind) ==
    /\ ~Retryable(d, kind)
    /\ ~(kind = "unknown" /\ queue[d].state \in Active \union Recovering)
    /\ queue' = [queue EXCEPT ![d].state = "human_attention_required"]
    /\ live' = [live EXCEPT ![d].exited = TRUE]
    /\ recovery' = [recovery EXCEPT
               ![d].kind = "human_attention_required", ![d].wait = "none",
               ![d].inspUsed = InspectionsAfterExit(d, kind)]
    /\ policy' = [policy EXCEPT ![d].lastFailure = kind,
                      ![d].strategy = "human_attention_required"]
    /\ UNCHANGED cap

(* A result that crossed before the exit was observed is not reopened.     *)
ExitAfterTerminal(d) ==
    /\ live' = [live EXCEPT ![d].exited = TRUE]
    /\ UNCHANGED <<queue, cap, recovery, policy>>

MarkWorkerExit(d, kind) ==
    /\ live[d].attempt # 0 /\ ~live[d].exited
    /\ IF queue[d].state \in Terminal
       THEN ExitAfterTerminal(d)
       ELSE \/ ExitRequeued(d, kind)
            \/ ExitRetryable(d, kind)
            \/ ExitAmbiguous(d, kind)
            \/ ExitClosed(d, kind)
    /\ UNCHANGED <<cancelAction, authority>>

-----------------------------------------------------------------------------
(* Recovery.                                                               *)

WorkerGone(d) == live[d].attempt = 0 \/ live[d].exited

(* The decision of one read-only inspection of the persisted thread; the   *)
(* last inspection of the budget can only decide for a human.              *)
InspectionDecision(d, decision) ==
    IF InspectionsSpent(d) THEN "human_attention_required" ELSE decision

ForHuman(d, decision) ==
    InspectionDecision(d, decision) = "human_attention_required"

RecordRecoveryInspection(d, decision, wait) ==
    /\ recovery[d].kind \in Recovering
    /\ recovery' = [recovery EXCEPT
              ![d].kind = InspectionDecision(d, decision),
              ![d].wait = IF ForHuman(d, decision) THEN "none" ELSE wait,
              ![d].inspUsed = IF InspectionsSpent(d) THEN @ ELSE @ + 1,
              ![d].inspected = TRUE]
    /\ queue' = [queue EXCEPT ![d].state =
              IF @ \in Recovering THEN InspectionDecision(d, decision) ELSE @]
    /\ policy' = [policy EXCEPT ![d].strategy =
              IF ForHuman(d, decision) THEN "human_attention_required" ELSE @]
    /\ UNCHANGED <<cap, live, cancelAction, authority>>

(* A claim nobody can account for is closed before any inspection.         *)
CloseClaim(d, failure) ==
    /\ recovery[d].kind = "none"
    /\ queue[d].state \in {"queued"} \union Active
    /\ queue' = [queue EXCEPT ![d].state = "human_attention_required"]
    /\ recovery' = [recovery EXCEPT
               ![d].kind = "human_attention_required", ![d].wait = "none",
               ![d].inspected = FALSE]
    /\ policy' = [policy EXCEPT ![d].lastFailure = failure,
                      ![d].strategy = "human_attention_required"]
    /\ UNCHANGED <<cap, live, cancelAction, authority>>

(* A row that is already closed is left alone.                             *)
MarkHumanAttentionRequired(d, failure) ==
    \/ CloseClaim(d, failure)
    \/ RecordRecoveryInspection(d, "human_attention_required", "none")

CanBeginInspection(d) ==
    /\ authority.leased
    /\ recovery[d].kind = "recovery_retry_wait"
    /\ queue[d].state = "recovery_retry_wait"
    /\ WorkerGone(d)
    /\ recovery[d].wait # "future"

BeginRecoveryInspection(d) ==
    /\ CanBeginInspection(d)
    /\ recovery' = [recovery EXCEPT
               ![d].kind = "recovery_inspection_pending", ![d].wait = "none"]
    /\ queue' = [queue EXCEPT ![d].state = "recovery_inspection_pending"]
    /\ UNCHANGED <<cap, live, policy, cancelAction, authority>>

CanBeginContinuation(d) ==
    /\ authority.leased
    /\ recovery[d].kind = "recovery_continuation_pending"
    /\ queue[d].state = "recovery_continuation_pending"
    /\ WorkerGone(d)
    /\ recovery[d].wait # "future"

ContinuationSpent(d) ==
    \/ recovery[d].contUsed >= recovery[d].contBudget
    \/ recovery[d].fresh /\ recovery[d].freshUsed >= recovery[d].freshBudget

(* One continuation is consumed and the row is claimed for a new worker    *)
(* attempt, on the same thread unless a fresh one was asked for.           *)
ClaimContinuation(d) ==
    /\ ~ContinuationSpent(d)
    /\ recovery' = [recovery EXCEPT ![d].kind = "none", ![d].wait = "none",
               ![d].contUsed = @ + 1,
               ![d].freshUsed = IF recovery[d].fresh THEN @ + 1 ELSE @,
               ![d].inspected = FALSE]
    /\ policy' = [policy EXCEPT ![d].lastFailure = "none",
                      ![d].strategy = "none"]
    /\ queue' = [queue EXCEPT ![d].state = "claimed",
                     ![d].epoch = authority.epoch, ![d].attempt = @ + 1,
                     ![d].thread = IF recovery[d].fresh THEN 0 ELSE @]
    /\ cap' = [cap EXCEPT ![d] = NoCapability]
    /\ live' = [live EXCEPT ![d] = NoLiveness]

CloseContinuation(d) ==
    /\ ContinuationSpent(d)
    /\ recovery' = [recovery EXCEPT
               ![d].kind = "human_attention_required", ![d].wait = "none"]
    /\ policy' = [policy EXCEPT ![d].strategy = "human_attention_required"]
    /\ queue' = [queue EXCEPT ![d].state = "human_attention_required"]
    /\ UNCHANGED <<cap, live>>

BeginRecoveryContinuation(d) ==
    /\ CanBeginContinuation(d)
    /\ ClaimContinuation(d) \/ CloseContinuation(d)
    /\ UNCHANGED <<cancelAction, authority>>

(* The clock passes next_eligible_at, or available_at of a queued row.     *)
EligibilityPasses(d) ==
    /\ recovery[d].wait = "future"
    /\ recovery' = [recovery EXCEPT ![d].wait = "due"]
    /\ UNCHANGED <<queue, cap, live, policy, cancelAction, authority>>

AvailabilityPasses(d) ==
    /\ queue[d].state = "queued" /\ ~queue[d].ready
    /\ queue' = [queue EXCEPT ![d].ready = TRUE]
    /\ UNCHANGED <<cap, live, recovery, policy, cancelAction, authority>>

-----------------------------------------------------------------------------
(* Operator actions.  They all need a row that is not terminal and has no  *)
(* cancellation pending.                                                   *)

(* Mutant: a terminal row accepts operator actions.                        *)
AcceptsAction_AnyState(d) == queue[d].state # "absent" /\ ~cancelAction[d]

AcceptsAction(d) ==
    /\ queue[d].state \notin Terminal \union {"absent"}
    /\ ~cancelAction[d]

AwaitsHuman(d) ==
    /\ queue[d].state = "human_attention_required"
    /\ policy[d].strategy = "human_attention_required"

(* Mutant: RETRY of a row that waits for nobody.                           *)
CanRetry_AnyRow(d) == AcceptsAction(d)

CanRetry(d) == AcceptsAction(d) /\ AwaitsHuman(d)

Retry(d) ==
    /\ CanRetry(d)
    /\ queue[d].attempt < MaxAttempt
    /\ Requeue(d, TRUE)
    /\ recovery' = [recovery EXCEPT ![d].kind = "none", ![d].wait = "none",
                                    ![d].inspected = FALSE]
    /\ policy' = [policy EXCEPT ![d].strategy = "none"]
    /\ UNCHANGED <<cancelAction, authority>>

(* New ceilings for the classes other than the provider's: at most the     *)
(* initial ones, at least what was consumed.                               *)
BudgetChange(d, budget) ==
    /\ AcceptsAction(d)
    /\ \A c \in RetryClasses :
          /\ policy[d].used[c] <= budget[c] /\ budget[c] <= RetryBudget[c]
          /\ c = "provider_transient" => budget[c] = policy[d].budget[c]
    /\ policy' = [policy EXCEPT ![d].budget = budget]
    /\ UNCHANGED <<queue, cap, live, recovery, cancelAction, authority>>

(* One more provider continuation, once, for a worker that used up all the *)
(* automatic ones and whose thread can still be inspected.                 *)
ProviderGrant(d) ==
    /\ AcceptsAction(d) /\ AwaitsHuman(d)
    /\ recovery[d].kind = "human_attention_required"
    /\ WorkerGone(d)
    /\ ~InspectionsSpent(d)
    /\ policy[d].budget["provider_transient"] = ProviderBudget
    /\ policy[d].used["provider_transient"] >= ProviderBudget
    /\ policy[d].grant = 0
    /\ policy[d].lastFailure = "provider_transient"
    /\ queue[d].thread # 0
    /\ recovery[d].contBudget = ProviderBudget
    /\ ~recovery[d].inspected
    /\ policy' = [policy EXCEPT ![d] =
          [@ EXCEPT !.grant = 1, !.strategy = "same_thread_continuation",
                    !.budget["provider_transient"] = ProviderBudget + 1,
                    !.used["provider_transient"] = ProviderBudget + 1]]
    /\ recovery' = [recovery EXCEPT
                      ![d].kind = "recovery_inspection_pending",
                      ![d].contBudget = ProviderBudget + 1,
                      ![d].wait = "none"]
    /\ queue' = [queue EXCEPT ![d].state = "recovery_inspection_pending"]
    /\ UNCHANGED <<cap, live, cancelAction, authority>>

(* The route is bound to another runtime; a capability the exited worker   *)
(* never used is revoked.                                                  *)
CompatibilityRebind(d) ==
    /\ AcceptsAction(d) /\ AwaitsHuman(d)
    /\ WorkerGone(d)
    /\ cap[d].attempt # 0 => cap[d].status # "consumed" /\ live[d].attempt # 0
    /\ cap' = [cap EXCEPT ![d] = NoCapability]
    /\ UNCHANGED <<queue, live, recovery, policy, cancelAction, authority>>

(* Mutant: the row is cancelled while its worker is still running.         *)
Cancel_Immediate(d) ==
    /\ AcceptsAction(d)
    /\ CancelQueueRow(d, live[d])
    /\ cancelAction' = [cancelAction EXCEPT ![d] = TRUE]
    /\ UNCHANGED authority

(* With a worker running, only the wish is recorded: the row is cancelled  *)
(* when the exit of exactly that worker is acknowledged.                   *)
Cancel(d) ==
    /\ AcceptsAction(d)
    /\ \/ /\ ~WorkerGone(d)
          /\ UNCHANGED <<queue, cap, live, recovery, policy>>
       \/ /\ WorkerGone(d)
          /\ queue[d].state \in Active => live[d].attempt # 0
          /\ CancelQueueRow(d, live[d])
    /\ cancelAction' = [cancelAction EXCEPT ![d] = TRUE]
    /\ UNCHANGED authority

AcknowledgeWorkerCancellationExit(d) ==
    /\ cancelAction[d]
    /\ queue[d].state \notin Terminal
    /\ live[d].attempt # 0
    /\ CancelQueueRow(d, [live[d] EXCEPT !.exited = TRUE])
    /\ UNCHANGED <<cancelAction, authority>>

-----------------------------------------------------------------------------
(* Results.                                                                *)

(* The exited attempt that ran out of result transport still owns its      *)
(* result.                                                                 *)
LateResultAllowed(d) ==
    /\ policy[d].lastFailure = "result_transport"
    /\ policy[d].strategy = "human_attention_required"
    /\ recovery[d].kind = "human_attention_required"
    /\ live[d].attempt # 0 /\ live[d].attempt = queue[d].attempt
    /\ live[d].exited

(* Submission and finalization are one transaction, so the intermediate    *)
(* state result_submitted is never seen.                                   *)
FinalizeQueueResult(d, r, outcome, inspected) ==
    /\ queue' = [queue EXCEPT ![d].state = outcome, ![d].result = r]
    /\ recovery' = [recovery EXCEPT ![d].kind = outcome, ![d].wait = "none",
                                    ![d].inspected = inspected]
    /\ policy' = [policy EXCEPT ![d].strategy = "none"]

SubmitAllowed(d) ==
    /\ cap[d].attempt # 0 /\ cap[d].attempt = queue[d].attempt
    /\ ~cancelAction[d]
    /\ \/ queue[d].state \in {"starting", "running"} \union Recovering
       \/ queue[d].state = "human_attention_required" /\ LateResultAllowed(d)

CommitQueueResult(d, r, outcome) ==
    /\ SubmitAllowed(d)
    /\ cap[d].status = "valid"
    /\ cap' = [cap EXCEPT ![d].status = "consumed"]
    /\ FinalizeQueueResult(d, r, outcome, recovery[d].inspected)
    /\ UNCHANGED <<live, cancelAction, authority>>

(* The retained artifact of a late attempt renews an expired capability.   *)
CanCommitRetained(d) ==
    LateResultAllowed(d) /\ SubmitAllowed(d) /\ cap[d].status # "consumed"

CommitRetainedQueueResult(d, r, outcome) ==
    /\ CanCommitRetained(d)
    /\ cap' = [cap EXCEPT ![d].status = "consumed"]
    /\ FinalizeQueueResult(d, r, outcome, recovery[d].inspected)
    /\ UNCHANGED <<live, cancelAction, authority>>

(* A result found in the persisted thread needs no capability.             *)
IngestRecoveredResult(d, r, outcome) ==
    /\ queue[d].state = "recovery_inspection_pending"
    /\ FinalizeQueueResult(d, r, outcome, TRUE)
    /\ UNCHANGED <<cap, live, cancelAction, authority>>

-----------------------------------------------------------------------------
(* The ledger under every order of calls its callers can make.  Two calls  *)
(* are narrower than the method: the harness closes a claim as human       *)
(* attention only when no bound worker can still be running, and issues a  *)
(* capability only for a row it has just claimed.  WorkflowHarness checks  *)
(* that it keeps to this.                                                  *)

HarnessStep ==
    \/ AcquireHarness \/ LeaseExpires \/ RenewHarness
    \/ ArmHarnessRefreshFence \/ RequestHarnessShutdown

LaunchStep(d) ==
    \/ EnqueueDispatch(d)
    \/ ClaimQueueDispatch(d)
    \/ ConfigureRecovery(d)
    \/ IssueAttemptCapability(d)
    \/ SetQueueStarting(d)
    \/ BindWorkerLiveness(d)
    \/ \E t \in 1..queue[d].attempt : BindWorkerThread(d, t)
    \/ RenewWorkerLiveness(d)
    \/ CapabilityExpires(d)
    \/ AdoptLiveWorker(d)

RecoveryStep(d) ==
    \/ \E kind \in ExitKinds : MarkWorkerExit(d, kind)
    \/ RecordRecoveryInspection(d, "recovery_retry_wait", "future")
    \/ \E wait \in {"future", "due"} :
          RecordRecoveryInspection(d, "recovery_continuation_pending", wait)
    \/ /\ WorkerGone(d)
       /\ \E failure \in {"none", "profile"} :
             MarkHumanAttentionRequired(d, failure)
    \/ BeginRecoveryInspection(d)
    \/ BeginRecoveryContinuation(d)
    \/ EligibilityPasses(d)
    \/ AvailabilityPasses(d)

OperatorStep(d) ==
    \/ Retry(d)
    \/ \E budget \in [RetryClasses -> 0..ProviderBudget + 1] :
          BudgetChange(d, budget)
    \/ ProviderGrant(d)
    \/ CompatibilityRebind(d)
    \/ Cancel(d)
    \/ AcknowledgeWorkerCancellationExit(d)

ResultStep(d) ==
    \E outcome \in ResultStates :
        \/ CommitQueueResult(d, queue[d].attempt, outcome)
        \/ CommitRetainedQueueResult(d, queue[d].attempt, outcome)
        \/ \E r \in 1..queue[d].attempt :
              IngestRecoveredResult(d, r, outcome)

Next ==
    \/ HarnessStep
    \/ \E d \in Dispatches :
          LaunchStep(d) \/ RecoveryStep(d) \/ OperatorStep(d) \/ ResultStep(d)

(* What the tables promise whoever calls the ledger, in whatever order:    *)
(* WorkflowHarness is checked to keep to it with all its processes.        *)
Spec == Init /\ [][Next]_ledgerVars

-----------------------------------------------------------------------------
(* The columns the tables have, as far as the model keeps them.            *)
QueueRow ==
    [state : QueueStates, attempt : Nat, epoch : Nat, thread : Nat,
     result : Nat, ready : BOOLEAN]

CapabilityRow ==
    [attempt : Nat, status : {"none", "valid", "expired", "consumed"}]

LivenessRow == [attempt : Nat, exited : BOOLEAN]

RecoveryRow ==
    [kind : {"none", "human_attention_required"}
                \union Recovering \union ResultStates,
     inspUsed : Nat, contUsed : Nat, contBudget : Nat,
     fresh : BOOLEAN, freshUsed : Nat, freshBudget : Nat,
     wait : Waits, inspected : BOOLEAN]

PolicyRow ==
    [used : [RetryClasses -> Nat], budget : [RetryClasses -> Nat],
     grant : {0, 1}, lastFailure : Failures, strategy : Strategies]

(* Every table holds rows of its columns, whatever order the transactions  *)
(* of the harness, the workers, the operator and the clock take.           *)
TypeOK ==
    /\ queue \in [Dispatches -> QueueRow]
    /\ cap \in [Dispatches -> CapabilityRow]
    /\ live \in [Dispatches -> LivenessRow]
    /\ recovery \in [Dispatches -> RecoveryRow]
    /\ policy \in [Dispatches -> PolicyRow]
    /\ cancelAction \in [Dispatches -> BOOLEAN]
    /\ authority \in [epoch : Nat, leased : BOOLEAN, fenced : BOOLEAN]

(* What _validate_rows demands of the rows of one dispatch, table        *)
(* by table.                                                               *)
CapabilityFacts(d) ==
    cap[d].attempt # 0 =>
        /\ cap[d].attempt = queue[d].attempt
        /\ queue[d].state # "cancelled"
        /\ cap[d].status = "consumed" => queue[d].state \in ResultStates

ResultFacts(d) ==
    /\ queue[d].result # 0 <=> queue[d].state \in ResultStates
    /\ queue[d].state = "cancelled" => queue[d].epoch = 0

LivenessFacts(d) ==
    live[d].attempt # 0 =>
        /\ live[d].attempt = queue[d].attempt
        /\ live[d].exited => queue[d].state \notin {"queued"} \union Active
        /\ queue[d].state = "cancelled" => live[d].exited

RecoveryFacts(d) ==
    /\ recovery[d].inspUsed <= InspectionBudget
    /\ recovery[d].contUsed <= recovery[d].contBudget
    /\ recovery[d].freshUsed <= recovery[d].freshBudget
    /\ recovery[d].wait # "none" <=>
           recovery[d].kind \in {"recovery_retry_wait",
                                 "recovery_continuation_pending"}
    /\ recovery[d].kind # "none" => queue[d].state = recovery[d].kind

PolicyFacts(d) ==
    /\ \A c \in RetryClasses : policy[d].used[c] <= policy[d].budget[c]
    /\ policy[d].budget["provider_transient"]
           <= ProviderBudget + policy[d].grant

(* Every transaction leaves rows that _validate_rows accepts: one        *)
(* that did not would be rolled back, and its caller, a worker exit or a   *)
(* cancellation among them, would see CorruptSchemaError for ever.         *)
RowsValid ==
    \A d \in Dispatches :
        /\ CapabilityFacts(d) /\ ResultFacts(d) /\ LivenessFacts(d)
        /\ RecoveryFacts(d) /\ PolicyFacts(d)

WorkerOwned(d) == ~WorkerGone(d) => queue[d].state \in Active \union ResultStates

(* A worker that may be running belongs to an active row or to one whose   *)
(* result it has just delivered: recovery, a human decision and a new      *)
(* claim never meet a running worker.                                      *)
RunningWorkerIsOwned == \A d \in Dispatches : WorkerOwned(d)

(* What makes these inductive: a row that is not launched yet has neither  *)
(* capability nor worker, so a claim starts from nothing.                  *)
UnlaunchedRowsAreBare(d) ==
    queue[d].state \in {"absent", "queued"} =>
        cap[d] = NoCapability /\ live[d] = NoLiveness

RowInv(d) ==
    /\ CapabilityFacts(d) /\ ResultFacts(d) /\ LivenessFacts(d)
    /\ RecoveryFacts(d) /\ PolicyFacts(d)
    /\ WorkerOwned(d) /\ UnlaunchedRowsAreBare(d)

LedgerInv == TypeOK /\ \A d \in Dispatches : RowInv(d)

EndIsFinal(d) == queue[d].state \in Terminal => queue'[d] = queue[d]

(* A row that ended keeps its state, its result and its attempt, whatever  *)
(* is submitted, recovered, cancelled or reported late.                    *)
TerminalRowsAreFinal == [][\A d \in Dispatches : EndIsFinal(d)]_ledgerVars

ClaimFollowsExit(d) ==
    queue[d].state # "claimed" /\ queue'[d].state = "claimed" =>
        WorkerGone(d) /\ cap'[d] = NoCapability /\ live'[d] = NoLiveness

(* A claim hands a dispatch to a new worker only when the bound worker of  *)
(* the attempt before is known to be gone and its capability is revoked.   *)
ClaimsFollowExit == [][\A d \in Dispatches : ClaimFollowsExit(d)]_ledgerVars

BudgetsOnlyShrink(d) ==
    /\ recovery'[d].inspUsed >= recovery[d].inspUsed
    /\ recovery'[d].contUsed >= recovery[d].contUsed
    /\ recovery'[d].freshUsed >= recovery[d].freshUsed
    /\ \A c \in RetryClasses : policy'[d].used[c] >= policy[d].used[c]

AttemptIsPaidFor(d) ==
    queue'[d].attempt # queue[d].attempt =>
        /\ queue'[d].attempt = queue[d].attempt + 1
        /\ \/ policy'[d].used["pre_identity_transport"]
                 > policy[d].used["pre_identity_transport"]
           \/ recovery'[d].contUsed > recovery[d].contUsed
           \/ AwaitsHuman(d) /\ ~cancelAction[d]

(* No budget is ever given back, and every attempt after the first is paid *)
(* for: by a retry budget, by a continuation, or by a human decision.      *)
AttemptsArePaidFor ==
    [][\A d \in Dispatches : queue[d].state # "absent" =>
          BudgetsOnlyShrink(d) /\ AttemptIsPaidFor(d)]_ledgerVars
=============================================================================
