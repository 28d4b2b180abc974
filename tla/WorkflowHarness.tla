--------------------------- MODULE WorkflowHarness ---------------------------
(***************************************************************************)
(* The supervisor of the dispatch queue (src/codex_flow/harness.py) and    *)
(* the worker processes it launches (worker.py), on top of the tables and  *)
(* transactions of DispatchLedger.                                         *)
(*                                                                         *)
(* The harness is one thread: it recovers once at start, then serves one   *)
(* request at a time and, on each lease renewal, reaps its children.  pc   *)
(* is where that thread is; between two of its steps anything else may     *)
(* happen: a worker makes progress or dies, time passes, the command line  *)
(* enqueues or arms the refresh fence, the harness itself is killed.       *)
(***************************************************************************)
EXTENDS DispatchLedger, FiniteSets

CONSTANT
    NativeProfile   \* the dispatches carry a native compatibility identity

ASSUME ProfileAssumption == NativeProfile \in BOOLEAN

VARIABLES
    pc,        \* the harness thread's position, "down" without a harness
    todo,      \* rows the current scan still has to visit
    cur,       \* the dispatch being launched or stopped, 0 if none
    back,      \* where the thread goes on after a launch
    children,  \* the attempt of the child process held for a dispatch, or 0
    reaped,    \* the current reaping pass removed a child
    proc,      \* the phase of each worker process, by dispatch and attempt
    orphans    \* history: processes launched but never bound

harnessVars == <<pc, todo, cur, back, children, reaped, proc, orphans>>
vars == <<ledgerVars, harnessVars>>

(* The attempts the budgets and MaxAttempt admit.                          *)
Attempts ==
    1..(Greater(1, MaxAttempt) + RetryBudget["pre_identity_transport"]
            + Greater(ContinuationBudget, ProviderBudget) + 1)

(* A process starts ("boot"), reports its SDK thread ("turn"), leaves its  *)
(* private result file ("done") and ends; of the dead ones the last phase  *)
(* is known.                                                               *)
Alive  == {"boot", "turn", "done"}
DeadOf == [boot |-> "deadboot", turn |-> "deadturn", done |-> "deaddone"]
Dead   == {DeadOf[p] : p \in Alive}
Killed(p) == IF p \in Alive THEN DeadOf[p] ELSE p

Current(d) == proc[d][queue[d].attempt]

(* What the exit code of a process that ended in a phase can say: with the *)
(* result saved, a refusal or a thread that does not quiesce fails closed. *)
ExitKindsOf(p) ==
    CASE p = "deadboot" -> {"pre_identity_transport", "closed", "unknown"}
      [] p = "deadturn" -> {"invalid_response_chain", "schema_envelope",
                            "provider_transient", "closed", "unknown"}
      [] OTHER -> {"result_transport", "closed", "unknown"}

Stages == {"cancel", "retained", "eligible", "active", "inspect", "continue"}
Launching == {"claimed", "configured", "capped", "starting", "popen"}
Positions == Stages \union Launching
                 \union {"down", "recover", "queue", "loop", "reap", "stop"}

NextStage ==
    [cancel |-> "retained", retained |-> "eligible", eligible |-> "active",
     active |-> "inspect", inspect |-> "continue", continue |-> "queue"]

(* The rows each scan of recover_once selects.                             *)
Work(stage) ==
    {d \in Dispatches :
        CASE stage = "cancel" ->
                cancelAction[d] /\ queue[d].state # "cancelled"
          [] stage = "retained" ->
                queue[d].state = "human_attention_required"
          [] stage = "eligible" -> recovery[d].kind = "recovery_retry_wait"
          [] stage = "active" -> queue[d].state \in Active
          [] stage = "inspect" ->
                queue[d].state = "recovery_inspection_pending"
          [] stage = "continue" ->
                recovery[d].kind = "recovery_continuation_pending"
          [] OTHER -> FALSE}

NoChildren == [d \in Dispatches |-> 0]

HInit ==
    /\ Init
    /\ pc = "down" /\ todo = {} /\ cur = 0 /\ back = "loop"
    /\ children = NoChildren /\ reaped = FALSE
    /\ proc = [d \in Dispatches |-> [a \in Attempts |-> "none"]]
    /\ orphans = {}

Goto(p) == pc' = p /\ UNCHANGED <<todo, cur, back, reaped>>

(* mark_human_attention_required leaves a row that is already closed alone *)
CloseForHuman(d, failure) ==
    IF recovery[d].kind \in {"human_attention_required"} \union ResultStates
    THEN UNCHANGED ledgerVars
    ELSE MarkHumanAttentionRequired(d, failure)

(* Mutant: a row a recovery scan has visited stays on its list.            *)
Visited_Again(d) ==
    /\ todo' = IF pc \in Stages THEN todo ELSE todo \ {d}
    /\ UNCHANGED <<pc, cur, back>>

Visited(d) ==
    /\ todo' = todo \ {d}
    /\ UNCHANGED <<pc, cur, back>>

-----------------------------------------------------------------------------
(* Start and stop.                                                         *)

Start ==
    /\ pc = "down"
    /\ AcquireHarness
    /\ Goto("recover")
    /\ UNCHANGED <<children, proc, orphans>>

(* Nobody renews the lease of a harness that is gone.                      *)
LeaseRunsOut ==
    /\ pc = "down"
    /\ LeaseExpires
    /\ UNCHANGED harnessVars

(* A launched process that was not bound yet is on its own.                *)
Unbound == IF pc = "popen" THEN {<<cur, queue[cur].attempt>>} ELSE {}

Down ==
    /\ pc' = "down" /\ todo' = {} /\ cur' = 0 /\ back' = "loop"
    /\ children' = NoChildren /\ reaped' = FALSE

Crash ==
    /\ pc # "down"
    /\ Down
    /\ orphans' = orphans \union Unbound
    /\ UNCHANGED <<ledgerVars, proc>>

(* close() ends every child and records none of the exits.                 *)
Close ==
    /\ Down
    /\ proc' = [d \in Dispatches |->
                   [a \in Attempts |-> IF a = children[d]
                                       THEN Killed(proc[d][a])
                                       ELSE proc[d][a]]]

Shutdown ==
    /\ pc = "loop"
    /\ RequestHarnessShutdown
    /\ Close
    /\ UNCHANGED orphans

-----------------------------------------------------------------------------
(* Worker processes.                                                       *)

(* The turn ends and its result is written to the private result file.     *)
WorkerFinishes(d, a) ==
    /\ proc[d][a] = "turn"
    /\ proc' = [proc EXCEPT ![d][a] = "done"]
    /\ UNCHANGED <<ledgerVars, pc, todo, cur, back, children, reaped, orphans>>

WorkerDies(d, a) ==
    /\ proc[d][a] \in Alive
    /\ proc' = [proc EXCEPT ![d][a] = Killed(@)]
    /\ UNCHANGED <<ledgerVars, pc, todo, cur, back, children, reaped, orphans>>

(* A worker's request is served when it names the claim of this epoch and  *)
(* the current attempt; any other is refused and changes nothing.          *)
ServesWorker(d, a) ==
    /\ pc = "loop"
    /\ queue[d].epoch = authority.epoch
    /\ a = queue[d].attempt
    /\ cap[d].attempt = a

(* The worker resumes the thread of its row or creates one.                *)
BindWorker(d, a) ==
    /\ ServesWorker(d, a)
    /\ proc[d][a] = "boot"
    /\ BindWorkerThread(d, IF queue[d].thread = 0 THEN a ELSE queue[d].thread)
    /\ proc' = [proc EXCEPT ![d][a] = "turn"]
    /\ UNCHANGED <<pc, todo, cur, back, children, reaped, orphans>>

Heartbeat(d, a) ==
    /\ ServesWorker(d, a)
    /\ proc[d][a] \in Alive
    /\ RenewWorkerLiveness(d)
    /\ UNCHANGED harnessVars

(* The request may still be in the socket when the process is gone.        *)
SubmitResult(d, a) ==
    /\ ServesWorker(d, a)
    /\ proc[d][a] \in {"done", "deaddone"}
    /\ \E outcome \in ResultStates : CommitQueueResult(d, a, outcome)
    /\ Goto("queue")
    /\ UNCHANGED <<children, proc, orphans>>

-----------------------------------------------------------------------------
(* Stopping a worker whose cancellation is pending.                        *)

(* Mutant: the exit is acknowledged without waiting for it.                *)
AdvanceWorkerCancellation_Unconfirmed(d) ==
    /\ IF WorkerGone(d) \/ queue[d].state = "cancelled"
       THEN UNCHANGED ledgerVars ELSE AcknowledgeWorkerCancellationExit(d)
    /\ UNCHANGED <<children, proc>>

(* The exact process is ended and its exit acknowledged, unless the stop   *)
(* times out or is refused; an exit already recorded is left alone.        *)
AdvanceWorkerCancellation(d) ==
    \/ /\ WorkerGone(d) \/ queue[d].state = "cancelled"
       /\ UNCHANGED <<ledgerVars, children, proc>>
    \/ /\ ~WorkerGone(d)
       /\ AcknowledgeWorkerCancellationExit(d)
       /\ proc' = [proc EXCEPT ![d][live[d].attempt] = Killed(@)]
       /\ children' = [children EXCEPT ![d] = 0]
    \/ /\ ~WorkerGone(d)
       /\ proc[d][live[d].attempt] \in Alive
       /\ UNCHANGED <<ledgerVars, children, proc>>

StopWorker ==
    /\ pc = "stop"
    /\ AdvanceWorkerCancellation(cur)
    /\ pc' = "queue" /\ cur' = 0
    /\ UNCHANGED <<todo, back, reaped, orphans>>

-----------------------------------------------------------------------------
(* recover_once: one scan after the other, none when the fence is armed.   *)

RecoverOnce ==
    /\ pc = "recover"
    /\ IF authority.fenced THEN pc' = "queue" /\ todo' = {}
                           ELSE pc' = "cancel" /\ todo' = Work("cancel")
    /\ UNCHANGED <<ledgerVars, cur, back, children, reaped, proc, orphans>>

StageDone ==
    /\ pc \in Stages /\ todo = {}
    /\ pc' = NextStage[pc]
    /\ todo' = Work(NextStage[pc])
    /\ UNCHANGED <<ledgerVars, cur, back, children, reaped, proc, orphans>>

AdvancePendingCancellation(d) ==
    /\ pc = "cancel" /\ d \in todo
    /\ AdvanceWorkerCancellation(d)
    /\ Visited(d)
    /\ UNCHANGED <<reaped, orphans>>

(* Only the result file of the exact exited attempt is ingested.           *)
RecoverRetainedWorkerResult(d) ==
    /\ pc = "retained" /\ d \in todo
    /\ IF Current(d) \in {"done", "deaddone"} /\ CanCommitRetained(d)
       THEN \E outcome \in ResultStates :
               CommitRetainedQueueResult(d, queue[d].attempt, outcome)
       ELSE UNCHANGED ledgerVars
    /\ Visited(d)
    /\ UNCHANGED <<children, reaped, proc, orphans>>

ResumeInspection(d) ==
    /\ pc = "eligible" /\ d \in todo
    /\ IF CanBeginInspection(d) THEN BeginRecoveryInspection(d)
                                ELSE UNCHANGED ledgerVars
    /\ Visited(d)
    /\ UNCHANGED <<children, reaped, proc, orphans>>

(* Mutant: a worker of an earlier epoch is taken for dead.                 *)
ReconcileActive_ForeignIsDead(d) ==
    /\ pc = "active" /\ d \in todo
    /\ IF live[d].attempt = 0
       THEN MarkHumanAttentionRequired(d, "none")
       ELSE IF queue[d].epoch = authority.epoch
       THEN UNCHANGED ledgerVars
       ELSE MarkWorkerExit(d, "unknown")
    /\ Visited(d)
    /\ UNCHANGED <<children, reaped, proc, orphans>>

(* Mutant: a row of an earlier epoch is closed under its running worker.   *)
ReconcileActive_ClosesForeign(d) ==
    /\ pc = "active" /\ d \in todo
    /\ IF live[d].attempt = 0 \/ queue[d].epoch # authority.epoch
       THEN MarkHumanAttentionRequired(d, "none")
       ELSE UNCHANGED ledgerVars
    /\ Visited(d)
    /\ UNCHANGED <<children, reaped, proc, orphans>>

(* An active row has a live worker, which stays or is adopted; or a dead   *)
(* one, whose exit is recorded; or none that anyone knows of.  The thread  *)
(* of the dead one is inspected in the next scan.                          *)
ReconcileActive(d) ==
    /\ pc = "active" /\ d \in todo
    /\ IF live[d].attempt = 0
       THEN MarkHumanAttentionRequired(d, "none")
       ELSE IF proc[d][live[d].attempt] \notin Alive
       THEN MarkWorkerExit(d, "unknown")
       ELSE IF queue[d].epoch = authority.epoch
       THEN UNCHANGED ledgerVars
       ELSE AdoptLiveWorker(d)
    /\ Visited(d)
    /\ UNCHANGED <<children, reaped, proc, orphans>>

(* Mutant: a turn that did not finish counts as a result.                  *)
Finished_AnyTurn(d) ==
    {a \in Attempts : queue[d].thread <= a /\ a <= queue[d].attempt}

(* The finished turns of the thread a row is bound to.                     *)
Finished(d) ==
    {a \in Attempts : /\ queue[d].thread <= a /\ a <= queue[d].attempt
                      /\ proc[d][a] \in {"done", "deaddone"}}

ProviderRetryTyped(d) ==
    /\ policy[d].lastFailure = "provider_transient"
    /\ policy[d].strategy = "same_thread_continuation"
    /\ 0 < policy[d].used["provider_transient"]
    /\ policy[d].used["provider_transient"]
           <= policy[d].budget["provider_transient"]

ChainRetryTyped(d) ==
    /\ policy[d].lastFailure = "invalid_response_chain"
    /\ policy[d].strategy = "fresh_thread"
    /\ 0 < policy[d].used["invalid_response_chain"]
    /\ policy[d].used["invalid_response_chain"]
           <= policy[d].budget["invalid_response_chain"]

(* What the SDK says of a persisted thread: any answer that fits whether   *)
(* its last turn finished.                                                 *)
InspectionKinds(d) ==
    {"active_writer", "interrupted", "ambiguous"} \union
        (IF Finished(d) # {} THEN {"terminal_result"}
         ELSE {"idle_no_result", "failed_turn", "empty_history"})

(* A result that does not parse, and a retry deadline that does not, are   *)
(* left to a human.                                                        *)
Decide(d, kind) ==
    CASE kind = "terminal_result" ->
            \/ \E r \in Finished(d), outcome \in ResultStates :
                  IngestRecoveredResult(d, r, outcome)
            \/ MarkHumanAttentionRequired(d, "none")
      [] kind = "active_writer" ->
            RecordRecoveryInspection(d, "recovery_retry_wait", "future")
      [] kind = "idle_no_result" ->
            RecordRecoveryInspection(d, "recovery_continuation_pending", "due")
      [] kind = "failed_turn" /\ ProviderRetryTyped(d) ->
            \/ \E wait \in {"future", "due"} :
                  RecordRecoveryInspection(d, "recovery_continuation_pending",
                                           wait)
            \/ MarkHumanAttentionRequired(d, "none")
      [] kind \in {"failed_turn", "empty_history"} /\ ChainRetryTyped(d) ->
            RecordRecoveryInspection(d, "recovery_continuation_pending", "due")
      [] OTHER -> MarkHumanAttentionRequired(d, "none")

RecoverExitedDispatch(d) ==
    /\ pc = "inspect" /\ d \in todo
    /\ IF queue[d].thread = 0
       THEN MarkHumanAttentionRequired(d, "none")
       ELSE \E kind \in InspectionKinds(d) : Decide(d, kind)
    /\ Visited(d)
    /\ UNCHANGED <<children, reaped, proc, orphans>>

(* Launch a claimed row, then go on at position p.                         *)
Launch(d, p) ==
    IF queue'[d].state = "claimed"
    THEN pc' = "claimed" /\ cur' = d /\ back' = p
    ELSE pc' = p /\ UNCHANGED <<cur, back>>

ContinueDispatch(d) ==
    /\ pc = "continue" /\ d \in todo
    /\ todo' = todo \ {d}
    /\ IF CanBeginContinuation(d)
       THEN BeginRecoveryContinuation(d) /\ Launch(d, "continue")
       ELSE UNCHANGED <<ledgerVars, pc, cur, back>>
    /\ UNCHANGED <<children, reaped, proc, orphans>>

-----------------------------------------------------------------------------
(* Launching.  Each step may fail; the claim is then closed.               *)

ProcessOnce ==
    /\ pc = "queue"
    /\ \/ /\ authority.fenced \/ \A d \in Dispatches : ~Claimable(d)
          /\ pc' = "loop"
          /\ UNCHANGED <<ledgerVars, cur, back>>
       \/ \E d \in Dispatches : ClaimQueueDispatch(d) /\ Launch(d, "loop")
    /\ UNCHANGED <<todo, children, reaped, proc, orphans>>

(* Without a native identity a profile that cannot be read, or budgets     *)
(* that cannot be written, are ignored.                                    *)
Configure ==
    /\ pc = "claimed"
    /\ \/ ConfigureRecovery(cur)
       \/ ~NativeProfile /\ UNCHANGED ledgerVars
    /\ Goto("configured")
    /\ UNCHANGED <<children, proc, orphans>>

Issue ==
    /\ pc = "configured"
    /\ IssueAttemptCapability(cur)
    /\ Goto("capped")
    /\ UNCHANGED <<children, proc, orphans>>

CrossIntoStarting ==
    /\ pc = "capped"
    /\ SetQueueStarting(cur)
    /\ Goto("starting")
    /\ UNCHANGED <<children, proc, orphans>>

Popen ==
    /\ pc = "starting"
    /\ proc' = [proc EXCEPT ![cur][queue[cur].attempt] = "boot"]
    /\ Goto("popen")
    /\ UNCHANGED <<ledgerVars, children, orphans>>

BindChild ==
    /\ pc = "popen"
    /\ BindWorkerLiveness(cur)
    /\ children' = [children EXCEPT ![cur] = queue[cur].attempt]
    /\ pc' = back /\ cur' = 0 /\ back' = "loop"
    /\ UNCHANGED <<todo, reaped, proc, orphans>>

(* A failed preparation or launch closes the claim and stays local to it.  *)
SpawnFails ==
    /\ pc \in Launching \ {"popen"}
    /\ \E failure \in IF pc = "claimed" THEN {"none", "profile"} ELSE {"none"} :
          MarkHumanAttentionRequired(cur, failure)
    /\ pc' = back /\ cur' = 0 /\ back' = "loop"
    /\ UNCHANGED <<todo, children, reaped, proc, orphans>>

(* When the liveness cannot be bound the child is told to terminate, and   *)
(* the ledger error ends a harness that was serving its queue.             *)
BindFails ==
    /\ pc = "popen"
    /\ MarkHumanAttentionRequired(cur, "none")
    /\ orphans' = orphans \union Unbound
    /\ \/ /\ back = "continue"
          /\ pc' = back /\ cur' = 0 /\ back' = "loop"
          /\ UNCHANGED <<todo, children, reaped, proc>>
       \/ back = "loop" /\ Close

-----------------------------------------------------------------------------
(* The service loop.                                                       *)

(* A wake or another queue event; the queue is looked at after it.         *)
Wake ==
    /\ pc = "loop"
    /\ Goto("queue")
    /\ UNCHANGED <<ledgerVars, children, proc, orphans>>

RecoveryAction(d) ==
    /\ pc = "loop"
    /\ \/ /\ \/ Retry(d)
             \/ \E budget \in [RetryClasses -> 0..ProviderBudget + 1] :
                   BudgetChange(d, budget)
             \/ ProviderGrant(d)
             \/ CompatibilityRebind(d)
          /\ Goto("queue")
       \/ /\ Cancel(d)
          /\ pc' = "stop" /\ cur' = d
          /\ UNCHANGED <<todo, back, reaped>>
    /\ UNCHANGED <<children, proc, orphans>>

(* Mutant: the lease is renewed and the children are forgotten.            *)
RenewalTick_NoPoll ==
    /\ pc = "loop"
    /\ RenewHarness
    /\ pc' = "reap" /\ reaped' = FALSE /\ todo' = {}
    /\ UNCHANGED <<cur, back, children, proc, orphans>>

(* The lease is renewed and the children are looked at.                    *)
RenewalTick ==
    /\ pc = "loop"
    /\ RenewHarness
    /\ pc' = "reap" /\ reaped' = FALSE
    /\ todo' = {d \in Dispatches : children[d] # 0}
    /\ UNCHANGED <<cur, back, children, proc, orphans>>

StillRunning(d) ==
    /\ pc = "reap" /\ d \in todo
    /\ proc[d][children[d]] \in Alive
    /\ Visited(d)
    /\ UNCHANGED <<ledgerVars, children, reaped, proc, orphans>>

(* What is recorded of a dead child: the acknowledgement a pending         *)
(* cancellation waits for, or its classified exit, or, with no liveness    *)
(* row to put it in, that a human has to look.                             *)
RecordChildExit(d) ==
    IF live[d].attempt = 0
    THEN IF queue[d].state \in Terminal THEN UNCHANGED ledgerVars
                                        ELSE CloseForHuman(d, "none")
    ELSE IF cancelAction[d] /\ queue[d].state # "cancelled"
    THEN AcknowledgeWorkerCancellationExit(d)
    ELSE IF live[d].exited
    THEN UNCHANGED ledgerVars
    ELSE \E kind \in ExitKindsOf(proc[d][children[d]]) :
            MarkWorkerExit(d, kind)

(* A dead child is forgotten once that is durable.                         *)
ReapChild(d) ==
    /\ pc = "reap" /\ d \in todo
    /\ proc[d][children[d]] \in Dead
    /\ RecordChildExit(d)
    /\ children' = [children EXCEPT ![d] = 0]
    /\ reaped' = TRUE
    /\ Visited(d)
    /\ UNCHANGED <<proc, orphans>>

(* A row that has its result refuses the acknowledgement: the child stays. *)
ReapRefused(d) ==
    /\ pc = "reap" /\ d \in todo
    /\ proc[d][children[d]] \in Dead
    /\ live[d].attempt # 0 /\ cancelAction[d]
    /\ queue[d].state \in ResultStates
    /\ Visited(d)
    /\ UNCHANGED <<ledgerVars, children, reaped, proc, orphans>>

ReapDone ==
    /\ pc = "reap" /\ todo = {}
    /\ pc' = IF reaped THEN "recover" ELSE "loop"
    /\ reaped' = FALSE
    /\ UNCHANGED <<ledgerVars, todo, cur, back, children, proc, orphans>>

-----------------------------------------------------------------------------
(* What other processes and the clock do at any moment.                    *)

Outside ==
    /\ \/ ArmHarnessRefreshFence
       \/ \E d \in Dispatches :
             \/ EnqueueDispatch(d)
             \/ CapabilityExpires(d)
             \/ EligibilityPasses(d)
             \/ AvailabilityPasses(d)
    /\ UNCHANGED harnessVars

Scan(d) ==
    \/ AdvancePendingCancellation(d)
    \/ RecoverRetainedWorkerResult(d)
    \/ ResumeInspection(d)
    \/ ReconcileActive(d)
    \/ RecoverExitedDispatch(d)
    \/ ContinueDispatch(d)
    \/ StillRunning(d)
    \/ ReapChild(d)
    \/ ReapRefused(d)

Spawn ==
    \/ Configure \/ Issue \/ CrossIntoStarting \/ Popen \/ BindChild
    \/ SpawnFails \/ BindFails

(* The steps the harness thread takes by itself.                           *)
Proceed ==
    \/ RecoverOnce \/ StageDone \/ ProcessOnce \/ StopWorker
    \/ RenewalTick \/ ReapDone
    \/ Spawn
    \/ \E d \in Dispatches : Scan(d)

Request ==
    \/ Wake \/ Shutdown
    \/ \E d \in Dispatches :
          \/ RecoveryAction(d)
          \/ \E a \in Attempts :
                BindWorker(d, a) \/ Heartbeat(d, a) \/ SubmitResult(d, a)

Worker ==
    \E d \in Dispatches, a \in Attempts :
        WorkerFinishes(d, a) \/ WorkerDies(d, a)

HNext ==
    \/ Start \/ LeaseRunsOut \/ Crash
    \/ Proceed \/ Request \/ Worker \/ Outside

HSpec == HInit /\ [][HNext]_vars

(* The service manager restarts a harness whose lease has run out, and a   *)
(* running harness keeps going.  A request served after the renewal        *)
(* deadline renews the lease and puts the reaping off to the next one, so  *)
(* the children are looked at only when the socket is idle at a deadline:  *)
(* strong fairness says that it is, again and again.                       *)
FairHSpec ==
    /\ HSpec
    /\ WF_vars(Proceed) /\ SF_vars(RenewalTick)
    /\ WF_vars(Start) /\ WF_vars(LeaseRunsOut)

-----------------------------------------------------------------------------
(* Every variable keeps its type: in particular the thread never works on  *)
(* a row that is not there and no attempt exceeds what the budgets admit.  *)
HTypeOK ==
    /\ TypeOK
    /\ pc \in Positions /\ back \in {"loop", "continue"}
    /\ todo \subseteq Dispatches
    /\ cur \in Dispatches \union {0}
    /\ children \in [Dispatches -> Attempts \union {0}]
    /\ reaped \in BOOLEAN
    /\ proc \in [Dispatches -> [Attempts -> {"none"} \union Alive \union Dead]]
    /\ orphans \subseteq Dispatches \X Attempts

(* An exit is on record only for a process that has really ended: neither  *)
(* the reaper, nor a restart that finds a foreign worker, nor a            *)
(* cancellation declares a running worker gone.                            *)
RecordedExitsAreReal ==
    \A d \in Dispatches :
        live[d].attempt # 0 /\ live[d].exited =>
            proc[d][live[d].attempt] \in Dead

(* Every accepted result was produced by a worker process of the dispatch. *)
ResultsAreProduced ==
    \A d \in Dispatches :
        queue[d].result # 0 =>
            proc[d][queue[d].result] \in {"done", "deaddone"}

(* A dispatch has one running worker at a time, apart from a process that  *)
(* was launched and never bound, and such a process is powerless: it is    *)
(* not the bound worker and the claim it was made for is closed.           *)
OneWorkerPerDispatch ==
    \A d \in Dispatches : \A a, b \in Attempts :
        /\ proc[d][a] \in Alive /\ proc[d][b] \in Alive /\ a # b =>
              <<d, a>> \in orphans \/ <<d, b>> \in orphans
        /\ <<d, a>> \in orphans => live[d].attempt # a

(* A cancelled dispatch does no more work: cancelling never leaves one of  *)
(* its bound workers running, whoever records the cancellation.            *)
CancelledWorkIsStopped ==
    \A d \in Dispatches :
        queue[d].state = "cancelled" =>
            \A a \in Attempts : proc[d][a] \in Alive => <<d, a>> \in orphans

(* A child whose process has ended is eventually let go, with its exit on  *)
(* record, unless a result has overtaken its cancellation.                 *)
DeadChildrenAreReaped ==
    \A d \in Dispatches :
        (children[d] # 0 /\ proc[d][children[d]] \in Dead)
            ~> \/ children[d] = 0
               \/ cancelAction[d] /\ queue[d].state \in ResultStates

(* Whatever a recovery pass or a launch finds, the thread gets back to the *)
(* socket: no scan repeats itself and no step waits for what cannot come.  *)
ServiceResumes == (pc # "loop") ~> (pc \in {"loop", "down"})
=============================================================================
