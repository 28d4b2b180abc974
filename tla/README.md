# Verification of codex-flow

TLA+ specifications of the durable core of `codex-flow` (`src/codex_flow`): the
SQLite ledger, the supervising harness, and what they do when workers die, the
harness is killed, results arrive late and operators intervene. TLC checks the
specifications on small instances; TLAPS proves the most important properties
for every instance.

## The system

`codex-flow` runs model workers for milestones of a plan. All authority is in
one SQLite ledger; every public `Ledger` method is one transaction and every
transaction ends by re-validating the rows. Processes only act on what the
ledger says.

| Part | State | Operations | Talks to |
|---|---|---|---|
| Dispatch queue (`ledger.py`) | `dispatch_queue`, `attempt_capabilities`, `worker_liveness`, `recovery_state`, `retry_policies`, `recovery_controls`, `harness_authority` | enqueue, claim, issue capability, start, bind, heartbeat, adopt, exit, inspect, continue, retry, grant, rebind, cancel, submit, ingest | everybody, by transactions |
| Harness (`harness.py`) | one thread, its children, its epoch | recover, launch, serve requests, renew, reap, stop | the ledger; workers over a Unix socket |
| Worker (`worker.py`) | one process, one SDK thread, a private result file | bind, heartbeat, finish, submit, exit with a code | the harness |
| Control commands | `control_commands` | enqueue, send, acknowledge, reject, reconcile | harness, worker |
| Checkpoints and wakes | `wake_outbox` | arm, claim, deliver, reconcile | harness, controllers |
| Controller decisions | `controller_decisions`, `controller_decision_generations`, `controller_action_outbox` | prepare, claim, bind, submit, acknowledge, inspect, replace, reap | harness, controller processes |
| Programs | `runs`, `milestones`, `milestone_dependencies`, `integration_outbox`, `program_outcomes` | start, dispatch, accept, integrate, complete | program controllers |
| Executions | `executions`, `workspace_leases`, `execution_integrity` | start, resume, transition, lease, cancel | `controller.py` |
| Worktrees (`worktrees.py`) | Git worktrees | create, integrate, remove | programs |
| Service (`service.py`) | systemd unit, refresh fence, `service_refresh_starts` | install, refresh, restart | harness, ledger |
| Control acceptance (`harness.py`, `ledger.py`) | `h4.lifecycle` facts, `dispatch_terminal_integrity` | record a candidate, dispatch reviews, repair, accept, reconcile | dispatch queue, executions |
| Lifecycle hooks (`plugins/.../hooks/lifecycle.py`) | handoff records | start, stop, delegate | Codex |
| Diagnostics, TUI, CLI, pilots, parsing | rings, views, reports | append, render, parse | users |

What is hard here, and cannot be arranged in a unit test: a harness killed
between two of its transactions; a worker that dies before, while or after its
result is delivered; a restarted harness that finds workers of its predecessor;
a cancellation racing a result; budgets that several transactions consume; a
single thread whose scans depend on each other's outcome.

## Modules

### `DispatchLedger`

One variable per table, restricted to the columns that decide something; one
action per `Ledger` method. `queue[d]` is the row of dispatch `d` (`state`,
`attempt`, `epoch` of the claim, `thread`, `result`, `ready` for
`available_at`), `cap[d]` its capability (`attempt` 0 for no row; `status` tells
valid, expired and consumed apart), `live[d]` the bound process (`attempt` 0 for
no row), `recovery[d]` and `policy[d]` the budgets and what they decide,
`cancelAction[d]` whether a cancel action is recorded, `authority` the harness
lease with its epoch and the refresh fence.

What is abstracted, and why it is sound:

- identities: a worker process, its token and its result are the attempt they
  belong to, a thread is the attempt that created it. Every comparison the code
  makes between identities is a comparison of attempts, threads or epochs;
- time: a timestamp is compared only with now, so it is "future" or "due", and
  the passing of time is an action (`EligibilityPasses`, `AvailabilityPasses`,
  `CapabilityExpires`, `LeaseExpires`);
- failure classes that no budget retries are one, `closed`; an exit nobody
  classified is `unknown`; `post_identity_loss` is named by no worker exit code
  and is left out;
- `result_submitted` exists only inside a transaction;
- the revision of `retry_policies` only makes an operator with a stale view
  retry, so operators act on the current row.

`Next` allows every order of calls. Two calls are narrower than the method, as
the only caller makes them: a claim is closed for human attention only while
no bound worker can be running, and a capability is issued for a claimed row.
That the harness keeps to this is checked, not assumed: `WorkflowHarness`
refines `DispatchLedger!Spec`.

### `WorkflowHarness`

`DispatchLedger` plus the harness thread and the processes. `pc` is the
thread's position: `recover_once` is a sequence of scans (`cancel`, `retained`,
`eligible`, `active`, `inspect`, `continue`), each over the rows `todo` it
selected when it began; a launch goes through `claimed`, `configured`,
`capped`, `starting` and `popen`, one transaction or system call each; `loop`
is the socket; `reap` the pass over the children after a renewal; `stop` the
termination of a worker after a cancel request. `proc[d][a]` is the process of
attempt `a`: it boots, reports its thread, writes its result file, and may die
at any moment. `Crash` kills the harness anywhere; the children survive it,
except those of an orderly `Shutdown`, which `close()` terminates. `orphans`
remembers processes that were launched and never bound, because the harness
died or the bind failed in between.

A dead worker's exit code is one its last phase allows, or none that is known; a
worker that wrote its result may still fail closed, when the harness refuses the
result or the thread does not end.
An inspection of a persisted thread (external SDK) answers anything that fits
whether the last turn of that thread finished. An operator request, a wake or a
worker request is served only at `loop`, as the socket is.

### `ControllerDecisions`

The decisions about one dispatch: decision `0` is the terminal one, decision
`c > 0` that of checkpoint cycle `c`. `book[d]` holds everything the ledger
stores about a decision: its row (`state`, `rev`, current generation `gen`,
claimant `kind`, `token`, `lease`, whether the deadline passed, `late`), its
two generation rows, its wake and its committed action. A ledger method is a
pair of operators: the guard (`ClaimOk`) and the rows it writes (`Claim`); a
call commits only if `BookValid`, the validator, accepts the result, as
`_transaction` does. `child[n]` is the `n`-th controller process: in mode `run`
it claims, prepares, opens and binds a thread, runs a turn, submits and
acknowledges (`ControllerGenerationRunner.run`); in mode `recover` it
acknowledges what is owed, or reads the thread once and records, submits and
acknowledges what it found (`ControllerGenerationRecovery.recover`). `harness`
is the position of the harness thread: it delivers wakes, reaps processes,
visits every decision (`Schedule`), launches, and answers requests only at
`serve`. `held[d]` is the claim token an operator was given.

A request may be refused, find no harness, or be applied while its answer is
lost, since the client waits five seconds for a thread that may be busy. A
process may die between any two requests; a killed harness leaves its processes
running, an orderly stop terminates them. Threads and bundles outlive their
process (`Ended`). Abstracted: a token is the revision its claim created, a
prompt the token it quotes, a thread the process that opened it, a bundle one
action and its thread; leases and deadlines are passed or not, and since a
claim lasts as long as a decision's window, a claim that was never renewed
expires only after the deadline. The retry policy a bundle may change is in
`DispatchLedger`. Program decisions share the tables and are left for
`Programs`. Operations no process of the package calls
(`authorize_ambiguous_controller_replacement`, replanning, reconciliation of a
wake) are not actions.

### `ReviewedTrunk` and `Programs`

`ReviewedTrunk` is what a program promises: verdicts are given on subjects, a
subject is approved when every declared reviewer accepted it, none objects and
everything it depends on is delivered, and only approved commits enter the
trunk, each milestone once. It knows no controllers, bundles or crashes.

`Programs` is the program as `ledger.py`, `harness.py`, `program_controller.py`
and `worktrees.py` run it. `db` is the ledger: the program row (`prog`), one
`node` per milestone (state, subject, reviews, promotions, integration), the
dispatches `work[m][role]` by generation, and the decisions `dec` with their
bundle and one receipt per external effect. Every transaction is an operator on
`db`. `git` is the trunk; `harness` is the position of the thread inside an
outbox it applies. A crash may come between the change an effect makes and its
receipt, in the ledger or in Git, and `Replay` goes through the open outboxes
again. `Programs` implements `ReviewedTrunk` (`ImplementsReviewedTrunk`), where
approved means promoted (`ApprovedOf`), the verdicts are the recorded reviews
(`VerdictsOf`) and the trunk is Git's, commits of others included.

An integration compares Git with the head its action expects (`a.base`), which a
receipt must name as the row's (`integ.base`) does: a second action for a row
that is still pending leaves the row alone and may expect a newer head. Evidence
is hashed again action by action (`Passes`, `Found`), before a launch with that
of all dependencies, in a promotion only what it closes (`SpoiledIn`). A candidate
is adopted with the status its milestone had last (`Inherits`, `Readopted`); that
of a milestone integrated before the program is the commit it is registered with,
subject 1.

Abstracted: a controller process is one claim and one submission (its crashes
and recovery are those of `ControllerDecisions`); a subject is the executor
generation that made it; a worktree is left out; a replay pass that changes
nothing is no step. The serial mode in the current checkout is not modelled,
and `reconcile_program_candidate`, `record_program_candidate` and
`record_program_event` have no caller in the package.

### `Executions`

Executions of milestones in shared workspaces, driven by `controller.py`.
`rows[e]` is what the ledger stores of execution `e`: status, checkpoint,
milestone, claim, thread, the `turn_starting` marker, the turn, baseline and
terminal facts, and the App-native row `host`. `leases` are the workspace
leases. `tree[w]` is the content of a workspace in the parts the code tells
apart: the paths each execution owns, the protected paths and Git's own state.
A part is a version, 0 or 1, and Git's never returns to 0. `ctl` is the command
that holds `controller.lock`; an action is one durable step of a command, and a
crash may come after each. `Edit` changes a tree at any moment. `calls[e]`
counts the SDK calls made for `e`.

Left out: plugin and permission facts, the HMAC of capsules and receipts,
verification of App-native receipts, projections, the replay of event history,
and the legacy review rounds.

### `ControlAcceptance`

How one ordinary milestone is accepted without a program: `facts` is its
sequence of `h4.lifecycle` facts, `rows`, `claims` and `order` the dispatches
of its executor and reviewers, `capture` the terminal integrity of the repair,
`retained` that of a direct execution. `job[p]` is what a process, the harness
or an operator's `reconcile_control_execution`, still has to do with the result
it is handling; a crash loses it. `scan` are the results `recover_once` still
has to record again. `head` and `dirty` are the checkout. A check and the
transaction after it are one step.

### `ControlCommands`

Steering and interrupting the live turn of one dispatch. `client[r]` is what
the terminal interface holds of request `r`, `inbox` the connections the
harness has not served, `cmds` the table, `active` the turn bound in the
harness's memory, `worker` the worker's main and control threads with what it
applied, `calls` every call of the SDK handle. A sender that stops waiting
leaves its message behind, which is served later, unanswered. A request of the
worker is one step with its service; the end of a turn is one step with its
being observed, a worker's death with its being reaped, since nothing reads the
state between. An inspection that finds the last turn interrupted or completed
decides the interrupt sent to it; one that finds no outcome, as when the snapshot
is malformed or another process writes the thread, leaves it unresolved, and an
active writer is inspected again later (`Inspected`). Left out: expiry of the
worker's capability, the CLI's command path, which does not reconcile, payloads,
and several interfaces at once.
`mark_control_command_sent` has no caller.

### `MCDispatchLedger`, `MCWorkflowHarness`, `MCPrograms`, `MCExecutions`, `MCControlAcceptance`, `MCControlCommands`

Values for the constants; in `MCControlAcceptance` also two statements of the
repository that the code does not keep. The runs of `ControllerDecisions` need
no more than their configuration.

### `DispatchLedgerProofs`, `WorkflowHarnessProofs`, `ControllerDecisionsProofs`, `ReviewedTrunkProofs`, `ProgramsProofs`, `ExecutionsProofs`, `ControlAcceptanceProofs`, `ControlCommandsProofs`

The proofs, see below.

## Runs

| Run | Instance | Shows |
|---|---|---|
| `ledger` | 1 dispatch, 2 inspections, 1 continuation, 1 retry per class, 2 operator attempts, 2 epochs | `TypeOK`, `RowsValid`, `RunningWorkerIsOwned`, `TerminalRowsAreFinal`, `ClaimsFollowExit`, `AttemptsArePaidFor` for every order of transactions |
| `harness_one` | the same, with the thread, processes and crashes | the ledger's records are true: `RecordedExitsAreReal`, `ResultsAreProduced`, `OneWorkerPerDispatch`, `CancelledWorkIsStopped`; and the refinement `Spec` |
| `harness_pair` | 2 dispatches, no retries, native profile, fairness | two dispatches on one thread: `DeadChildrenAreReaped`, `ServiceResumes` |
| `controller_recovery` | 1 checkpoint without source task, 3 processes, 1 crash or stop | `OneEffectPerDecision`, `EffectFromCurrentGeneration`, `InspectionReadOnce`, `OwedAcknowledgementHasProcess`, `TypeOK` (which includes the validator) |
| `controller_operator` | a checkpoint and a terminal decision with source task, 1 process, 1 operator action | `CommittedEffectIsFinal`, `HumanClaimIsRespected` while the dispatch ends or is cancelled |
| `programs_git` | `b` depends on `a`, both merged; two reviewers and one; a repair and a re-review each; one crash or other failure, one commit of others | `ImplementsReviewedTrunk`; `LedgerTrunkIsGit`, `OneExecutor`, `FailuresReachHuman`, `TypeOK` (with the validator of decisions); `EffectsSettle` under fairness |
| `programs_evidence` | evidence gathered on a merged milestone, with architecture review, adoption, cancellation, lost results and evidence that changes later | `CompletedMeansClosed` |
| `executions` | 2 executions in one checkout and lane, SDK and host, 3 edits, 2 crashes | `WorkspaceExclusive`, `CallsNeverRepeated`, `AcceptedWorkSurvives`, `TypeOK` (with the validator's row rules) |
| `control` | objective and architecture reviews, direct and queued, one repair, one foreign edit, one crash, one lost worker | `AcceptedIsReviewed`, `ArchitectureIsLate`, `TypeOK`; `ReviewsConclude` under fairness |
| `commands` | a steer and an interrupt, 2 turns, 2 workers, 1 crash of the harness, 1 lost reply | `CallsAreExact`, `VerdictsAreEarned`, `ToldIsTrue`, `TypeOK` (with the validator of commands) |
| `claim_repeated_review` | one objective review, no faults | finding: a recorded review repeated after the repair blocks the milestone |
| `claim_late_review` | objective and architecture reviews, no faults | finding: after an objective repair the architecture review cannot be dispatched |

Bounds. `Dispatches` is the number of rows: transactions touch one row, so one
is enough for the ledger's own properties (the proofs cover any number), two
let the thread meet one row while it works on another. The budgets are smaller
than the code's (4 inspections, 5/1/2/3 retries) but each is reached, exceeded
by one more failure, and combined with the others. `MaxAttempt` bounds operator
retries only. `MaxEpoch` = 2 lets a second harness find everything a first one
left. Deadlock checking is off because a system whose work is done, or whose
harness may not start again within `MaxEpoch`, stops. For the decisions, three
processes are the first controller, its recovery and the replacement, and one
crash makes any of them an orphan that races the next; the operator run trades
processes for a second decision, an operator and the end of the dispatch. The
actions a bundle may ask for are divided between the two runs; `MaxCycle` = 1
reaches the exhausted checkpoint budget by one rearmed cycle. Deadlock checking
is off here too: processes and operator actions are bounded.

For programs, two milestones give every kind of dependency one edge, two
executor and reviewer generations a repair and its re-review, and `MaxRev` = 14
is never what ends a behaviour of the chain and seldom one of the evidence run; the crash or failure may hit any
effect of any bundle. `MaxBundle` = 1 keeps bundles to one action, which may
still have several effects. `Mode` "already" is in no run; the theorems cover it. For
executions, two are the holder of a workspace and its rival or successor; three
edits change a part, change another and change one back; two crashes interrupt
a resume that follows a crash. For the acceptance of a milestone two
generations are all the code has; `MaxHead` = 2 is the executor's commit and
its repair, and executors complete, with or without a decision blocker; the
other terminal statuses are in the model, and the same run with
`needs_decision` added to `Statuses` (507,938 states) passes too. For commands, two turns in one worker are a schema correction, two
workers a relaunch, and one lost reply makes a request late, looked up and sent
again. In all of them `CHECK_DEADLOCK FALSE` because work ends.

Fairness (`FairHSpec`). The harness thread keeps executing (`WF` of `Proceed`),
the service manager restarts it and a lease nobody renews runs out (`WF` of
`Start`, `LeaseRunsOut`). A request served after the renewal deadline renews
the lease itself and thereby skips the reaping pass, so the pass needs the
socket to be idle at some deadline again and again: `SF` of `RenewalTick`
states that, and it is the one assumption about the environment. It assumes away
that requests skip the pass for ever (harness.py:6247), which the code does not
exclude: `DeadChildrenAreReaped` says what such a pass achieves, not that there
is one. Workers, clients and the clock owe nothing.

In `Programs` the harness thread goes on with the effect it is in
(`WF` of `HarnessStep`) and reconciles the outboxes, as its loop does
(`WF` of `Replay`); controllers, workers and operators owe nothing. In
`ControlAcceptance` the harness goes on and restarts, and a worker hands in its
result or dies (`WF` per dispatch), which `ReviewsConclude` needs since a
reviewer that runs for ever would hold its verdict back. The claim runs and
`commands` check no liveness.

## Proofs

`DispatchLedgerProofs` proves, for every set of dispatches, all budgets and all
bounds (assumption `BudgetAssumption`: they are naturals):

- `LedgerInvariant`: `Spec => []LedgerInv`;
- `TypeCorrect`, `TransactionsKeepRowsValid`, `WorkersAreOwned`: the state
  invariants of the run `ledger`;
- `TerminalIsFinal`, `ClaimsAreExclusive`, `AttemptsCost`: its action
  properties.

`LedgerInv` is the conjunction of the row facts the validator demands, of
`WorkerOwned`, and of one fact that makes them inductive,
`UnlaunchedRowsAreBare`: a queued row has neither capability nor liveness.
Without it a claim could inherit the worker or the token of an attempt before.
The argument is by rows: every action changes at most one row (`OnlyRow`), one
lemma per action shows that this row stays well typed, keeps its facts and
changes only as the action properties allow (`RowStep`), and three lemmas lift
that to all rows. `_validate_rows` runs at the end of every transaction,
so `RowsValid` says that this check never fails for the actions modelled.

`ReviewedTrunkProofs` proves of the abstract program, for every set of
milestones, roles, dependencies and subjects: `TrunkTyped`, `TrunkMergedOnce`
(no milestone enters the trunk twice) and `TrunkOrdered` (what is on the trunk
was approved, and stands after what it depends on). The last is inductive only
with `Ready`: whatever was approved has its dependencies delivered, which stays
true because approvals and commits are never taken back.

`ProgramsProofs` proves, for any milestones, dependencies, modes, reviewers,
faults and bounds (`ProgramConstants`): `ProgramInvariant`, `TypesHold` (with the
validator of decisions and receipts), `LedgerTrunk`, `FailuresSeen`, and
`ImplementsTrunk`, the refinement, so that what is proved of `ReviewedTrunk`
holds of `Programs`. `Inv` has three parts.

- `DbOk`, the tables: a milestone is ACCEPTED exactly when a subject of it is
  promoted, only promoted subjects are closed or integrated, a stored action
  still has its targets eligible (`ActionFact`: dependencies are delivered for
  good), and a decision, its bundle and its receipts agree with one another,
  with a failure decision for each failed receipt (`DecOk`, `DecsOk`).
- `TrunkOk`, ledger against Git: up to the recorded head the program's commits
  are exactly the applied rows, each where its row says; beyond the head stands
  at most one, the next, and its row is not applied. By itself
  `LedgerTrunkIsGit` is not inductive: after a crash between the update of the
  ref and its receipt only the base tells whether the commit is there. A commit
  is appended only if Git is at the head the action expects, and that head was
  reached (`ActionFact`), so it is the ledger's own.
- `HarnessOk`, the thread: where it is inside an outbox the effect is still
  owed, the actions of the bundle are about the current subjects, a worker
  about to be enqueued was claimed (`ClaimedFact`), a commit about to be
  recorded is on the trunk (`CommitFact`).

Every transaction is an operator on the tables, with one lemma each: it keeps
`DbOk`, and either leaves what the refinement sees alone (`Quiet`) or makes one
verdict, one approval or one commit, which is the step of `ReviewedTrunk`
(`Moves`). Thus the invariant and the refinement share the case split over
`Next` (`NextGood`).

`OneExecutorHolds` and `CompletedHolds` have a premise, `AdoptsInTime`, about the
candidate of a milestone that was integrated before the program ("already"): it
is not adopted while the milestone is STARTING and its executor may report, and
not adopted again with an unfinished status when the program is completed.
Without the first half both are false. The adoption moves STARTING on to
COMPLETED without looking at the live dispatch (ledger.py:12911-12931; only a
PLANNED milestone is checked for one, 12876-12887), so that a repair may start a
second executor, and a late result with a blocker for the whole program may
reopen what was completed. Without the second half `CompletedMeansClosed` is
false: a milestone that was accepted after its executor ended failed, blocked or
undecided may be adopted again, which gives it that result's blocker anew
(ledger.py:12815-12844) in a program that stays completed. TLC shows all of this
once "adopt" is among the faults of an instance with such a milestone. No
document says what should happen, so it is a hazard and not a finding. Where
nothing is adopted or no milestone is "already", the premise holds by itself
(`OrderWithoutAdoption`); git milestones may be adopted at any time, as in the run
`programs_evidence`.

`WorkflowHarnessProofs` proves, for every set of dispatches, all budgets and all
bounds, the refinement `HarnessImplementsLedger` (`HSpec => Spec`: every step of
the thread, a worker, a client or the clock is a transaction of the ledger on
one row, or leaves its tables alone) and the four properties of the run
`harness_one`: `ExitsAreReal`, `ResultsHaveProducers`, `OneWorkerRuns`,
`CancelledWorkStops`; with `HarnessTypeCorrect`. `HarnessInvariant` is the
inductive one: `HInv` adds to `LedgerInv` that every attempt after the first was
paid for (`AttemptFacts`, which also bounds the attempts and thereby the set of
processes), what the tables know of the processes (`ProcessFacts`: a process is
the attempt it was started for, what it wrote and whether it lives), and what
the thread relies on where it is (`PositionFacts`: between its read and its
transaction the row cannot have moved, because only the thread moves it). A
recorded exit is real only because a reaping pass holds the process it saw
dead, and that is a fact about a position. A step does one of four things to
the worker of its row (`Kept`, `Renewed`, `Exited`, `Delivered`), with one lemma
each; `HNextStep` collects the actions and is the step of both the invariant
and the refinement.

`ControllerDecisionsProofs` proves, for every set of decisions, any number of
processes, cycles, crashes and operator actions: `OneEffect`, `EffectsAreCurrent`,
`ReadsAreSingle`, `ReceiptsAreOwed`, `TypeCorrect` (with the validator), and the
action properties `EffectsAreFinal` and `HumansAreRespected`. One row by itself
is not enough: that an effect is made once follows from what the processes
still hold. `Inv` therefore has the row (`RowOK`: the validator's rules and what
only the order of transactions guarantees), the processes (`ChildFacts`: the
generation, token and thread a process remembers are the row's or are spent),
`ReaderFacts` (one process reads a generation), `ThreadFacts` (the thread of a
current generation is that of the process that opened it), `OwedFacts` and
`PositionFacts` (who acknowledges an effect, where the harness thread is) and
`DispatchFacts` (decisions are opened in order, the terminal one at the end). Every transaction is first a
function of the row; one lemma for each shows that a good row becomes a good
row that keeps what processes rely on (`Kept`).

`ExecutionsProofs` proves, for any executions, workspaces, lanes, edits and
crashes: `WorkspacesAreExclusive`, `CallsAreMadeOnce`, `TypeCorrect`, and the
action property `AcceptedWorkIsKept`. `Inv` relates a row's status to its
columns (`StatusFacts`), to the SDK calls made for it (`CallFacts`: a call was
made only if its marker was written before, which is why a resume can tell), to
its baseline and its leases (`BaseFacts`, `LeaseFacts`), and says what the command
that holds the controller's lock has made durable by the place where it is
(`ControlFacts`): nobody else writes the row meanwhile.

`ControlAcceptanceProofs` proves, for any declared modes, any statuses and
blockers executors report, any number of commits, edits, crashes and lost
workers: `AcceptedWasReviewed`, `ArchitectureComesLate`, `TypeCorrect`. `Inv`
reads the milestone's facts as a log: at most one candidate per generation and
per commit, a second one only after a first with a commit (`CandidateFacts`);
the commit named last is that of the latest candidate (`CurrentFacts`); a row or
a job is about a candidate that was reported complete and, as a repair, bound to
its capture (`RowFacts`, `JobFacts`); a recorded review is its row's answer for
ever (`ReviewFacts`). That a repeated result cannot make a second candidate is
the heart of it, and is `RecordResultKeeps`. The log only grows (`Longer`);
the lemmas say what each kind of growth (`Notes`, `Records`) preserves, in place
of an induction over the log.

`ControlCommandsProofs` proves, for every finite set of requests, any number of
turns, workers, lost replies and crashes: `CallsExact`, `VerdictsEarned`,
`UiTellsTheTruth`, `TypeCorrect`. `Inv` orders commands by their turns
(`CommandFacts`, `TurnFacts`), says that those of one turn are applied by one
process, oldest first, which remembers them (`BatchFacts`, `CallFacts`), what a
verdict rests on (`VerdictsAreEarned`) and what a message still under way may
say (`ClientFacts`): messages are served in the order they were sent, so a
look-up that is answered finds no earlier request of its own still unserved.

What proving changed in the models. An invariant that failed to be inductive, or
an operator the prover could not expand, showed where a definition was wrong or
said more than the code: `Launch` picks the first child not launched; `Attempts`
is bounded by at least the first attempt whatever `MaxAttempt` is; `Seen` of a
recovery with no peer and `Verdict` had overlapping `CASE` arms, of which TLA+
may take any, and are the code's chains of `if`; the commands of a batch and the
rows of a recovery scan are sets gone through in the order of their numbers
or of the queue, as the SQL's `ORDER BY` does, in place of sorted sequences; `MaxHead` is positive. The runs reach the states they reached before.

`ActionDo` and `EffectsOf` are split into one operator per transaction
(`Resolve`, `Promote`, `AuthoriseIntegration`, `EffectSet`) in `Programs`.

Only model-checked: liveness (`DeadChildrenAreReaped`, `ServiceResumes`, `EffectsSettle`,
`ReviewsConclude`), which this prover does not handle, as it does not handle
`ENABLED`. The proofs use no assumption beyond the named ones on the constants.

## Findings

Two, each with a run that exhibits it (`findings` in `PROJECT.json`):

- `claim_repeated_review`: `record_control_review` refuses the repeat of a
  review it has when a repair has replaced the candidate since
  (ledger.py:12591), and `recover_once` repeats every recorded result, so that
  a restart or a reaped child blocks a milestone in its second generation;
- `claim_late_review`: the first architecture dispatch after an objective
  repair asks for generation 2 and is refused because there was none of
  generation 1 (ledger.py:6657), so that such a milestone is never accepted.

Other behaviours the models have and a reader of the code should know. Where a
document says otherwise it is named; most are listed as hazards.

Dispatches and harness:

- a row in `recovery_retry_wait` whose time has come is looked at only after a
  child was reaped or at a restart (harness.py:6268; the history,
  peer-thread-workflow-history.md:6823, has "recovery_retry_wait --eligible-->
  recovery_inspection_pending");
- an exit that exhausts the inspections closes the row for a human, and the
  retry policy overwrites the strategy RETRY asks for (ledger.py:10217), so the
  human's RETRY is refused (history, line 7486);
- a result found by inspection is ingested although a cancellation is pending
  (ledger.py:9191; history, line 10955: "Give a pending cancellation precedence
  over result terminalization");
- the second provider continuation cannot launch: every launch writes the
  default budget of 1 again, which is refused as a reset (ledger.py:10460).

Controller decisions:

- an expired model claim is never recovered: the scheduler asks for a process
  (harness.py:829-830) and the launch check refuses it (ledger.py:15429);
- a bundle that asks for `cancel_dispatch` never commits, and a dispatch whose
  decision carries `require_human_attention` cannot be cancelled: the
  validator rejects the rows both would leave;
- an inspection that completed but whose claim expired is reaped to
  `awaiting_claim` with its claimant kept, and the launch check refuses it;
- a controller that fails its profile check clears a human's live claim;
- a wake caught by a crash becomes ambiguous and blocks its decision;
- after a rate limit the bundle quotes a revision that has passed and is refused
  as stale. Neither this nor the `cancel_dispatch` bundle violates a property:
  what never takes effect takes effect at most once;
- the refusal of a 65th checkpoint rolls its own disarming back and stops the
  harness at every start.

Programs:

- a crash between a worker's claim and its enqueueing leaves an orphan: the
  replay of a repair is refused and its effect fails; the replay of a review
  after its enqueueing adds a second reviewer generation, although outboxes are
  read "for idempotent effect replay" (ledger.py:14992);
- evidence that was closed before the crash makes the replay's revision stale:
  the effect fails and a completed program asks for a decision;
- a bundle whose queued repair finished before its replay is never eligible
  again, and its outbox stays committed for ever (`EffectsSettle` speaks of
  eligible bundles);
- closing evidence, an integration already made and a resolution emit no
  decision, so dependents wait for an operator's start; a resolution after the
  integration never refreshes the completion;
- if a foreign commit lands after a crash that followed the ref update, or the
  checkout is dirty after it, a conflict is recorded for a trunk that advanced;
- the refresh fence, armed during an enqueue, makes the effect fail for good;
- integration does not look at the reviews again;
- an already integrated milestone is adopted although its executor runs
  (ledger.py:12911), or again in a completed program (see the proofs of
  `Programs`).

Executions:

- a task prepared for and bound by the hosting app can be resumed by the
  controller, which runs an SDK turn in the host's thread (controller.py:2194;
  docs/reviews/codex-controller-compatibility.md:248: SDK-headless control "is
  never substituted for an App-native request");
- edits of unowned paths between the scope check and the capture of the
  baseline become part of it (controller.py:2065-2069), and
  `prepare_app_native` does not check predecessors again after its capture;
- the controller's state error is lost when the process dies after the turn was
  recorded (controller.py:2247);
- a change of Git's state after an accepted execution blocks every successor of
  the workspace; `start` after `enqueue` reuses the queue's claim.

Control acceptance:

- an error of the controller raised while a result is recorded leaves the
  accept loop (harness.py:4812), the harness exits and meets it at every start;
- a change of the checkout during review blocks the milestone, and the later
  reconciliation conflicts with the result already recorded;
- a result taken from a dead worker's thread, and the death of an adopted
  worker, wait for the next `recover_once` (`ReviewsConclude` excludes both);
- an operator that dies between recording and enqueueing reviews leaves the
  milestone in review until `reconcile_control_execution`, which nothing in the
  package calls, is called again;
- a decision blocker during review ends blocked as a rejected result, because
  REVIEWING may not become NEEDS_DECISION; executions that were only queued
  never complete a repair.

Control commands:

- a request that another action of the interface cuts off (tui.py:606) is not
  marked uncertain and is resent without a look-up; if its turn ended meanwhile
  the active-turn check refuses it before the idempotent return
  (harness.py:3675-3679), and the user is told "rejected" of a command that may
  have been applied. `ToldIsTrue` excepts these;
- a lost acknowledgement ends the control loop (worker.py:798-801), so later
  commands of that turn are not applied;
- commands stay open for ever when the harness restarts and the result arrives
  before the next poll, after a cancellation, after a retained result, and after
  a crash between the commit and their closing (history, line 7497, says that
  they become `unresolved`);
- a command is accepted for the turn of an adopted worker that is dead already.

## Plan

1. (done) `DispatchLedger`, `WorkflowHarness`, refinement, ledger proofs.
2. (done) `ControllerDecisions`: the wake outbox, decisions, generations,
   claims, action bundles and inspections.
3. (done) `ReviewedTrunk`, `Programs` with the integration of worktrees, the
   refinement, and the proofs of the abstract program.
4. (done) `Executions` with leases, baselines and host-owned work.
5. (done) `ControlAcceptance` and `ControlCommands`.
6. (done) Proofs: the inductive invariants of `WorkflowHarness`,
   `ControllerDecisions`, `Executions`, `ControlAcceptance`, `ControlCommands`
   and `Programs`, that `WorkflowHarness` refines `DispatchLedger`, and that
   `Programs` refines `ReviewedTrunk`.
7. `ServiceRefresh`: no refresh under a running child, a rolled-back refresh
   reopens the fence.

## Not modelled

Parsing and schema validation (`contracts.py`, `domain.py` constructors),
rendering and argument handling of the TUI and the CLI, pilots and sentinels,
diagnostics and redaction, native profile and plugin capability resolution:
pure functions, views or I/O without concurrent state. The systemd unit and the
refresh of the installed service, of which only the fence is modelled. The
lifecycle hooks of the legacy route, which keep files of their own. Ledger
migrations of old schema versions. Methods no process of the package calls
(`submit_queue_result`, `recover_queue_dispatch`, `retry_dispatch`,
`record_retry_failure`, `cancel_queue_dispatch`). A long SDK inspection that
outlives the harness lease. `_issue_and_spawn_verified_worker` also handles a
worker that submits before its liveness is bound; the same thread serves the
socket, so it cannot.
