-------------------------- MODULE ControlAcceptance --------------------------
(***************************************************************************)
(* The acceptance of one ordinary control milestone: the executor's result *)
(* becomes a candidate commit, the declared authorities review it, one     *)
(* bounded repair may replace it, and the milestone is accepted, blocked   *)
(* or failed.  src/codex_flow/harness.py keeps the control (the result     *)
(* intake, _record_control_queue_result, _advance_control_acceptance and   *)
(* the recovery scan that repeats them), src/codex_flow/ledger.py the      *)
(* transactions and the h4.lifecycle facts they read back.                 *)
(*                                                                         *)
(* Two processes act: the harness, whose one thread takes results in and   *)
(* repeats every recorded result whenever it starts or reaps a worker, and *)
(* an operator calling reconcile_control_execution.  A job is what a       *)
(* process still has to do, in memory: a crash loses it.                   *)
(*                                                                         *)
(* Commits of the one checkout are the numbers 1, 2, ... in the order they *)
(* are made, each the direct child of the one before; 0 is the base        *)
(* commit of the capsule and, in a fact or a row, "no commit".  dirty      *)
(* stands for every difference, other than HEAD, from what a terminal      *)
(* capture saw: working tree bytes, protected paths, Git authority.  The   *)
(* checks of an action and the transaction after them are one step.        *)
(***************************************************************************)
EXTENDS Integers, FiniteSets, SequencesExt

CONSTANTS
    Modes,     \* the acceptance modes the capsule declares
    Statuses,  \* the terminal statuses executors report
    Blockers,  \* the blockers they report with a completed result
    MaxHead,   \* commits made in the checkout, at most
    MaxEdits,  \* edits or commits by somebody else, at most
    MaxCrash,  \* deaths of the harness or the operator's process, at most
    MaxLost    \* workers that die before they hand their result in, at most

AllModes == {"objective", "visual", "architecture"}

ASSUME ModesAssumption == Modes # {} /\ Modes \subseteq AllModes
ASSUME AnswersAssumption ==
    /\ Statuses \subseteq {"completed", "failed", "external_blocked", "needs_decision"}
    /\ Blockers \subseteq {"none", "external", "decision", "execution"}
ASSUME BoundsAssumption ==
    MaxHead \in Nat \ {0} /\ MaxEdits \in Nat /\ MaxCrash \in Nat /\ MaxLost \in Nat

VARIABLES
    ms,        \* the milestone's workflow state
    facts,     \* its h4.lifecycle facts, in sequence
    retained,  \* terminal HEAD of a completed direct execution, 0 if it was not started
    head,      \* HEAD of the checkout
    dirty,     \* whether the checkout holds bytes beside HEAD
    capture,   \* dispatch_terminal_integrity of the repair: commit and whether bound
    claims,    \* the dispatches claimed
    rows,      \* dispatch_queue
    order,     \* the dispatches of the queue, in queue sequence
    job,       \* what each process is doing
    scan,      \* the rows recover_once still has to repeat
    up,        \* whether the harness runs
    budget     \* edits, crashes and lost workers so far

durable == <<retained, head, dirty, order>>
vars == <<ms, facts, retained, head, dirty, capture, claims, rows, order, job, scan, up, budget>>

(* A reviewer is named by the mode it has authority over. *)
Roles == Modes

(* Mutant: architecture reviews together with the others. *)
InitialRolesMissing == Modes

(* The authorities that must converge before the late architecture review. *)
InitialRoles == IF Modes = {"architecture"} THEN Modes ELSE Modes \ {"architecture"}

Executor(g) == <<"executor", g>>
Dispatches == ({"executor"} \union Roles) \X (1 .. 2)
Procs == {"harness", "operator"}

Closed == {"ACCEPTED", "FAILED", "BLOCKED"}
States == {"STARTING", "COMPLETED", "REVIEWING", "REPAIR_REQUIRED", "NEEDS_DECISION"} \union Closed

Verdicts == {"accept", "reject", "object", "stray"}

(* child: this harness started its worker; inspected: its result was read from *)
(* the thread of a dead worker.                                                 *)
NoRow == [state |-> "none", sha |-> 0, findings |-> {}, says |-> "none", blocker |-> "none",
          child |-> FALSE, inspected |-> FALSE]
NoCapture == [sha |-> 0, bound |-> FALSE]
Idle == [at |-> "idle", d |-> Executor(1), sha |-> 0]

(* tree is the checkout a candidate was found in; the other facts name none. *)
NoTree == <<0, FALSE>>

Fact(kind, sha, g, by, says) ==
    [kind |-> kind, sha |-> sha, gen |-> g, by |-> by, says |-> says, blocker |-> "none",
     findings |-> {}, tree |-> NoTree]
Plain(kind, sha, g) == Fact(kind, sha, g, "none", "none")
CandidateFact(g, sha, by, says, blocker) ==
    [Fact("candidate_recorded", sha, g, by, says) EXCEPT !.blocker = blocker, !.tree = <<head, dirty>>]

-----------------------------------------------------------------------------
(* What the facts say. *)

Recorded(kind) == {f \in Range(facts) : f.kind = kind}

(* The commit of the last fact that names one. *)
CurrentSha ==
    LET named == {i \in DOMAIN facts : facts[i].sha # 0}
    IN  IF named = {} THEN 0 ELSE facts[Max(named)].sha

(* The greatest executor generation that recorded a commit, 0 if none did. *)
CandidateGeneration(sha) ==
    Max({0} \union {f.gen : f \in {x \in Recorded("candidate_recorded") : x.sha = sha}})

CandidateBlocker(sha) ==
    LET of == {i \in DOMAIN facts : facts[i].kind = "candidate_recorded" /\ facts[i].sha = sha}
    IN  IF of = {} THEN "none" ELSE facts[Max(of)].blocker

Reviews(g, sha) == {f \in Recorded("review_completed") : f.sha = sha /\ f.gen = g}
Blocking(f) == f.says \in {"reject", "object"}

(* The reviewers whose review has a promotion-blocking P0 or P1 finding. *)
EligibleFindings(g, sha) == {f.by : f \in {x \in Reviews(g, sha) : x.says = "reject"}}

RepairFindings(sha) == UNION {f.findings : f \in {x \in Recorded("repair_requested") : x.sha = sha}}
RepairRequested(sha) == \E f \in Recorded("repair_requested") : f.sha = sha

-----------------------------------------------------------------------------
(* What the checkout says. *)

(* A completed direct execution: the checkout is exactly its terminal state. *)
ControlTerminalAuthority == retained # 0 /\ head = retained /\ ~dirty

(* The repair's capture is bound to its result and is still the checkout. *)
RepairAuthority(sha) ==
    /\ capture.sha = sha /\ capture.bound
    /\ rows[Executor(2)].says = "completed"
    /\ head = sha /\ ~dirty

(* Before the result is taken in: captured, unbound, still the checkout. *)
PreingestionAuthority ==
    /\ capture.sha # 0 /\ ~capture.bound
    /\ head = capture.sha /\ ~dirty

(* The candidate commit that the inspection of the checkout finds. *)
InspectedSha(g) == IF g = 1 /\ dirty THEN 0 ELSE head

(* The repair made no commit: the inspection refuses a predecessor as its own successor. *)
InspectionRefused(g) == g = 2 /\ head <= rows[Executor(2)].sha

-----------------------------------------------------------------------------
Init ==
    /\ \/ \* enqueued for a worker
          /\ ms = "STARTING" /\ retained = 0 /\ head = 0
          /\ rows = [d \in Dispatches |-> IF d = Executor(1) THEN [NoRow EXCEPT !.state = "queued", !.child = TRUE]
                                          ELSE NoRow]
          /\ order = <<Executor(1)>>
       \/ \* executed by the controller itself, and terminal
          /\ ms = "COMPLETED" /\ retained = 1 /\ head = 1
          /\ rows = [d \in Dispatches |-> NoRow] /\ order = <<>>
       \/ \* both: a start by the controller used the queue's claim
          /\ ms = "COMPLETED" /\ retained = 1 /\ head = 1
          /\ rows = [d \in Dispatches |-> IF d = Executor(1) THEN [NoRow EXCEPT !.state = "queued", !.child = TRUE]
                                          ELSE NoRow]
          /\ order = <<Executor(1)>>
    /\ facts = <<>>
    /\ dirty = FALSE
    /\ capture = NoCapture
    /\ claims = {Executor(1)}
    /\ job = [p \in Procs |-> Idle]
    /\ scan = {}
    /\ up = TRUE
    /\ budget = [edits |-> 0, crashes |-> 0, lost |-> 0]

-----------------------------------------------------------------------------
(* One transaction that appends a fact and changes the state, refused when the *)
(* milestone is not in the expected state or may not go to the next one.       *)
TransitionOk(from, to) == ms = from /\ ~(from \in {"REVIEWING", "REPAIR_REQUIRED"} /\ to = "NEEDS_DECISION")

Transition(to, fact) == ms' = to /\ facts' = Append(facts, fact)

Continue(p, at) == job' = [job EXCEPT ![p].at = at]
Done(p) == job' = [job EXCEPT ![p] = Idle]

(* A result that cannot be processed closes the milestone, unless it is closed; *)
(* the operator's call only raises.  The fact names no candidate.               *)
ControlResultIssue(p) ==
    /\ IF p = "operator" \/ ms \in Closed
       THEN UNCHANGED <<ms, facts>>
       ELSE Transition("BLOCKED", Plain("control_result_rejected", 0, 0))
    /\ Done(p)

(* record_control_executor_result refuses what conflicts with its facts. *)
ResultConflicts(g, sha, says, fact) ==
    LET existing == CurrentSha
        prior == CandidateGeneration(existing)
        same == {f \in Recorded("candidate_recorded") : f.gen = g}
    IN  \/ /\ g = 2 /\ says = "completed"
           /\ (~capture.bound \/ capture.sha # sha \/ dirty)
        \/ g = 1 /\ retained # 0 /\ (sha # retained \/ dirty)
        \/ IF same # {} THEN same # {fact}
           ELSE IF existing # 0 /\ g > prior
                THEN prior # 1 \/ ~RepairRequested(existing) \/ sha = existing
                ELSE existing # 0 /\ existing # sha

(* The state a terminal result leads to, "refused" where the code raises. *)
ResultState(sha, says) ==
    IF says = "completed" /\ sha # 0
    THEN IF ms \in {"STARTING", "COMPLETED", "REPAIR_REQUIRED", "REVIEWING"} THEN "REVIEWING" ELSE "refused"
    ELSE LET target == CASE says = "external_blocked" -> "BLOCKED"
                         [] says = "needs_decision" -> "NEEDS_DECISION"
                         [] OTHER -> "FAILED"
         IN  IF ms \in {"STARTING", target} \/ (ms = "REPAIR_REQUIRED" /\ target # "NEEDS_DECISION")
             THEN target ELSE "refused"

(* The candidate, and the supersession of the one it repairs. *)
RecordControlExecutorResult(p, g, sha, by, says, blocker) ==
    LET fact == CandidateFact(g, sha, by, says, blocker)
        predecessor == CurrentSha
        succeeds == predecessor # 0 /\ g > CandidateGeneration(predecessor) /\ sha # 0
        replayed == fact \in Recorded("candidate_recorded")
        reviewable == says = "completed" /\ sha # 0
    IN  IF ResultConflicts(g, sha, says, fact) \/ (~replayed /\ ResultState(sha, says) = "refused")
        THEN ControlResultIssue(p)
        ELSE /\ IF replayed THEN UNCHANGED <<ms, facts>>
                ELSE /\ ms' = ResultState(sha, says)
                     /\ facts' = facts \o <<fact>> \o
                            (IF succeeds THEN <<Plain("candidate_superseded", sha, 2),
                                                Plain("reviews_invalidated", sha, 2)>> ELSE <<>>)
             /\ IF reviewable THEN job' = [job EXCEPT ![p] = [at |-> "reviews", d |-> Executor(g), sha |-> sha]]
                ELSE Done(p)

-----------------------------------------------------------------------------
(* Enqueueing a dispatch is a claim and then a queue row, two transactions. *)

(* A role's generations follow each other; a repair needs REPAIR_REQUIRED and a *)
(* review a milestone whose execution is over.                                  *)
ClaimAllowed(d) ==
    /\ d[2] = 1 + Max({0} \union {c[2] : c \in {x \in claims : x[1] = d[1]}})
    /\ IF d[1] = "executor" THEN ms = "REPAIR_REQUIRED" ELSE ms \notin {"STARTING", "FAILED"}

Claim(d) ==
    /\ claims' = claims \union {d}
    /\ ms' = IF d[1] = "executor" THEN "STARTING" ELSE ms

(* Mutant: the row has no place in the queue's sequence. *)
InsertRowUnordered(d, sha, findings) ==
    /\ rows' = [rows EXCEPT ![d] = [NoRow EXCEPT !.state = "queued", !.sha = sha,
                                               !.findings = findings, !.child = TRUE]]
    /\ UNCHANGED order

InsertRow(d, sha, findings) ==
    /\ rows' = [rows EXCEPT ![d] = [NoRow EXCEPT !.state = "queued", !.sha = sha,
                                               !.findings = findings, !.child = TRUE]]
    /\ order' = Append(order, d)

(* The next of the two transactions for a dispatch without a row. *)
Enqueue(p, d, sha, findings) ==
    /\ rows[d] = NoRow
    /\ \/ d \in claims /\ InsertRow(d, sha, findings) /\ UNCHANGED <<ms, facts, claims, job>>
       \/ d \notin claims /\ ClaimAllowed(d) /\ Claim(d) /\ UNCHANGED <<facts, rows, order, job>>
       \/ /\ d \notin claims /\ ~ClaimAllowed(d)
          /\ ControlResultIssue(p) /\ UNCHANGED <<claims, rows, order>>

(* An existing row must be bound to the same candidate and findings. *)
Reusable(d, sha, findings) ==
    rows[d] # NoRow /\ rows[d].sha = sha /\ rows[d].findings = findings

(* _queue_control_reviews, one dispatch of an initial authority at a time. *)
QueueControlReviews(p) ==
    LET g == job[p].d[2]
        sha == job[p].sha
        open == {r \in InitialRoles : rows[<<r, g>>] = NoRow}
        bound == \A r \in InitialRoles \ open : Reusable(<<r, g>>, sha, {})
    IN  /\ job[p].at = "reviews"
        /\ IF ~bound THEN ControlResultIssue(p) /\ UNCHANGED <<claims, rows, order>>
           ELSE IF open = {} THEN Done(p) /\ UNCHANGED <<ms, facts, claims, rows, order>>
           ELSE \E r \in open : Enqueue(p, <<r, g>>, sha, {})
        /\ UNCHANGED <<retained, head, dirty, capture, scan, up, budget>>

-----------------------------------------------------------------------------
(* reconcile_control_execution: the operator adopts a completed direct execution. *)
ReconcileControlExecution ==
    /\ job["operator"] = Idle
    /\ ControlTerminalAuthority
    /\ RecordControlExecutorResult("operator", 1, retained, "direct", "completed", "none")
    /\ UNCHANGED <<claims, rows, scan, up, capture, budget, durable>>

(* _record_control_queue_result for an executor's row. *)
RecordExecutor(d) ==
    LET g == d[2]
        row == rows[d]
        refused ==
            \/ g = 2 /\ row.findings # RepairFindings(row.sha)
            \/ g = 1 /\ row.says = "completed" /\ retained # 0 /\ ~ControlTerminalAuthority
            \/ g = 2 /\ row.says = "completed" /\ row.sha # retained
            \/ InspectionRefused(g)
            \/ g = 2 /\ row.says = "completed"
               /\ ~(RepairAuthority(head) /\ head = row.sha + 1)
    IN  /\ job["harness"].at = "record" /\ job["harness"].d = d /\ d[1] = "executor"
        /\ IF refused THEN ControlResultIssue("harness")
           ELSE RecordControlExecutorResult("harness", g, InspectedSha(g), "queue", row.says, row.blocker)
        /\ UNCHANGED <<claims, rows, scan, up, capture, budget, durable>>

(* Not bound to its row's context, not a review of the current candidate, or the *)
(* repair it reviews is no longer what was captured.                            *)
ReviewConflicts(d) ==
    \/ rows[d].says = "stray"
    \/ CurrentSha # rows[d].sha
    \/ d[2] = 2 /\ ~RepairAuthority(rows[d].sha)

(* _record_control_queue_result for a reviewer's row, up to the recorded fact. *)
RecordReview(d) ==
    LET row == rows[d]
        fact == Fact("review_completed", row.sha, d[2], d[1], row.says)
    IN  /\ job["harness"].at = "record" /\ job["harness"].d = d /\ d[1] # "executor"
        /\ IF ReviewConflicts(d) THEN ControlResultIssue("harness")
           ELSE /\ facts' = IF fact \in Range(facts) THEN facts ELSE Append(facts, fact)
                /\ Continue("harness", "advance")
                /\ UNCHANGED ms
        /\ UNCHANGED <<claims, rows, scan, up, capture, budget, durable>>

-----------------------------------------------------------------------------
(* _advance_control_acceptance after the review of dispatch d. *)

Reviewed(g, sha, roles) == roles \subseteq {f.by : f \in Reviews(g, sha)}
Stopped(g, sha, roles) ==
    \/ CandidateBlocker(sha) # "none"
    \/ \E f \in Reviews(g, sha) : f.by \in roles /\ Blocking(f)

(* The state after a rejection the milestone cannot repair. *)
RejectedState(sha) ==
    CASE CandidateBlocker(sha) = "external" -> "BLOCKED"
      [] CandidateBlocker(sha) = "decision" -> "NEEDS_DECISION"
      [] OTHER -> "FAILED"

(* A transition of the job that is over with it; refused, it is an issue. *)
Conclude(to, fact) ==
    /\ IF TransitionOk("REVIEWING", to) THEN Transition(to, fact) /\ Done("harness")
       ELSE ControlResultIssue("harness")
    /\ UNCHANGED <<claims, rows, order>>

(* Mutant: the milestone is accepted as soon as nothing blocks. *)
VerdictEarly(g, sha) ==
    IF ~Stopped(g, sha, InitialRoles) THEN "accept"
    ELSE IF g = 1 /\ EligibleFindings(g, sha) # {} THEN "repair" ELSE "reject"

(* What the reviews recorded so far ask for. *)
Verdict(g, sha) ==
    IF \E f \in Recorded("promotion_accepted") : f.sha = sha THEN "promoted"
    ELSE IF \E f \in Recorded("re_review_rejected") : f.sha = sha THEN "closed"
    ELSE IF ~Reviewed(g, sha, InitialRoles) THEN "wait"
    ELSE IF ~Stopped(g, sha, InitialRoles) /\ ~Reviewed(g, sha, Roles) THEN "architecture"
    ELSE IF ~Stopped(g, sha, InitialRoles) /\ ~Stopped(g, sha, Roles) THEN "accept"
    ELSE IF g = 1 /\ EligibleFindings(g, sha) # {} THEN "repair"
    ELSE "reject"

(* Enqueue the dispatch, or find it enqueued already. *)
EnqueueOnce(d, sha, findings) ==
    IF rows[d] = NoRow THEN Enqueue("harness", d, sha, findings)
    ELSE /\ IF Reusable(d, sha, findings) THEN Done("harness") /\ UNCHANGED <<ms, facts>>
            ELSE ControlResultIssue("harness")
         /\ UNCHANGED <<claims, rows, order>>

PromotionRecovered(sha) ==
    /\ IF ms = "REVIEWING" THEN Transition("ACCEPTED", Plain("promotion_recovered", sha, 0))
       ELSE UNCHANGED <<ms, facts>>
    /\ Done("harness") /\ UNCHANGED <<claims, rows, order>>

RequestRepair(sha, findings) ==
    /\ IF TransitionOk("REVIEWING", "REPAIR_REQUIRED")
       THEN /\ Transition("REPAIR_REQUIRED", [Plain("repair_requested", sha, 2) EXCEPT !.findings = findings])
            /\ UNCHANGED job
       ELSE ControlResultIssue("harness")
    /\ UNCHANGED <<claims, rows, order>>

Advance(d) ==
    LET g == d[2]
        sha == rows[d].sha
        verdict == Verdict(g, sha)
        findings == EligibleFindings(g, sha)
    IN  /\ job["harness"].at = "advance" /\ job["harness"].d = d
        /\ IF g = 2 /\ ~RepairAuthority(sha)
           THEN ControlResultIssue("harness") /\ UNCHANGED <<claims, rows, order>>
           ELSE \/ verdict = "promoted" /\ PromotionRecovered(sha)
                \/ verdict \in {"closed", "wait"} /\ Done("harness")
                   /\ UNCHANGED <<ms, facts, claims, rows, order>>
                \/ verdict = "architecture" /\ EnqueueOnce(<<"architecture", g>>, sha, {})
                \/ verdict = "accept" /\ Conclude("ACCEPTED", Plain("promotion_accepted", sha, g))
                \/ verdict = "repair" /\ ~RepairRequested(sha) /\ RequestRepair(sha, findings)
                \/ verdict = "repair" /\ RepairRequested(sha) /\ EnqueueOnce(Executor(2), sha, findings)
                \/ verdict = "reject"
                   /\ Conclude(RejectedState(sha),
                               Plain(IF g = 2 THEN "re_review_rejected" ELSE "candidate_blocked", sha, g))
        /\ UNCHANGED <<retained, head, dirty, capture, scan, up, budget>>

-----------------------------------------------------------------------------
(* Workers and the intake of their results.  Bound: nobody but the harness acts *)
(* on a milestone that is blocked or failed.                                    *)

Live == ms \notin {"BLOCKED", "FAILED"}

HarnessFree == up /\ job["harness"] = Idle /\ scan = {}

(* An executor commits; a reviewer is read-only. *)
WorkerCommits(d) ==
    /\ d[1] = "executor" /\ rows[d].state = "queued" /\ head < MaxHead /\ ~dirty /\ Live
    /\ head' = head + 1
    /\ UNCHANGED <<ms, facts, retained, dirty, capture, claims, rows, order, job, scan, up, budget>>

(* One direct clean successor of the candidate, with the protected paths of a *)
(* completed direct execution.                                                *)
Capturable == retained # 0 /\ head = rows[Executor(2)].sha + 1 /\ ~dirty

(* turn/completed of the repair: its checkout is captured once. *)
TurnCompleted ==
    /\ HarnessFree
    /\ rows[Executor(2)].state = "queued" /\ capture = NoCapture
    /\ Capturable
    /\ capture' = [sha |-> head, bound |-> FALSE]
    /\ UNCHANGED <<ms, facts, retained, head, dirty, claims, rows, order, job, scan, up, budget>>

(* What a worker may say: an executor its status and a blocker, a reviewer its verdict. *)
Answers(d) ==
    IF d[1] = "executor"
    THEN {<<"completed", b>> : b \in Blockers} \union {<<x, "none">> : x \in Statuses \ {"completed"}}
    ELSE {<<v, "none">> : v \in Verdicts}

Finished(d, answer, state) ==
    [rows EXCEPT ![d].state = state, ![d].says = answer[1], ![d].blocker = answer[2],
                 ![d].inspected = rows[d].state = "inspect"]

(* A repair's result is refused without its capture; a taken one is bound to it. *)
TakeIn(d, answer) ==
    IF d = Executor(2) /\ ~PreingestionAuthority
    THEN rows' = Finished(d, answer, "attention") /\ UNCHANGED capture
    ELSE /\ rows' = Finished(d, answer, "done")
         /\ capture' = IF d = Executor(2) THEN [capture EXCEPT !.bound = TRUE] ELSE capture

(* submit_result: the queue transaction, then the recording in the same process. *)
SubmitResult(d) ==
    /\ HarnessFree /\ rows[d].state = "queued"
    /\ \E answer \in Answers(d) : TakeIn(d, answer)
    /\ job' = IF rows'[d].state = "done"
              THEN [job EXCEPT !["harness"] = [at |-> "record", d |-> d, sha |-> 0]] ELSE job
    /\ UNCHANGED <<ms, facts, retained, head, dirty, claims, order, scan, up, budget>>

(* A worker dies with its turn completed and its result not handed in. *)
WorkerDies(d) ==
    /\ Live /\ budget.lost < MaxLost /\ rows[d].state = "queued"
    /\ \E answer \in Answers(d) : rows' = Finished(d, answer, "lost")
    /\ budget' = [budget EXCEPT !.lost = @ + 1]
    /\ UNCHANGED <<ms, facts, retained, head, dirty, capture, claims, order, job, scan, up>>

-----------------------------------------------------------------------------
(* recover_once repeats every terminal row and finds the dead workers. *)

(* Mutant: only the rows that ended well are repeated. *)
RepeatableGood(d) == rows[d].state = "done" /\ rows[d].says \in {"completed", "accept"}

Repeatable(d) == rows[d].state = "done"

Seen(row) == IF row.state = "lost" THEN [row EXCEPT !.state = "inspect"] ELSE row

RecoverOnce == scan' = {d \in Range(order) : Repeatable(d)}

Exited(d) == rows[d].child /\ rows[d].state \in {"done", "lost", "attention"}

(* The children of this harness whose turn is over are found dead. *)
ReapChildren ==
    /\ HarnessFree
    /\ \E d \in Dispatches : Exited(d)
    /\ RecoverOnce
    /\ rows' = [d \in Dispatches |-> Seen(IF Exited(d) THEN [rows[d] EXCEPT !.child = FALSE] ELSE rows[d])]
    /\ UNCHANGED <<ms, facts, retained, head, dirty, capture, claims, order, job, up, budget>>

(* The rows are repeated in the order of the queue. *)
Repeat(d) ==
    /\ up /\ job["harness"] = Idle /\ d \in scan
    /\ \E i \in DOMAIN order : order[i] = d /\ \A j \in 1 .. (i - 1) : order[j] \notin scan
    /\ job' = [job EXCEPT !["harness"] = [at |-> "record", d |-> d, sha |-> 0]]
    /\ scan' = scan \ {d}
    /\ UNCHANGED <<ms, facts, retained, head, dirty, capture, claims, rows, order, up, budget>>

(* The persisted thread of a dead worker has its envelope: taken in, not recorded. *)
IngestRecovered(d) ==
    /\ HarnessFree /\ rows[d].state = "inspect"
    /\ TakeIn(d, <<rows[d].says, rows[d].blocker>>)
    /\ UNCHANGED <<ms, facts, retained, head, dirty, claims, order, job, scan, up, budget>>

-----------------------------------------------------------------------------
(* Crashes and foreigners. *)

(* The harness dies; the workers it started live on and are not its successor's children. *)
HarnessCrash ==
    /\ up /\ Live /\ budget.crashes < MaxCrash
    /\ up' = FALSE /\ scan' = {} /\ Done("harness")
    /\ rows' = [d \in Dispatches |-> IF rows[d].state = "none" THEN rows[d] ELSE [rows[d] EXCEPT !.child = FALSE]]
    /\ budget' = [budget EXCEPT !.crashes = @ + 1]
    /\ UNCHANGED <<ms, facts, retained, head, dirty, capture, claims, order>>

Restart ==
    /\ ~up /\ up' = TRUE
    /\ RecoverOnce
    /\ rows' = [d \in Dispatches |-> Seen(rows[d])]
    /\ UNCHANGED <<ms, facts, retained, head, dirty, capture, claims, order, job, budget>>

OperatorCrash ==
    /\ job["operator"] # Idle /\ Live /\ budget.crashes < MaxCrash
    /\ Done("operator")
    /\ budget' = [budget EXCEPT !.crashes = @ + 1]
    /\ UNCHANGED <<ms, facts, retained, head, dirty, capture, claims, rows, order, scan, up>>

(* Somebody edits the checkout, restores it, or commits on it. *)
ForeignEdit ==
    /\ Live /\ budget.edits < MaxEdits
    /\ \/ dirty' = ~dirty /\ UNCHANGED head
       \/ head < MaxHead /\ head' = head + 1 /\ UNCHANGED dirty
    /\ budget' = [budget EXCEPT !.edits = @ + 1]
    /\ UNCHANGED <<ms, facts, retained, capture, claims, rows, order, job, scan, up>>

-----------------------------------------------------------------------------
HarnessStep ==
    \/ \E d \in Dispatches : RecordExecutor(d) \/ RecordReview(d) \/ Advance(d)
    \/ \E d \in Dispatches : IngestRecovered(d) \/ Repeat(d)
    \/ QueueControlReviews("harness") \/ ReapChildren \/ Restart

Next ==
    \/ HarnessStep
    \/ QueueControlReviews("operator") \/ ReconcileControlExecution
    \/ TurnCompleted
    \/ \E d \in Dispatches : WorkerCommits(d) \/ SubmitResult(d) \/ WorkerDies(d)
    \/ HarnessCrash \/ OperatorCrash \/ ForeignEdit

(* The harness's loop goes on and is restarted; a worker ends its turn. *)
Fairness ==
    /\ WF_vars(HarnessStep)
    /\ \A d \in Dispatches : WF_vars(SubmitResult(d) \/ WorkerDies(d))

Spec == Init /\ [][Next]_vars /\ Fairness

-----------------------------------------------------------------------------
(* The state and its facts have their types; the facts of a milestone name the *)
(* commits of its checkout; a row belongs to a claimed dispatch.               *)
TypeOK ==
    /\ ms \in States
    /\ \A f \in Range(facts) : f.sha \in 0 .. head /\ f.gen \in 0 .. 2
    /\ retained \in 0 .. 1 /\ head \in 0 .. MaxHead /\ dirty \in BOOLEAN
    /\ capture.sha \in 0 .. head /\ capture.bound \in BOOLEAN
    /\ claims \subseteq Dispatches
    /\ \A d \in Dispatches : rows[d].state \in {"none", "queued", "done", "attention", "lost", "inspect"}
    /\ \A d \in Dispatches : rows[d] # NoRow <=> d \in Range(order)
    /\ Range(order) \subseteq claims
    /\ \A p \in Procs : job[p].at \in {"idle", "record", "reviews", "advance"}
    /\ scan \subseteq Range(order) /\ up \in BOOLEAN

(* README.md:281 "Controller capsules require every declared review authority": *)
(* an accepted milestone has one candidate, every declared authority accepted   *)
(* exactly that commit in the generation that made it, its executor reported no *)
(* blocker, and a repaired one is the direct successor of the retained          *)
(* candidate that the turn's end captured and the result was bound to.          *)
AcceptedIsReviewed ==
    ms = "ACCEPTED" =>
        LET c == CurrentSha
            g == CandidateGeneration(c)
        IN  /\ c # 0 /\ CandidateBlocker(c) = "none"
            /\ \A r \in Roles : \E f \in Reviews(g, c) : f.by = r /\ f.says = "accept"
            /\ ~\E f \in Reviews(g, c) : Blocking(f)
            /\ g = 2 => c = retained + 1 /\ capture = [sha |-> c, bound |-> TRUE]

(* README.md:287 "Architecture is a late promotion gate: it is dispatched only *)
(* after every declared non-architecture authority is green on the exact       *)
(* candidate": also after a crash, a repeated result or a repair, an           *)
(* architecture dispatch follows green reviews of its own commit.              *)
ArchitectureIsLate ==
    \A g \in 1 .. 2 : \A r \in InitialRoles \ {"architecture"} :
        <<"architecture", g>> \in Dispatches /\ rows[<<"architecture", g>>] # NoRow =>
            \E f \in Reviews(g, rows[<<"architecture", g>>].sha) : f.by = r /\ f.says = "accept"

(* The generation under review and whether its first reviews are all enqueued. *)
Underway == \A r \in InitialRoles : rows[<<r, CandidateGeneration(CurrentSha)>>].state # "none"

(* Nobody is to look at a result of this worker before the next recover_once: it *)
(* was taken in from the thread of a dead worker, or its worker's death is not   *)
(* seen because an earlier harness started it.                                   *)
Unread(d) ==
    \/ rows[d].state = "done" /\ rows[d].inspected /\ ~\E f \in Reviews(d[2], rows[d].sha) : f.by = d[1]
    \/ rows[d].state = "lost" /\ ~rows[d].child

(* A candidate under review gets its verdict: once its first reviews are         *)
(* enqueued, the milestone leaves REVIEWING, across crashes between the queue's  *)
(* transaction, the recorded fact and the next enqueue, unless the result of a   *)
(* dead reviewer waits for a later recover_once.                                 *)
ReviewsConclude ==
    (ms = "REVIEWING" /\ Underway) ~>
        (ms # "REVIEWING" \/ \E d \in Dispatches : d[1] # "executor" /\ Unread(d) /\ HarnessFree)

=============================================================================
