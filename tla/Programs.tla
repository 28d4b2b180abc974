------------------------------ MODULE Programs ------------------------------
(***************************************************************************)
(* A program: milestones with dependencies, run by controllers.            *)
(*                                                                         *)
(* Events (a start, a finished executor, a set of reviews, an integration) *)
(* open decisions, each bound to the program revision it was opened at.  A *)
(* controller claims one, and submits a bundle of actions for exactly that *)
(* revision.  The bundle is committed with the changes it makes to the     *)
(* rows; its external effects (workers to enqueue, a Git integration, the  *)
(* closing of evidence) are applied afterwards, one by one, each with a    *)
(* receipt, and are replayed after a crash.                                *)
(*                                                                         *)
(* db is the ledger: the runs row, the milestones with their lifecycle     *)
(* facts, the dispatches and the decisions with their action outbox.       *)
(* Every transaction is an operator on it.  git is the trunk: program      *)
(* commits <<m, s>> and commits of others.  harness is the position of the *)
(* one harness thread, which serves requests, records results and replays  *)
(* outboxes only when it is idle.  A subject s of a milestone is named by  *)
(* the executor generation that produced it; 0 is none.                    *)
(***************************************************************************)
EXTENDS Naturals, Sequences, FiniteSets, SequencesExt

CONSTANTS
    Milestones,
    Mode,          \* "git", "already" (integrated) or "evidence"
    Deps,          \* Deps[m]: what m depends on
    Roles,         \* Roles[m]: declared reviewer roles
    Statuses,      \* terminal statuses executors report
    Scopes,        \* scopes of the blockers completed executors report
    Verdicts,      \* "accepted", "flawed" (accepted, blocking finding), "rejected"
    Faults,        \* optional events: see the actions
    MaxExec,       \* bound: executor generations with a result
    MaxReview,     \* bound: reviewer generations of a role
    MaxRev,        \* bound: program revisions
    MaxStart,      \* bound: program start requests
    MaxBundle,     \* bound: actions in a bundle
    MaxFail,       \* bound: crashes and optional failures
    MaxForeign     \* bound: commits of others on the trunk

ASSUME ProgramConstants ==
    /\ IsFiniteSet(Milestones)
    /\ Mode \in [Milestones -> {"git", "already", "evidence"}]
    /\ Deps \in [Milestones -> SUBSET Milestones]
    /\ \A m \in Milestones :
          Roles[m] \in (SUBSET {"code", "visual", "architecture"}) \ {{}}
    /\ Statuses \subseteq {"completed", "external_blocked", "needs_decision",
                           "failed"}
    /\ Scopes \subseteq {"advisory", "current", "future", "whole"}
    /\ Verdicts \subseteq {"accepted", "flawed", "rejected"}
    /\ Faults \subseteq {"adopt", "cancel", "lost", "enqueue",
                         "conflict", "dirty", "spoil"}
    /\ MaxExec \in Nat \ {0}
    /\ {MaxReview, MaxRev, MaxStart, MaxBundle, MaxFail, MaxForeign}
          \subseteq Nat

VARIABLES db, git, harness, env

vars == <<db, git, harness, env>>

Subjects == 1..MaxExec
WorkRoles(m) == Roles[m] \union {"executor"}

States == {"PLANNED", "STARTING", "RUNNING", "NEEDS_DECISION", "BLOCKED",
           "COMPLETED", "REVIEWING", "REPAIR_REQUIRED", "ACCEPTED", "FAILED"}

ProgramStates == {"registered", "running", "needs_decision",
                  "external_blocked", "completed", "failed"}

\* integ is the integration_outbox row, outcome and closed the subjects with a
\* program_outcomes row and with closure generation 1.
NewMilestone ==
    [st |-> "PLANNED", subj |-> 0, blk |-> "none", last |-> "none",
     reviews |-> {}, promoted |-> {}, outcome |-> {}, closed |-> {},
     invalid |-> {}, integ |-> [state |-> "none", s |-> 0, base |-> 0]]

\* A dispatch: claimed (no queue row), queued, then recorded or cancelled.
NewDispatch(s) == [ph |-> "claimed", s |-> s]

----------------------------------------------------------------------------
(* The status projection *)

\* program_node_closure_satisfied
Closed(d, m) ==
    LET n == d.node[m]
    IN  /\ n.subj # 0
        /\ n.blk = "none"
        /\ IF Mode[m] = "git" THEN n.integ.state = "applied"
           ELSE n.subj \in n.closed

AllClosed(d) == \A m \in Milestones : Closed(d, m)

\* blocker_applies_to, for a blocker of scope b on src
BlockerApplies(b, src, op, m) ==
    \/ b = "whole"
    \/ op \in {"promote", "integrate"} /\ src = m /\ b = "current"
    \/ op \in {"ready", "start"} /\ src \in Deps[m] /\ b = "future"

\* _program_applicable_blocker looks at every milestone's blocker
Applies(d, op, m) ==
    \E src \in Milestones : BlockerApplies(d.node[src].blk, src, op, m)

\* ready_milestones
Ready(d) ==
    {m \in Milestones : /\ d.node[m].st = "PLANNED"
                        /\ \A x \in Deps[m] : Closed(d, x)
                        /\ ~Applies(d, "ready", m)}

ReviewsOf(d, m, s) == {r \in d.node[m].reviews : r.s = s}

IsBlocking(r) == r.v # "accepted"
IsAccepted(r) == r.v # "rejected"

Initial(m) == IF Roles[m] = {"architecture"} THEN Roles[m]
              ELSE Roles[m] \ {"architecture"}

\* The latest review of each role counts.
LatestOf(rs, role) == CHOOSE r \in rs : r.role = role
                          /\ \A q \in rs : q.role = role => q.n <= r.n

\* _eligible_program_review_roles
EligibleRoles(d, m) ==
    LET rs == ReviewsOf(d, m, d.node[m].subj)
        done == {r.role : r \in rs}
    IN  IF rs = {} THEN Initial(m)
        ELSE IF /\ Initial(m) \subseteq done
                /\ \A x \in Initial(m) : ~IsBlocking(LatestOf(rs, x))
                /\ "architecture" \in Roles[m] \ done
             THEN {"architecture"}
             ELSE {}

AcceptedSet(d, m, s) == {r \in ReviewsOf(d, m, s) : IsAccepted(r)}

\* _validate_program_review_set_in_transaction, for the reviews the action names
ReviewSetOk(d, m, s, named) ==
    /\ named = AcceptedSet(d, m, s) /\ named # {}
    /\ {r.role : r \in named} = Roles[m]
    /\ \A r \in ReviewsOf(d, m, s) : ~IsBlocking(r)

----------------------------------------------------------------------------
(* Decisions *)

NewDecision(d) ==
    [rev |-> d.prog.rev, st |-> "awaiting_claim", gen |-> 1, out |-> "none",
     bundle |-> <<>>, eff |-> <<>>]

\* _ensure_program_decision_in_transaction: an event opens one decision, once
Ensure(d, kind, of) ==
    LET k == [kind |-> kind, of |-> of]
    IN  IF k \in DOMAIN d.dec THEN d
        ELSE [d EXCEPT !.dec = [j \in DOMAIN @ \union {k} |->
                                   IF j = k THEN NewDecision(d) ELSE @[j]]]

SetState(d, m, st) == [d EXCEPT !.node[m].st = st]

SetProgram(d, st, bump) ==
    [d EXCEPT !.prog.state = st, !.prog.rev = IF bump THEN @ + 1 ELSE @]

\* start_program
StartProgramOk(d) == d.prog.state \notin {"completed", "failed"}

StartProgram(d, n) ==
    Ensure(IF d.prog.state = "registered" THEN SetProgram(d, "running", TRUE)
           ELSE d, "start", <<n>>)

\* claim_program_controller_decision
ClaimOk(d, k) ==
    /\ d.dec[k].rev = d.prog.rev
    /\ d.dec[k].st = "awaiting_claim"
    /\ \A j \in DOMAIN d.dec \ {k} :
          ~(d.dec[j].st = "claimed" /\ d.dec[j].rev = d.dec[k].rev)

\* reconcile_stale_program_controller_decisions
Stale(d) ==
    {k \in DOMAIN d.dec :
        /\ d.dec[k].rev < d.prog.rev
        /\ d.dec[k].st \in {"awaiting_claim", "claimed",
                            "human_attention_required"}
        /\ d.dec[k].out = "none"}

SupersedeStale(d) ==
    LET old == Stale(d)
        e == [d EXCEPT !.dec = [k \in DOMAIN @ |->
                IF k \in old THEN [@[k] EXCEPT !.st = "superseded"] ELSE @[k]]]
    IN  IF d.prog.state \in {"completed", "failed"} THEN e
        ELSE Ensure(e, "coalesced", <<d.prog.rev>>)

\* record_program_attention
Attention(d, kind, of) ==
    Ensure(IF d.prog.state \in {"completed", "failed", "external_blocked"}
           THEN d ELSE SetProgram(d, "needs_decision", FALSE), kind, of)

\* _refresh_program_completion_in_transaction
RefreshOk(d) == AllClosed(d) \/ d.prog.state # "completed"

Refresh(d, advance) ==
    IF AllClosed(d)
    THEN IF d.prog.state = "completed" THEN d
         ELSE SetProgram(d, "completed", advance)
    ELSE SetProgram(d, IF d.prog.state = "registered" THEN "running"
                       ELSE d.prog.state, advance)

----------------------------------------------------------------------------
(* Results of workers *)

\* The state an executor's result asks for.
Target(m, status, cand) ==
    IF Mode[m] # "evidence" /\ ~cand THEN "FAILED"
    ELSE CASE status = "completed" -> "COMPLETED"
           [] status = "external_blocked" -> "BLOCKED"
           [] status = "needs_decision" -> "NEEDS_DECISION"
           [] OTHER -> IF Mode[m] = "evidence" THEN "FAILED"
                       ELSE "REPAIR_REQUIRED"

\* _normalize_terminal_blocker
Normalized(status, blk) == IF status = "completed" THEN blk ELSE "current"

\* The program state of a result that is no finished candidate.
Unfinished(m, status, cand) ==
    IF Mode[m] # "evidence" /\ cand THEN "running"
    ELSE CASE status = "needs_decision" -> "needs_decision"
           [] status = "external_blocked" -> "external_blocked"
           [] OTHER -> "failed"

Launched == {"STARTING", "RUNNING"}

\* Guards of record_program_executor_result: a second candidate replaces the
\* first only when a later generation repaired it.
CommitResultOk(d, m, g, status, cand) ==
    LET n == d.node[m]
        goal == Target(m, status, cand)
    IN  /\ goal # "COMPLETED" => n.st \in Launched \union {goal}
        /\ n.subj \notin {0, IF cand THEN g ELSE 0} =>
              /\ cand /\ g > n.subj
              /\ n.st \in Launched \union
                    {"REPAIR_REQUIRED", "BLOCKED", "NEEDS_DECISION"}

\* Guards of record_runtime_evidence.
EvidenceResultOk(d, m, status) ==
    LET goal == Target(m, status, TRUE)
    IN  \/ d.node[m].st \in Launched \union {goal}
        \/ d.node[m].st = "REPAIR_REQUIRED" /\ goal = "COMPLETED"

ExecutorResultOk(d, m, g, status, cand) ==
    IF Mode[m] = "evidence" THEN EvidenceResultOk(d, m, status)
    ELSE CommitResultOk(d, m, g, status, cand)

\* What both write to the milestone.
Recorded(n, s, status, blk) ==
    [n EXCEPT !.subj = s,
              !.last = status,
              !.blk = IF Normalized(status, blk) # "none"
                      THEN Normalized(status, blk)
                      ELSE IF s # n.subj THEN "none" ELSE @]

CommitNode(n, m, g, status, cand, blk) ==
    [Recorded(n, IF cand THEN g ELSE n.subj, status, blk)
        EXCEPT !.st = IF @ \in Launched THEN Target(m, status, cand) ELSE @]

EvidenceNode(n, m, g, status, blk) ==
    [Recorded(n, g, status, blk)
        EXCEPT !.st = IF @ \in Launched \union {"REPAIR_REQUIRED"}
                      THEN Target(m, status, TRUE) ELSE @,
               !.outcome = @ \union {g}]

\* The event a result opens, and what it does to the program.
ExecutorResult(d, m, g, status, cand, blk) ==
    LET n == d.node[m]
        e == [d EXCEPT !.node[m] =
                 IF Mode[m] = "evidence" THEN EvidenceNode(n, m, g, status, blk)
                 ELSE CommitNode(n, m, g, status, cand, blk)]
    IN  IF Target(m, status, cand) = "COMPLETED"
        THEN Ensure(e, "implementation", <<m, g>>)
        ELSE Ensure(SetProgram(e, Unfinished(m, status, cand), TRUE),
                    "executor", <<m, g>>)

\* Which event a recorded review opens, if any.
ReviewEvent(d, m, s) ==
    LET rs == ReviewsOf(d, m, s)
        done == {r.role : r \in rs}
        blocked(roles) == \E r \in rs : r.role \in roles /\ IsBlocking(r)
    IN  IF ~(Initial(m) \subseteq done) THEN <<>>
        ELSE IF blocked(Initial(m)) THEN <<"initial-blocked", <<m, s>>>>
        ELSE IF "architecture" \in Roles[m] \ done
             THEN <<"architecture-ready", <<m, s>>>>
        ELSE IF blocked({"architecture"})
             THEN <<"architecture-blocked", <<m, s>>>>
        ELSE IF Roles[m] = done THEN <<"reviewed", <<m, s, Cardinality(rs)>>>>
        ELSE <<>>

\* record_program_review
ReviewOk(d, m, s) == d.node[m].subj = s

Review(d, m, s, role, v) ==
    LET n == Cardinality({r \in ReviewsOf(d, m, s) : r.role = role}) + 1
        e == [d EXCEPT !.node[m].reviews =
                  @ \union {[s |-> s, role |-> role, v |-> v, n |-> n]}]
        ev == ReviewEvent(e, m, s)
    IN  IF ev = <<>> THEN e ELSE Ensure(e, ev[1], ev[2])

\* adopt_program_candidate inherits the last status an executor reported.
Inherits(n) == n.last \notin {"none", "completed"}

Parked == {"FAILED", "BLOCKED", "NEEDS_DECISION", "REPAIR_REQUIRED"}

\* The candidate is a commit left by the latest executor generation, or the
\* registered commit of an integrated milestone, which is its subject 1.
AdoptOk(d, m) ==
    LET n == d.node[m]
        g == Len(d.work[m]["executor"])
        after(s) == n.subj \notin {0, s} => n.st \in Parked \ {"FAILED"}
    IN  CASE Mode[m] = "git" -> g > 0 /\ g \notin n.promoted /\ after(g)
          [] Mode[m] = "already" /\ Inherits(n) ->
                /\ after(1)
                /\ n.subj # 1 => 1 \notin n.promoted
          [] Mode[m] = "already" /\ ~Inherits(n) ->
                /\ n.subj = 0 /\ n.st \in {"PLANNED", "STARTING", "RUNNING"}
                /\ n.st = "PLANNED" => g = 0
          [] OTHER -> FALSE

\* What adopting a candidate s writes to a milestone with a history.
Readopted(n, s) ==
    [n EXCEPT !.subj = s,
              !.blk = IF Inherits(n) THEN "current"
                      ELSE IF n.subj = s THEN @ ELSE "none",
              !.st = IF @ \notin Parked THEN @
                     ELSE IF n.last = "external_blocked" THEN "BLOCKED"
                     ELSE "REPAIR_REQUIRED"]

Adopt(d, m) ==
    LET n == d.node[m]
        list == d.work[m]["executor"]
        s == IF Mode[m] = "git" THEN Len(list) ELSE 1
        p == IF Mode[m] = "git" THEN Readopted(n, s)
             ELSE IF Inherits(n) THEN [Readopted(n, s) EXCEPT !.outcome = {1}]
             ELSE [n EXCEPT !.subj = 1, !.st = "COMPLETED", !.blk = "none",
                            !.outcome = {1}]
        w == IF Mode[m] = "already" /\ list = <<>>
             THEN <<[ph |-> "recorded", s |-> 0]>> ELSE list
    IN  Ensure([d EXCEPT !.node[m] = p, !.work[m]["executor"] = w],
               "implementation", <<m, s>>)

(* Mutant: a completed program stays completed when its evidence changes.  *)
Invalidate_StillCompleted(d, m) ==
    IF d.node[m].subj \in d.node[m].invalid THEN d
    ELSE Ensure([d EXCEPT !.node[m].invalid = @ \union {d.node[m].subj},
                          !.node[m].blk = "whole"],
                "invalidated", <<m, d.node[m].subj>>)

\* invalidate_runtime_evidence
Invalidate(d, m) ==
    LET n == d.node[m]
        e == [d EXCEPT
                !.node[m].invalid = @ \union {n.subj},
                !.node[m].blk = "whole",
                !.node[m].st = IF @ \in {"RUNNING", "COMPLETED", "REVIEWING"}
                               THEN "BLOCKED" ELSE @]
        f == IF d.prog.state = "completed"
             THEN SetProgram(e, "needs_decision", TRUE) ELSE e
    IN  IF n.subj \in n.invalid THEN d
        ELSE Ensure(f, "invalidated", <<m, n.subj>>)

----------------------------------------------------------------------------
(* Bundles of actions *)

\* base is the trunk head an integration expects.
Action(kind, ms, s, roles, named) ==
    [kind |-> kind, ms |-> ms, s |-> s, roles |-> roles, named |-> named,
     base |-> 0]

On(a) == CHOOSE m \in a.ms : TRUE

Idle(dispatches) ==
    \/ dispatches = <<>>
    \/ dispatches[Len(dispatches)].ph \in {"recorded", "cancelled"}

\* Guards of _program_action_effects, one per kind of action.
StartOk(d, a) ==
    \A m \in a.ms : /\ m \in Ready(d) /\ ~Applies(d, "start", m)
                    /\ d.work[m]["executor"] = <<>>

StartReviewsOk(d, a) ==
    LET m == On(a)
    IN  /\ a.s # 0 /\ a.s = d.node[m].subj
        /\ ~Applies(d, "start", m)
        /\ a.roles = EligibleRoles(d, m) /\ a.roles # {}
        /\ \A r \in a.roles : Idle(d.work[m][r])
        /\ d.node[m].st \in {"COMPLETED", "BLOCKED", "NEEDS_DECISION",
                             "REPAIR_REQUIRED", "REVIEWING"}

RepairOk(d, a) ==
    LET m == On(a)
    IN  /\ a.s # 0 /\ a.s = d.node[m].subj
        /\ \E r \in ReviewsOf(d, m, a.s) : IsBlocking(r)
        /\ d.work[m]["executor"] # <<>>
        /\ d.node[m].st \in {"REVIEWING", "REPAIR_REQUIRED"}

ResolveOk(d, a) ==
    LET n == d.node[On(a)]
    IN  /\ a.s # 0 /\ a.s = n.subj /\ Mode[On(a)] # "evidence"
        /\ n.blk # "none"

(* Mutant: a reviewer's objection does not stop the promotion.             *)
PromoteOk_AnyReviews(d, a) ==
    LET m == On(a)
    IN  /\ a.s # 0 /\ a.s = d.node[m].subj
        /\ a.named = AcceptedSet(d, m, a.s) /\ a.named # {}
        /\ ~Applies(d, "promote", m)
        /\ d.node[m].st = "REVIEWING"

PromoteOk(d, a) ==
    LET m == On(a)
        n == d.node[m]
    IN  /\ a.s # 0 /\ a.s = n.subj
        /\ ReviewSetOk(d, m, a.s, a.named)
        /\ ~Applies(d, "promote", m)
        /\ CASE Mode[m] = "evidence" -> n.st = "REVIEWING"
             [] Mode[m] = "git" -> n.st \in {"REVIEWING", "ACCEPTED"}
             [] OTHER -> /\ n.st \in {"REVIEWING", "ACCEPTED"}
                         /\ a.s \in n.outcome

IntegrateOk(d, a) ==
    LET m == On(a)
        n == d.node[m]
    IN  /\ Mode[m] = "git" /\ a.s # 0 /\ a.s = n.subj
        /\ a.base = d.prog.head
        /\ a.s \in n.promoted
        /\ ~Applies(d, "integrate", m)
        /\ n.integ.state \in {"none", "pending"}

ActionOk(d, a) ==
    CASE a.kind = "start" -> StartOk(d, a)
      [] a.kind = "review" -> StartReviewsOk(d, a)
      [] a.kind = "repair" -> RepairOk(d, a)
      [] a.kind = "resolve" -> ResolveOk(d, a)
      [] a.kind = "promote" -> PromoteOk(d, a)
      [] a.kind = "integrate" -> IntegrateOk(d, a)
      [] OTHER -> TRUE

\* _close_program_node_in_transaction: the rows of a closed subject
CloseNode(d, m, s, advance) ==
    IF s \in d.node[m].closed THEN d
    ELSE Refresh([d EXCEPT !.node[m].promoted = @ \union {s},
                           !.node[m].closed = @ \union {s},
                           !.node[m].st = "ACCEPTED"], advance)

Resolve(d, m) == [d EXCEPT !.node[m].blk = "none"]

\* A commit milestone is closed by its integration.
Promote(d, m, s) ==
    [d EXCEPT !.node[m].promoted = @ \union {s}, !.node[m].st = "ACCEPTED"]

\* The integration_outbox row, bound to the head it was authorised at: a second
\* action for a row that is still pending leaves it alone.
AuthoriseIntegration(d, m, s) ==
    IF d.node[m].integ.state = "pending" THEN d
    ELSE [d EXCEPT !.node[m].integ =
             [state |-> "pending", s |-> s, base |-> d.prog.head]]

\* What committing an action writes.
ActionDo(d, a) ==
    LET m == On(a)
    IN  CASE a.kind = "review" -> SetState(d, m, "REVIEWING")
          [] a.kind = "repair" -> SetState(d, m, "REPAIR_REQUIRED")
          [] a.kind = "resolve" -> Resolve(d, m)
          [] a.kind = "promote" /\ Mode[m] = "git" -> Promote(d, m, a.s)
          [] a.kind = "promote" /\ Mode[m] = "already" ->
                CloseNode(d, m, a.s, FALSE)
          [] a.kind = "integrate" -> AuthoriseIntegration(d, m, a.s)
          [] a.kind = "attention" -> SetProgram(d, "needs_decision", FALSE)
          [] OTHER -> d

\* The actions a controller may ask for in the rows d.
Actions(d) ==
    LET At(kind, m, roles, named) ==
            Action(kind, {m}, d.node[m].subj, roles, named)
        all ==
            {Action("start", ms, 0, {}, {}) : ms \in (SUBSET Ready(d)) \ {{}}}
            \union {At("review", m, EligibleRoles(d, m), {}) : m \in Milestones}
            \union {At("repair", m, {}, {}) : m \in Milestones}
            \union {At("resolve", m, {}, {}) : m \in Milestones}
            \union {[At("integrate", m, {}, {}) EXCEPT !.base = d.prog.head] :
                       m \in Milestones}
            \union {At("promote", m, {}, AcceptedSet(d, m, d.node[m].subj)) :
                       m \in Milestones}
            \union {Action(k, {}, 0, {}, {}) : k \in {"attention", "acknowledge"}}
    IN  {a \in all : ActionOk(d, a)}

\* action.external_effects: one worker per milestone or role, or one change
EffectSet(a) ==
    LET One(m, role) == [kind |-> a.kind, m |-> m, s |-> a.s, role |-> role,
                         named |-> a.named, base |-> a.base]
    IN  CASE a.kind = "start" -> {One(m, "executor") : m \in a.ms}
          [] a.kind = "review" -> {One(On(a), role) : role \in a.roles}
          [] a.kind = "repair" -> {One(On(a), "executor")}
          [] \/ a.kind = "integrate"
             \/ a.kind = "promote" /\ Mode[On(a)] = "evidence" ->
                {One(On(a), "-")}
          [] OTHER -> {}

EffectsOf(a) == SetToSeq(EffectSet(a))

\* bundle.external_effects
Effects(bundle) ==
    EffectsOf(bundle[1])
        \o IF Len(bundle) = 2 THEN EffectsOf(bundle[2]) ELSE <<>>

\* A bundle has one action of a kind, and acknowledge_only stands alone.
Bundles(d) ==
    {<<a>> : a \in Actions(d)}
    \union IF MaxBundle < 2 THEN {}
           ELSE UNION {{<<a, b>> : b \in {x \in Actions(ActionDo(d, a)) :
                              /\ x.kind # a.kind
                              /\ "acknowledge" \notin {a.kind, x.kind}}} :
                       a \in Actions(d)}

\* submit_program_controller_actions
SubmitOk(d, k) ==
    /\ d.dec[k].st = "claimed" /\ d.dec[k].out = "none"
    /\ d.dec[k].rev = d.prog.rev

Commit(d, k, bundle) ==
    LET first == ActionDo(d, bundle[1])
        e == IF Len(bundle) = 2 THEN ActionDo(first, bundle[2]) ELSE first
    IN  [e EXCEPT !.prog.rev = @ + 1,
                  !.dec[k].st = "action_committed",
                  !.dec[k].out = "committed",
                  !.dec[k].bundle = bundle,
                  !.dec[k].eff = [i \in 1..Len(Effects(bundle)) |-> "pending"]]

----------------------------------------------------------------------------
(* Effects and their receipts *)

Pending(d, k) == {i \in DOMAIN d.dec[k].eff : d.dec[k].eff[i] = "pending"}

(* Mutant: closing the action overwrites the attention it asked for.       *)
AckIfTerminal_HidesFailure(d, k) ==
    IF Pending(d, k) # {} \/ d.dec[k].out # "committed" THEN d
    ELSE [d EXCEPT !.dec[k].out = "acknowledged", !.dec[k].st = "acknowledged"]

(* Mutant: the first receipt closes the action.                            *)
AckIfTerminal_FirstReceipt(d, k) ==
    IF d.dec[k].out # "committed" THEN d
    ELSE [d EXCEPT !.dec[k].out = "acknowledged",
                   !.dec[k].st = IF @ = "human_attention_required" THEN @
                                 ELSE "acknowledged"]

\* _acknowledge_program_action_if_terminal_in_transaction
AckIfTerminal(d, k) ==
    IF Pending(d, k) # {} \/ d.dec[k].out # "committed" THEN d
    ELSE [d EXCEPT !.dec[k].out = "acknowledged",
                   !.dec[k].st = IF @ = "human_attention_required" THEN @
                                 ELSE "acknowledged"]

\* _validate_program_decision_row, run when the ledger is opened: the outbox
\* state a decision's state allows
DecisionValid(d, k) ==
    LET x == d.dec[k]
    IN  /\ x.st \in {"action_committed", "acknowledged"} => x.out # "none"
        /\ x.out # "none" =>
              x.out = IF \/ x.st = "acknowledged"
                         \/ /\ x.st = "human_attention_required"
                            /\ Pending(d, k) = {}
                      THEN "acknowledged" ELSE "committed"

\* record_program_action_effect
RecordEffect(d, k, i, outcome) ==
    LET e == [d EXCEPT !.dec[k].eff[i] = outcome]
        f == IF outcome = "applied" THEN e
             ELSE Ensure([SetProgram(e, "needs_decision", FALSE) EXCEPT
                            !.dec[k].st = IF @ = "action_committed"
                                          THEN "human_attention_required"
                                          ELSE @],
                         "effect-failed", <<d.dec[k].rev>>)
    IN  AckIfTerminal(f, k)

\* What a milestone depends on, directly or not.
Ancestors(m) ==
    {x \in Milestones : \A S \in SUBSET Milestones :
        Deps[m] \subseteq S /\ (\A y \in S : Deps[y] \subseteq S) => x \in S}

\* The targets of an action and their dependencies, as the harness finds them
\* in the rows before any effect: _resolve_program_effect_subjects.
ActionEligible(d, a) ==
    \A m \in a.ms : /\ \A x \in Ancestors(m) : Closed(d, x)
                    /\ a.kind # "start" => a.s = d.node[m].subj

\* The evidence snapshots an action makes the harness hash again.
Rehashed(a) ==
    {x \in (UNION {Ancestors(m) : m \in a.ms})
           \union (IF a.kind = "start" THEN {} ELSE a.ms) :
        Mode[x] = "evidence"}

IsSpoiled(d, x) == <<x, d.node[x].subj>> \in env.spoiled

Sound(d, a) ==
    ActionEligible(d, a) /\ \A x \in Rehashed(a) : ~IsSpoiled(d, x)

\* _assert_program_action_effect_eligible goes action by action: the targets of
\* one, its evidence, then the next.
Passes(d, bundle) == \A i \in DOMAIN bundle : Sound(d, bundle[i])

\* The evidence it finds changed, which it invalidates before it gives up.
Found(d, bundle) ==
    {x \in Milestones : \E i \in DOMAIN bundle :
        /\ x \in Rehashed(bundle[i]) /\ IsSpoiled(d, x)
        /\ ActionEligible(d, bundle[i])
        /\ \A j \in 1..(i - 1) : Sound(d, bundle[j])}

Busy == harness.key
Bundle == db.dec[Busy].bundle
Index == CHOOSE i \in Pending(db, Busy) :
            \A j \in Pending(db, Busy) : i <= j
Effect == Effects(Bundle)[Index]

Go(at) == harness' = [harness EXCEPT !.at = at]

\* One of the failures the instance allows happens.
Fail(fault) ==
    /\ fault \in Faults \union {"crash"} /\ env.fails < MaxFail
    /\ env' = [env EXCEPT !.fails = @ + 1]

Idling == harness.at = "idle"

\* An effect that raises leaves a failed receipt and ends the pass.
FailEffect(d) ==
    /\ db' = RecordEffect(d, Busy, Index, "failed")
    /\ Go("idle") /\ UNCHANGED git

----------------------------------------------------------------------------
(* Requests and the controller *)

Init ==
    /\ db = [prog |-> [state |-> "registered", rev |-> 0, head |-> 0],
             node |-> [m \in Milestones |-> NewMilestone],
             work |-> [m \in Milestones |-> [r \in WorkRoles(m) |-> <<>>]],
             dec |-> <<>>]
    /\ git = <<>>
    /\ harness = [at |-> "idle", key |-> [kind |-> "none", of |-> <<>>]]
    /\ env = [starts |-> 0, fails |-> 0, foreign |-> 0, spoiled |-> {}]

OperatorStart ==
    /\ Idling /\ env.starts < MaxStart
    /\ StartProgramOk(db)
    /\ db' = StartProgram(db, env.starts + 1)
    /\ env' = [env EXCEPT !.starts = @ + 1]
    /\ UNCHANGED <<git, harness>>

\* _schedule_program_controller_generations supersedes what is stale before it
\* spawns the controller that claims.
Claim(k) ==
    /\ Idling /\ Stale(db) = {} /\ ClaimOk(db, k)
    /\ db' = [db EXCEPT !.dec[k].st = "claimed"]
    /\ UNCHANGED <<git, harness, env>>

\* The controller process is lost: recovery gives its decision to the second
\* generation, or to a human when the turn's outcome is unknown.
LoseClaim(k) ==
    /\ Fail("lost")
    /\ Idling /\ db.dec[k].st = "claimed"
    /\ \/ /\ db.dec[k].gen = 1
          /\ db' = [db EXCEPT !.dec[k].st = "awaiting_claim", !.dec[k].gen = 2]
       \/ db' = [db EXCEPT !.dec[k].st = "human_attention_required"]
    /\ UNCHANGED <<git, harness>>

\* program_submit_actions: eligibility first, then the transaction; the bundle
\* is applied in the same request.
Bounded(d, a) ==
    /\ a.kind = "repair" => Len(d.work[On(a)]["executor"]) < MaxExec
    /\ \A r \in a.roles : Len(d.work[On(a)][r]) < MaxReview

Submit(k) ==
    /\ Idling /\ SubmitOk(db, k) /\ db.prog.rev < MaxRev
    /\ \E bundle \in Bundles(db) :
          /\ \A i \in DOMAIN bundle : Bounded(db, bundle[i])
          /\ \/ /\ Passes(db, bundle)
                /\ db' = Commit(db, k, bundle)
                /\ harness' = [at |-> "apply", key |-> k]
             \/ /\ \E x \in Found(db, bundle) : db' = Invalidate(db, x)
                /\ UNCHANGED harness
    /\ UNCHANGED <<git, env>>

\* A bundle without effects is acknowledged by its controller.
Acknowledge(k) ==
    /\ Idling /\ db.dec[k].st = "action_committed"
    /\ db.dec[k].eff = <<>>
    /\ db' = [db EXCEPT !.dec[k].st = "acknowledged",
                        !.dec[k].out = "acknowledged"]
    /\ UNCHANGED <<git, harness, env>>

Supersede ==
    /\ Idling /\ Stale(db) # {}
    /\ db' = SupersedeStale(db)
    /\ UNCHANGED <<git, harness, env>>

(* Mutant: only outboxes that are acknowledged are visited again.          *)
Owed_Acknowledged(k) ==
    /\ db.dec[k].out = "acknowledged" /\ Passes(db, db.dec[k].bundle)
    /\ Pending(db, k) # {}

\* _reconcile_program_action_outboxes visits every outbox.  Visits that change
\* nothing (no effect left, or a target that is no longer eligible) are left out.
Owed(k) ==
    /\ db.dec[k].out # "none"
    /\ \/ Passes(db, db.dec[k].bundle) /\ Pending(db, k) # {}
       \/ \E x \in Found(db, db.dec[k].bundle) :
             db.node[x].subj \notin db.node[x].invalid

Replay(k) ==
    /\ Idling /\ Owed(k)
    /\ harness' = [at |-> "apply", key |-> k]
    /\ UNCHANGED <<db, git, env>>

----------------------------------------------------------------------------
(* Applying a bundle *)

\* _apply_program_action_bundle: the targets once more, then effect by effect
ApplyBundle ==
    /\ harness.at = "apply"
    /\ \/ /\ IF Passes(db, Bundle) THEN Pending(db, Busy) = {}
             ELSE Found(db, Bundle) = {}
          /\ Go("idle") /\ UNCHANGED db
       \/ /\ \E x \in Found(db, Bundle) : db' = Invalidate(db, x)
          /\ Go("idle")
       \/ /\ Passes(db, Bundle) /\ Pending(db, Busy) # {}
          /\ Go("effect") /\ UNCHANGED db
    /\ UNCHANGED <<git, env>>

\* The part of the bundle the effect at hand belongs to, as an action.
Alone(e) == Action(e.kind, {e.m}, e.s, {}, {})

At(kinds) == harness.at = "effect" /\ Effect.kind \in kinds

Launches == {"start", "review", "repair"}

\* A launch checks its targets and their dependencies again, a promotion only
\* the evidence it closes.
SpoiledIn(e) ==
    IF e.kind = "promote" THEN {x \in {e.m} : IsSpoiled(db, x)}
    ELSE Found(db, <<Alone(e)>>)

\* Evidence that changed is found inside the effect, which then fails; the
\* check before the reviewers of an action are enqueued leaves no receipt.
FindSpoiled ==
    /\ At(Launches \union {"promote"})
    /\ \E x \in SpoiledIn(Effect) :
          \/ FailEffect(Invalidate(db, x)) /\ UNCHANGED env
          \/ /\ Effect.kind = "review" /\ x = Effect.m
             /\ db' = Invalidate(db, x)
             /\ Go("idle") /\ UNCHANGED <<git, env>>

(* Mutant: a repair is claimed whatever state its milestone is in.         *)
WorkerClaimOk_AnyState(d, e) ==
    e.kind = "start" => d.node[e.m].st = "PLANNED"

\* claim_dispatch, claim_program_review_dispatch, claim_program_repair_dispatch
WorkerClaimOk(d, e) ==
    LET st == d.node[e.m].st
    IN  CASE e.kind = "start" -> st = "PLANNED"
          [] e.kind = "repair" -> st = "REPAIR_REQUIRED"
          [] OTHER -> st \in {"COMPLETED", "REVIEWING", "REPAIR_REQUIRED",
                              "BLOCKED", "NEEDS_DECISION", "ACCEPTED"}

WorkerClaim(d, e) ==
    LET s == IF e.kind = "review" THEN e.s ELSE 0
    IN  [d EXCEPT !.work[e.m][e.role] = Append(@, NewDispatch(s)),
                  !.node[e.m].st = IF e.role = "executor" THEN "STARTING"
                                   ELSE @]

\* _enqueue_program_worker up to the dispatch claim.  A start names generation
\* 1, reviews and repairs the next generation there is.
ClaimWorker ==
    /\ At(Launches)
    /\ LET e == Effect
           list == db.work[e.m][e.role]
       IN  /\ SpoiledIn(e) = {}
           /\ IF ~ActionEligible(db, Alone(e)) THEN FailEffect(db) /\ UNCHANGED env
              ELSE IF e.kind = "start" /\ list # <<>>
              THEN /\ Go(IF list[1].ph = "claimed" THEN "claimed" ELSE "done")
                   /\ UNCHANGED <<db, git, env>>
              ELSE \/ /\ WorkerClaimOk(db, e)
                      /\ db' = WorkerClaim(db, e)
                      /\ Go("claimed") /\ UNCHANGED <<git, env>>
                   \/ /\ ~WorkerClaimOk(db, e)
                      /\ FailEffect(db) /\ UNCHANGED env
                   \/ Fail("enqueue") /\ FailEffect(db)

\* enqueue_dispatch: the queue row
EnqueueWorker ==
    /\ harness.at = "claimed"
    /\ LET e == Effect
           g == IF e.kind = "start" THEN 1 ELSE Len(db.work[e.m][e.role])
       IN  db' = [db EXCEPT !.work[e.m][e.role][g].ph = "queued"]
    /\ Go("done") /\ UNCHANGED <<git, env>>

RecordApplied ==
    /\ harness.at = "done"
    /\ db' = RecordEffect(db, Busy, Index, "applied")
    /\ Go(IF Cardinality(Pending(db, Busy)) > 1 THEN "effect" ELSE "idle")
    /\ UNCHANGED <<git, env>>

\* close_program_node, for evidence: bound to the revision the bundle made
CloseOk(d, k, e) ==
    /\ d.prog.rev = d.dec[k].rev + 1
    /\ ReviewSetOk(d, e.m, e.s, e.named)
    /\ e.s \notin d.node[e.m].closed =>
          /\ d.node[e.m].st \in {"REVIEWING", "ACCEPTED"}
          /\ e.s \in d.node[e.m].outcome

CloseEvidence ==
    /\ At({"promote"})
    /\ SpoiledIn(Effect) = {}
    /\ LET e == Effect
           d == CloseNode(db, e.m, e.s, TRUE)
       IN  IF CloseOk(db, Busy, e) /\ RefreshOk(d)
           THEN db' = d /\ Go("done") /\ UNCHANGED <<git, env>>
           ELSE FailEffect(db) /\ UNCHANGED env

----------------------------------------------------------------------------
(* Integration *)

OnTrunk(c, base) == Len(git) = base + 1 /\ git[base + 1] = c

\* complete_program_integration with a conflict; like every receipt it must name
\* the head of the row.
Conflict(d, e) ==
    IF d.node[e.m].integ.base # e.base THEN d
    ELSE SetProgram([d EXCEPT !.node[e.m].integ.state = "conflict"],
                    "needs_decision", FALSE)

(* Mutant: a trunk that moved on is no reason to give up.                  *)
Integrate_AnyTrunk ==
    /\ At({"integrate"})
    /\ LET e == Effect
           row == db.node[e.m].integ
       IN  IF row.state = "pending" /\ row.s = e.s
           THEN git' = Append(git, <<e.m, e.s>>) /\ Go("git") /\ UNCHANGED <<db, env>>
           ELSE FailEffect(db) /\ UNCHANGED env

\* _apply_program_integration_effect: the pending row, then Git.  The trunk
\* must be at the head the action expects, or exactly its commit ahead.
Integrate ==
    /\ At({"integrate"})
    /\ LET e == Effect
           c == <<e.m, e.s>>
           row == db.node[e.m].integ
       IN  IF row.state = "pending" /\ row.s = e.s
           THEN \/ /\ Len(git) = e.base
                   /\ git' = Append(git, c)
                   /\ Go("git") /\ UNCHANGED <<db, env>>
                \/ /\ OnTrunk(c, e.base)
                   /\ Go("git") /\ UNCHANGED <<db, git, env>>
                \/ /\ Len(git) # e.base /\ ~OnTrunk(c, e.base)
                   /\ FailEffect(Conflict(db, e)) /\ UNCHANGED env
                \/ Fail("conflict") /\ FailEffect(Conflict(db, e))
                \/ \* the checkout changed after the reference had moved
                   /\ Fail("dirty") /\ Len(git) = e.base
                   /\ git' = Append(git, c)
                   /\ db' = RecordEffect(Conflict(db, e), Busy, Index, "failed")
                   /\ Go("idle")
           ELSE IF row.state = "applied"
           THEN Go("done") /\ UNCHANGED <<db, git, env>>
           ELSE FailEffect(db) /\ UNCHANGED env

\* complete_program_integration with the receipt of an applied commit
Applied(d, m, s) ==
    Refresh(Ensure([d EXCEPT !.node[m].integ.state = "applied",
                             !.prog.head = d.node[m].integ.base + 1,
                             !.prog.rev = @ + 1],
                   "integrated", <<m, s>>), FALSE)

CompleteIntegration ==
    /\ harness.at = "git"
    /\ LET e == Effect
           base == db.node[e.m].integ.base
           d == Applied(db, e.m, e.s)
       IN  IF base = e.base /\ db.prog.head = base /\ RefreshOk(d)
           THEN db' = d /\ Go("done") /\ UNCHANGED <<git, env>>
           ELSE FailEffect(db) /\ UNCHANGED env

----------------------------------------------------------------------------
(* Workers, candidates and the environment *)

Finish(d, m, r, g, ph) == [d EXCEPT !.work[m][r][g].ph = ph]

\* _record_program_queue_result: a result the ledger refuses asks for attention
Accept(ok, d, e, m, r, g) ==
    Finish(IF ok THEN e
           ELSE Attention(d, IF r = "executor" THEN "refused" ELSE r, <<m, g>>),
           m, r, g, "recorded")

\* The workspace of a commit milestone holds a candidate or not; files that do
\* not verify give evidence a blocker.  Blockers of unfinished results are the
\* ledger's own.
CommitOutcomes ==
    {o \in [status : Statuses, cand : BOOLEAN, blk : Scopes \union {"none"}] :
        o.status # "completed" => o.blk = "none"}

EvidenceOutcomes == {o \in CommitOutcomes : o.cand}

RecordExecutor(m, g) ==
    \E o \in IF Mode[m] = "evidence" THEN EvidenceOutcomes ELSE CommitOutcomes :
        db' = Accept(ExecutorResultOk(db, m, g, o.status, o.cand), db,
                     ExecutorResult(db, m, g, o.status, o.cand, o.blk),
                     m, "executor", g)

RecordReview(m, r, g) ==
    LET s == db.work[m][r][g].s
    IN  \E v \in Verdicts :
            db' = Accept(ReviewOk(db, m, s), db, Review(db, m, s, r, v), m, r, g)

\* A queued worker may be running; whether its launch was still eligible is
\* left out, so every queued worker may produce a result.
RecordResult(m, r, g) ==
    /\ Idling /\ db.work[m][r][g].ph = "queued"
    /\ r = "executor" => g <= MaxExec
    /\ IF r = "executor" THEN RecordExecutor(m, g) ELSE RecordReview(m, r, g)
    /\ UNCHANGED <<git, harness, env>>

\* A dispatch that ends without a result (cancelled, or never launched).
CancelWorker(m, r, g) ==
    /\ Fail("cancel")
    /\ Idling /\ db.work[m][r][g].ph = "queued"
    /\ db' = Finish(db, m, r, g, "cancelled")
    /\ UNCHANGED <<git, harness>>

AdoptCandidate(m) ==
    /\ "adopt" \in Faults
    /\ Idling /\ AdoptOk(db, m)
    /\ Len(db.work[m]["executor"]) <= MaxExec
    /\ db' = Adopt(db, m)
    /\ UNCHANGED <<git, harness, env>>

\* Somebody changes the files of a recorded evidence snapshot.
Spoil(m) ==
    /\ "spoil" \in Faults
    /\ Mode[m] = "evidence" /\ db.node[m].subj # 0 /\ env.spoiled = {}
    /\ env' = [env EXCEPT !.spoiled = {<<m, db.node[m].subj>>}]
    /\ UNCHANGED <<db, git, harness>>

Foreign == <<"other", 0>>

ForeignCommit ==
    /\ env.foreign < MaxForeign
    /\ git' = Append(git, Foreign)
    /\ env' = [env EXCEPT !.foreign = @ + 1]
    /\ UNCHANGED <<db, harness>>

\* The harness keeps nothing of a bundle in memory across a crash.
Crash ==
    /\ ~Idling /\ harness.at # "down" /\ Fail("crash")
    /\ Go("down")
    /\ UNCHANGED <<db, git>>

Restart ==
    /\ harness.at = "down"
    /\ Go("idle") /\ UNCHANGED <<db, git, env>>

HarnessStep ==
    \/ ApplyBundle \/ FindSpoiled \/ ClaimWorker \/ EnqueueWorker
    \/ RecordApplied \/ CloseEvidence \/ Integrate \/ CompleteIntegration
    \/ Restart

Next ==
    \/ HarnessStep
    \/ OperatorStart \/ Supersede \/ ForeignCommit \/ Crash
    \/ \E k \in DOMAIN db.dec :
          Claim(k) \/ LoseClaim(k) \/ Submit(k) \/ Acknowledge(k) \/ Replay(k)
    \/ \E m \in Milestones :
          \/ \E r \in WorkRoles(m) : \E g \in DOMAIN db.work[m][r] :
                RecordResult(m, r, g) \/ CancelWorker(m, r, g)
          \/ AdoptCandidate(m) \/ Spoil(m)

\* The harness thread keeps running, and visits every outbox in each pass.
Fairness ==
    /\ WF_vars(HarnessStep)
    /\ WF_vars(\E k \in DOMAIN db.dec : Replay(k))

Spec == Init /\ [][Next]_vars /\ Fairness

----------------------------------------------------------------------------
(* Properties *)

(* The values of the tables, and what _validate_rows demands of the      *)
(* decisions: receipts, decision and outbox agree after every step, so the *)
(* harness never writes rows its own validation refuses at the next start. *)
TypeOK ==
    /\ db.prog \in [state : ProgramStates, rev : Nat, head : 0..Len(git)]
    /\ \A m \in Milestones :
          /\ db.node[m].st \in States
          /\ db.node[m].subj \in Subjects \union {0}
          /\ db.node[m].integ.state \in {"none", "pending", "applied", "conflict"}
    /\ harness.at \in {"idle", "apply", "effect", "claimed", "done", "git", "down"}
    /\ \A k \in DOMAIN db.dec : DecisionValid(db, k)

(* The program does what ReviewedTrunk promises: verdicts are the recorded *)
(* reviews, approvals the promotions, and the trunk the commits integrated *)
(* into Git, whatever crashes, replays and late results come in between.   *)
Trunk == INSTANCE ReviewedTrunk WITH
    GitMilestones <- {m \in Milestones : Mode[m] = "git"},
    verdicts <- UNION {{<<m, r.s, r.role, IsAccepted(r), IsBlocking(r)>> :
                           r \in db.node[m].reviews} : m \in Milestones},
    approved <- UNION {{<<m, s>> : s \in db.node[m].promoted} :
                          m \in Milestones},
    Others <- {Foreign},
    trunk <- git

ImplementsReviewedTrunk == Trunk!Spec

(* The head the ledger records is a prefix of the real trunk, and what it  *)
(* counts as integrated is exactly what stands there: a crash between the  *)
(* Git update and its receipt is recovered, never repeated or invented.    *)
LedgerTrunkIsGit ==
    LET h == db.prog.head
        applied == {m \in Milestones : db.node[m].integ.state = "applied"}
    IN  /\ h = Cardinality(applied)
        /\ {git[i] : i \in 1..h} = {<<m, db.node[m].integ.s>> : m \in applied}
        /\ \A m \in applied :
              git[db.node[m].integ.base + 1] = <<m, db.node[m].integ.s>>

(* A program that is reported complete has every milestone closed.         *)
CompletedMeansClosed == db.prog.state = "completed" => AllClosed(db)

(* A milestone never has two executors at work: starts, repairs and their  *)
(* replays share one worktree.                                             *)
OneExecutor ==
    \A m \in Milestones :
        Cardinality({g \in DOMAIN db.work[m]["executor"] :
                        db.work[m]["executor"][g].ph \in {"claimed", "queued"}})
            <= 1

(* A failed effect is never lost: whatever the other effects of the bundle *)
(* do, its decision ends with a human and a new decision says why.         *)
FailuresReachHuman ==
    \A k \in DOMAIN db.dec :
        (\E i \in DOMAIN db.dec[k].eff : db.dec[k].eff[i] = "failed") =>
            /\ db.dec[k].st = "human_attention_required"
            /\ [kind |-> "effect-failed", of |-> <<db.dec[k].rev>>] \in DOMAIN db.dec

(* Every effect whose targets stay eligible and unchanged is applied or     *)
(* refused in the end: an outbox is never forgotten.                       *)
EffectsSettle ==
    []<>(\A k \in DOMAIN db.dec :
            ~(Pending(db, k) # {} /\ Passes(db, db.dec[k].bundle)))
=============================================================================
