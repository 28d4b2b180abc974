------------------------ MODULE ControllerDecisions ------------------------
(***************************************************************************)
(* Controller decisions of one dispatch.                                   *)
(*                                                                         *)
(* A due checkpoint or a terminal result opens a decision.  The harness    *)
(* first notifies the source task (a wake), then starts a controller       *)
(* process that claims the decision, opens one SDK thread, and commits the *)
(* action bundle its turn returns.  A human may claim the same decision.   *)
(* Claims are leases; a generation that lost its process is read once      *)
(* (the recovery inspection) and may be replaced once.                     *)
(*                                                                         *)
(* book[d] is everything the ledger stores about decision d: the row of    *)
(* controller_decisions, its two generation rows, its wake_outbox row and  *)
(* its controller_action_outbox row.  Every ledger call is one transaction *)
(* on it: an operator ...Ok (the guards) and an operator with the rows it  *)
(* writes; the transaction commits only when BookValid accepts the result. *)
(* child[n] is the n-th controller process the harness starts, harness is  *)
(* the position of the single harness thread: it serves requests only at   *)
(* "serve", and otherwise delivers wakes, reaps processes or schedules.    *)
(***************************************************************************)
EXTENDS Naturals, FiniteSets

CONSTANTS
    Effects,       \* the actions a bundle may ask for
    Sources,       \* whether a source task is notified: a subset of BOOLEAN
    MaxCycle,      \* checkpoint cycles of the dispatch (64 in the code)
    MaxLaunch,     \* bound: controller processes ever started
    MaxCrash,      \* bound: times the harness process dies or stops
    MaxHuman,      \* bound: claims and recover commands of operators
    MayFinish      \* bound: whether the dispatch finishes or is cancelled

ASSUME ControllerBounds ==
    /\ Effects \subseteq {"acknowledge_only", "rearm_checkpoint",
                          "retry_dispatch", "cancel_dispatch",
                          "require_human_attention"}
    /\ Sources \subseteq BOOLEAN
    /\ MaxCycle \in Nat \ {0}
    /\ MaxLaunch \in Nat \ {0}
    /\ MaxCrash \in Nat
    /\ MaxHuman \in Nat
    /\ MayFinish \in BOOLEAN

VARIABLES book, dispatch, child, harness, held

vars == <<book, dispatch, child, harness, held>>

\* Decision 0 is the terminal decision, decision c > 0 checkpoint cycle c.
Decisions == 0..MaxCycle
Checkpoints == 1..MaxCycle
Children == 1..MaxLaunch

DecisionStates == {"absent", "pending_delivery", "awaiting_claim", "claimed",
                   "action_committed", "acknowledged",
                   "human_attention_required", "superseded", "legacy_closed"}

GenerationStates == {"absent", "prepared", "delivery_starting", "active",
                     "completed", "failed", "interrupted", "unavailable",
                     "ambiguous"}

OpenGeneration == {"prepared", "delivery_starting", "active"}

InspectionOutcomes == {"active", "completed", "failed", "interrupted",
                       "unavailable", "ambiguous"}

WakeStates == {"absent", "not_applicable", "pending", "starting", "delivered",
               "failed", "ambiguous", "suppressed"}

\* A token is named by the revision its claim created; 0 is NULL.  A thread is
\* named by the process that opened it, a prompt by the revision it quotes.
NoGeneration ==
    [state |-> "absent", prompt |-> 0, thread |-> 0, insp |-> "none",
     out |-> "none", eff |-> "none", rev |-> 0]

NoBook ==
    [state |-> "absent", rev |-> 0, gen |-> 1, kind |-> "none", token |-> 0,
     lease |-> "none", late |-> FALSE, effect |-> "none", by |-> 0,
     effects |-> 0, acked |-> FALSE, superseded |-> FALSE, wake |-> "absent",
     tries |-> 0, gens |-> [g \in 1..2 |-> NoGeneration]]

NoChild ==
    [d |-> 0, mode |-> "none", pc |-> "unborn", rev |-> 0, gen |-> 0,
     token |-> 0, owned |-> FALSE, thread |-> "none", eff |-> "none",
     waited |-> FALSE, peer |-> 0, read |-> 0, found |-> "none"]

----------------------------------------------------------------------------
(* Ledger transactions *)

Current(b) == b.gens[b.gen]

SetGen(b, g, row) == [b EXCEPT !.gens[g] = row]

Unclaimed(b) == [b EXCEPT !.kind = "none", !.token = 0, !.lease = "none"]

\* Rows the validator accepts: a transaction that leaves others rolls back.
BookValid(b) ==
    LET g == Current(b)
        Done == {"action_committed", "acknowledged"}
    IN  /\ b.state \in {"awaiting_claim", "pending_delivery"} /\ b.kind # "none"
           => /\ b.state = "awaiting_claim" /\ b.kind = "model"
              /\ b.lease = "none" /\ g.out = "completed"
        /\ b.state = "human_attention_required"
           => (b.effect = "none" <=> b.kind = "none")
        /\ b.state \in Done => b.effect # "none"
        /\ b.effect # "none" =>
              b.state \in Done \union {"human_attention_required"}
        /\ b.acked => b.state \in {"acknowledged", "human_attention_required"}
        /\ b.state = "acknowledged" => b.acked
        /\ b.state = "claimed" <=> b.lease # "none"
        /\ b.state = "superseded" <=> b.superseded
        /\ b.wake = "absent" =>
              b.state \in Done \union {"absent", "superseded", "legacy_closed"}
        /\ b.wake = "pending" => b.state = "pending_delivery"
        /\ b.state = "pending_delivery" =>
              b.wake \in {"pending", "starting", "failed", "ambiguous"}
        /\ b.state = "awaiting_claim" =>
              b.wake \in {"delivered", "not_applicable", "suppressed", "failed"}
        /\ \A i \in 1..2 :
              LET r == b.gens[i]
              IN  /\ r.out # "none" => r.state = r.out
                  /\ r.out = "completed" => b.kind = "model"
                  /\ r.state = "active" => r.thread # 0
        /\ b.effect # "none" /\ g.out = "completed" => b.effect = g.eff

(* Mutant: the decision may be claimed before its wake is delivered.       *)
NewDecision_Early(source, closed) ==
    [NoBook EXCEPT
        !.state = IF source THEN "awaiting_claim" ELSE "pending_delivery",
        !.wake = IF source THEN "pending" ELSE "not_applicable",
        !.gens[1].state = "prepared"]

\* _ensure_controller_decision_in_transaction and the wake row that goes with it
NewDecision(source, closed) ==
    [NoBook EXCEPT
        !.state = IF source THEN "pending_delivery"
                  ELSE IF closed THEN "legacy_closed" ELSE "awaiting_claim",
        !.wake = IF source THEN "pending" ELSE "not_applicable",
        !.gens[1].state = "prepared"]

\* Close the current generation as ambiguous and hand the decision to a human.
Ambiguous(b) ==
    [Unclaimed(SetGen(b, b.gen,
        [Current(b) EXCEPT !.state = "ambiguous", !.insp = "done",
                           !.out = "ambiguous"]))
        EXCEPT !.state = "human_attention_required", !.rev = @ + 1]

(* Mutant: a claim takes over whatever claim there is.                     *)
ClaimOk_TakesOver(b, kind, rev, g) ==
    /\ b.state \in {"awaiting_claim", "claimed"}
    /\ b.effect = "none" /\ b.gen = g /\ ~b.late

ClaimOk(b, kind, rev, g) ==
    /\ b.state \in {"pending_delivery", "awaiting_claim", "claimed",
                    "human_attention_required"}
    /\ b.effect = "none"
    /\ b.gen = g
    /\ Current(b).out # "completed"
    /\ b.token = 0
    /\ Current(b).insp \notin {"live", "expired"}
    /\ b.rev = rev
    /\ ~b.late
    /\ IF b.state = "pending_delivery"
       THEN kind = "human" /\ b.wake \in {"pending", "not_applicable"}
       ELSE b.wake # "starting"

Claim(b, kind) ==
    [b EXCEPT !.state = "claimed", !.rev = @ + 1, !.kind = kind,
              !.token = b.rev + 1, !.lease = "live",
              !.wake = IF kind = "human" /\ @ \in {"pending", "not_applicable"}
                       THEN "suppressed" ELSE @]

RenewOk(b, token, rev) ==
    b.token = token /\ b.state = "claimed" /\ b.rev = rev /\ b.lease = "live"

Renew(b) ==
    [b EXCEPT !.rev = @ + 1, !.lease = IF b.late THEN "expired" ELSE "live"]

DeferOk(b, g, token, rev) ==
    /\ RenewOk(b, token, rev)
    /\ b.gen = g /\ b.kind = "model"
    /\ Current(b).state = "active" /\ Current(b).insp = "none"

Defer(b) == [b EXCEPT !.rev = @ + 1, !.lease = "live", !.late = FALSE]

PrepareOk(b, g, prompt) ==
    /\ b.gen = g
    /\ b.state \in {"claimed", "awaiting_claim"}
    /\ Current(b).state \in {"prepared", "delivery_starting"}
    /\ prompt # 0 => Current(b).prompt \in {0, prompt}

Prepare(b, prompt) ==
    SetGen(b, b.gen,
        [Current(b) EXCEPT !.state = "delivery_starting",
                           !.prompt = IF prompt # 0 THEN prompt ELSE @])

BindThreadOk(b, g, n) ==
    /\ b.gen = g
    /\ \/ Current(b).thread = n
       \/ Current(b).thread = 0 /\ Current(b).state = "delivery_starting"

BindThread(b, n) ==
    IF Current(b).thread = n THEN b
    ELSE SetGen(b, b.gen,
            [Current(b) EXCEPT !.state = "active", !.thread = n])

BindTurnOk(b, g, n) ==
    b.gen = g /\ Current(b).thread = n /\ Current(b).state = "active"

CompleteOk(b, g, outcome) ==
    b.gen = g /\ Current(b).state \in OpenGeneration \union {outcome}

Complete(b, outcome) ==
    SetGen(b, b.gen, [Current(b) EXCEPT !.state = outcome])

ResetOk(b, g, rev, token) ==
    /\ b.gens[g].state = "delivery_starting" /\ b.gens[g].thread = 0
    /\ b.rev = rev
    /\ IF token # 0
       THEN b.kind = "model" /\ b.token = token /\ b.lease = "live"
       ELSE b.state = "awaiting_claim" /\ b.kind = "none"

Reset(b, g) ==
    LET released == IF b.state = "claimed"
                    THEN [Unclaimed(b) EXCEPT !.state = "awaiting_claim",
                                              !.rev = @ + 1]
                    ELSE b
    IN  SetGen(released, g, [b.gens[g] EXCEPT !.state = "prepared"])

ProfileDriftOk(b) ==
    /\ Current(b).thread = 0 /\ Current(b).out = "none"
    /\ \/ /\ Current(b).state = "delivery_starting"
          /\ b.state \in {"awaiting_claim", "claimed"}
       \/ /\ Current(b).state = "failed"
          /\ b.state = "human_attention_required"

ProfileDrift(b) ==
    IF b.state = "human_attention_required" THEN b
    ELSE [Unclaimed(Complete(b, "failed"))
            EXCEPT !.state = "human_attention_required", !.rev = @ + 1]

\* Attention for a profile drift, the only way a generation without a thread
\* fails uninspected.
RefreshOk(b) ==
    /\ b.state = "human_attention_required"
    /\ b.effect = "none" /\ b.kind = "none"
    /\ Current(b).state = "failed" /\ Current(b).thread = 0
    /\ Current(b).out = "none"

Refresh(b) ==
    [Complete(b, "prepared")
        EXCEPT !.state = "awaiting_claim", !.rev = @ + 1, !.late = FALSE]

LaunchAmbiguousOk(b) ==
    /\ Current(b).state \in {"delivery_starting", "active"}
    /\ Current(b).out = "none"
    /\ b.kind \in {"none", "model"}

(* Mutant: a second read is granted.                                       *)
ReserveOk_Again(b) ==
    b.state \in {"awaiting_claim", "claimed"} /\ b.kind # "human"

ReserveOk(b) ==
    /\ b.state \in {"awaiting_claim", "claimed"}
    /\ b.kind # "human"
    /\ Current(b).insp = "none"

Reserve(b) ==
    SetGen(b, b.gen,
        [Current(b) EXCEPT !.insp = IF b.late THEN "expired" ELSE "live"])

InspectedOk(b, g, rev, outcome, bundleRev) ==
    /\ b.state \in {"awaiting_claim", "claimed"}
    /\ b.kind # "human"
    /\ Current(b).insp = "live"
    /\ b.gen = g /\ b.rev = rev
    /\ outcome = "completed" => bundleRev = b.rev /\ b.kind = "model"

Inspected(b, outcome, eff) ==
    LET read == SetGen(b, b.gen,
                  [Current(b) EXCEPT !.state = outcome, !.insp = "done",
                                     !.out = outcome, !.eff = eff,
                                     !.rev = IF outcome = "completed"
                                             THEN b.rev ELSE 0])
        lost == [Unclaimed(read) EXCEPT !.rev = @ + 1]
        replace == /\ outcome \in {"failed", "interrupted", "unavailable"}
                   /\ b.gen < 2
                   /\ outcome = "unavailable" \/ b.lease # "live"
    IN  IF outcome \in {"active", "completed"} THEN read
        ELSE IF replace
        THEN [lost EXCEPT !.state = "awaiting_claim", !.gen = 2,
                          !.gens[2] = [NoGeneration EXCEPT !.state = "prepared"]]
        ELSE [lost EXCEPT !.state = "human_attention_required"]

\* reap_controller_claim, run on every decision before it is scheduled
Reap(b) ==
    LET g == Current(b)
        released == [Unclaimed(b) EXCEPT !.state = "awaiting_claim",
                                         !.rev = @ + 1]
    IN  IF b.effect = "none" /\ g.insp = "expired" THEN Ambiguous(b)
        ELSE IF b.effect = "none" /\ g.insp = "live" THEN b
        ELSE IF b.lease # "expired" THEN b
        ELSE IF b.kind = "human" THEN released
        ELSE IF g.out = "completed"
        THEN [b EXCEPT !.state = "awaiting_claim", !.lease = "none"]
        ELSE IF g.out = "active"
        THEN [released EXCEPT !.state = "human_attention_required"]
        ELSE IF g.out = "none" THEN b
        ELSE released

\* The bundle of thread n (0: a human's bundle) is already the committed one.
Replay(b, n) == b.effect # "none" /\ b.by = n

EffectAllowed(eff, q) ==
    /\ q \in {"completed", "cancelled"} => eff = "acknowledge_only"
    /\ eff = "retry_dispatch" => q = "attention"

(* Mutant: any live claim authorizes any bundle.                           *)
SubmitOk_AnyClaim(b, g, rev, token) == b.state = "claimed" /\ b.lease = "live"

SubmitOk(b, g, rev, token) ==
    /\ b.state = "claimed" /\ b.token = token /\ b.lease = "live"
    /\ b.rev = rev /\ b.gen = g

SubmitRecoveredOk(b) ==
    /\ Current(b).out = "completed"
    /\ b.state \in {"claimed", "awaiting_claim"}
    /\ b.kind = "model"
    /\ b.rev = Current(b).rev

\* cancel_dispatch retires the decision it belongs to (_cancel_queue_row) and
\* then commits it: BookValid rejects that row, so the bundle never commits.
Submit(b, eff, n) ==
    [b EXCEPT !.state = IF eff = "require_human_attention"
                        THEN "human_attention_required"
                        ELSE "action_committed",
              !.rev = @ + 1, !.effect = eff, !.by = n, !.effects = @ + 1,
              !.lease = "none",
              !.superseded = @ \/ eff = "cancel_dispatch",
              !.wake = IF eff = "cancel_dispatch" THEN "absent" ELSE @]

AckOk(b, n, rev) == Replay(b, n) /\ b.rev = rev

AckRecoveredOk(b, n, rev) ==
    /\ AckOk(b, n, rev)
    /\ \/ b.state \in {"action_committed", "human_attention_required"}
       \/ Current(b).out = "completed"

Ack(b) ==
    [b EXCEPT !.acked = TRUE,
              !.state = IF @ = "human_attention_required"
                        THEN @ ELSE "acknowledged"]

Supersede(b) ==
    [b EXCEPT !.state = "superseded", !.superseded = TRUE, !.lease = "none"]

Outstanding(b) ==
    b.state \notin {"absent", "action_committed", "acknowledged", "superseded",
                    "legacy_closed"}

----------------------------------------------------------------------------
(* The harness thread *)

Serving == harness.at = "serve"

Commit(d, b) == BookValid(b) /\ book' = [book EXCEPT ![d] = b]

\* The loop goes on to wakes, reaping and scheduling after a triggering event.
Trigger == harness' = [harness EXCEPT !.at = "deliver", !.cur = 0]

Registered == {child[n].d : n \in {m \in Children : child[m].owned}}

Exited == {"dead", "profile"}

Unreaped == {n \in Children : child[n].owned /\ child[n].pc \in Exited}

Launched == {n \in Children : child[n].pc # "unborn"}

\* What outlives a process: its thread, and the bundle the thread holds.
Ended(c, pc) ==
    [NoChild EXCEPT
        !.d = c.d, !.mode = c.mode, !.pc = pc, !.owned = c.owned,
        !.read = c.read,
        !.gen = IF c.thread = "none" THEN 0 ELSE c.gen,
        !.token = IF c.thread = "none" THEN 0 ELSE c.token,
        !.thread = IF c.thread = "running" THEN "interrupted" ELSE c.thread,
        !.eff = IF c.thread = "completed" THEN c.eff ELSE "none"]

Die(c) == IF c.pc \in Exited \union {"unborn"} THEN c ELSE Ended(c, "dead")

Down == [at |-> "down", todo |-> {}, cur |-> 0, mode |-> "none", failed |-> {},
         crashes |-> harness.crashes + 1, humans |-> harness.humans]

\* The process is killed: its children live in sessions of their own.
Crash ==
    /\ harness.at # "down" /\ harness.crashes < MaxCrash
    /\ harness' = Down
    /\ child' = [n \in Children |-> [child[n] EXCEPT !.owned = FALSE]]
    /\ UNCHANGED <<book, dispatch, held>>

\* close() terminates the children the harness has registered.
StopProcess ==
    /\ harness' = Down
    /\ child' = [n \in Children |->
                    [IF child[n].owned THEN Die(child[n]) ELSE child[n]
                        EXCEPT !.owned = FALSE]]

Stop ==
    /\ Serving /\ harness.crashes < MaxCrash
    /\ StopProcess
    /\ UNCHANGED <<book, dispatch, held>>

\* recover_once: a wake caught between claim_wake and its record is ambiguous.
Restart ==
    /\ harness.at = "down"
    /\ Trigger
    /\ book' = [d \in Decisions |->
                  [book[d] EXCEPT
                     !.wake = IF @ = "starting" THEN "ambiguous" ELSE @]]
    /\ UNCHANGED <<dispatch, child, held>>

\* The service refresh runs while no harness owns the ledger.
ProfileRefresh ==
    /\ harness.at = "down"
    /\ \E d \in Decisions : RefreshOk(book[d])
    /\ book' = [d \in Decisions |->
                  IF RefreshOk(book[d]) THEN Refresh(book[d]) ELSE book[d]]
    /\ UNCHANGED <<dispatch, child, harness, held>>

ClaimWake(d) ==
    /\ harness.at = "deliver"
    /\ book[d].wake = "pending"
    /\ Commit(d, [book[d] EXCEPT !.wake = "starting", !.tries = @ + 1])
    /\ harness' = [harness EXCEPT !.at = "wake", !.cur = d]
    /\ UNCHANGED <<dispatch, child, held>>

WakeRecorded(b, outcome) ==
    CASE outcome = "delivered" ->
           [b EXCEPT !.wake = "delivered", !.state = "awaiting_claim",
                     !.rev = @ + 1]
      [] outcome = "ambiguous" ->
           [b EXCEPT !.wake = "ambiguous", !.state = "human_attention_required"]
      [] outcome = "failed" /\ b.tries < 2 -> [b EXCEPT !.wake = "pending"]
      [] outcome = "failed" /\ b.tries >= 2 ->
           [b EXCEPT !.wake = "failed", !.state = "awaiting_claim",
                     !.rev = @ + 1, !.late = FALSE]

RecordWake(outcome) ==
    /\ harness.at = "wake"
    /\ Commit(harness.cur, WakeRecorded(book[harness.cur], outcome))
    /\ Trigger
    /\ UNCHANGED <<dispatch, child, held>>

WakesDelivered ==
    harness.at = "deliver" /\ \A d \in Decisions : book[d].wake # "pending"

\* A child that failed its profile check closes the decision for a human; when
\* that closure is refused the harness stops.
ReapChild(n) ==
    /\ Serving \/ WakesDelivered
    /\ n \in Unreaped
    /\ LET d == child[n].d
           drift == child[n].pc = "profile"
           closed == ProfileDrift(book[d])
           ok == ~drift \/ (ProfileDriftOk(book[d]) /\ BookValid(closed))
       IN  IF ok
           THEN /\ book' = IF drift THEN [book EXCEPT ![d] = closed] ELSE book
                /\ child' = [child EXCEPT ![n].owned = FALSE]
                /\ IF Serving THEN Trigger ELSE UNCHANGED harness
           ELSE StopProcess /\ UNCHANGED book
    /\ UNCHANGED <<dispatch, held>>

BeginSchedule ==
    LET open == {d \in Decisions : book[d].state # "absent"}
    IN  /\ WakesDelivered /\ Unreaped = {}
        /\ harness' = [harness EXCEPT
                         !.at = IF open = {} THEN "serve" ELSE "schedule",
                         !.todo = open, !.failed = {}]
        /\ UNCHANGED <<book, dispatch, child, held>>

LaunchOwner(b) ==
    CASE b.state = "awaiting_claim" -> b.kind = "none"
      [] b.state = "claimed" -> b.kind = "model" /\ b.lease = "live"
      [] OTHER -> b.effect # "none"

(* Mutant: attention the effect itself asked for is taken as final.        *)
Wanted_NoAttention(b) ==
    LET g == Current(b)
    IN  IF b.state = "awaiting_claim" /\ g.state = "prepared" THEN "run"
        ELSE IF \/ b.state \in {"awaiting_claim", "action_committed"}
                \/ b.state = "claimed" /\ b.kind = "model"
        THEN "recover" ELSE "none"

\* What the scheduler starts for a decision, before the owner check.
Wanted(b) ==
    LET g == Current(b)
    IN  IF b.state = "awaiting_claim" /\ g.state = "prepared" THEN "run"
        ELSE IF g.state \in {"unavailable", "ambiguous"} THEN "none"
        ELSE IF \/ b.state \in {"awaiting_claim", "action_committed"}
                \/ b.state = "human_attention_required" /\ b.effect # "none"
                   /\ ~b.acked
                \/ /\ b.state = "claimed" /\ b.kind = "model"
                   /\ ~(g.state = "active" /\ b.lease = "live")
                   /\ g.state # "prepared"
                   /\ g.out \in {"none", "completed"}
        THEN "recover" ELSE "none"

\* One decision of the scheduling pass: reap the claim, choose what to start,
\* reserve the generation of a fresh launch, check the launch authority.
Schedule(d) ==
    /\ harness.at = "schedule" /\ d \in harness.todo
    /\ LET old == book[d]
           b == IF BookValid(Reap(old)) THEN Reap(old) ELSE old
           mode == IF d \in Registered \/ Launched = Children THEN "none"
                   ELSE Wanted(b)
           reserved == IF mode = "run" THEN Prepare(b, 0) ELSE b
           start == mode # "none" /\ LaunchOwner(b)
           left == harness.todo \ {d}
       IN  /\ book' = [book EXCEPT ![d] = reserved]
           /\ harness' = [harness EXCEPT
                 !.todo = left, !.cur = IF start THEN d ELSE @,
                 !.mode = IF start THEN mode ELSE "none",
                 !.at = IF start THEN "launch"
                        ELSE IF left = {} THEN "serve" ELSE "schedule"]
    /\ UNCHANGED <<dispatch, child, held>>

\* failed: the decisions whose process could not be started in this pass.
NextDecision(failed) ==
    harness' = [harness EXCEPT
        !.mode = "none", !.cur = 0, !.failed = @ \union failed,
        !.at = IF harness.todo = {} THEN "serve" ELSE "schedule"]

\* Popen succeeded and the unchanged authority was bound to the process.
Launch ==
    /\ harness.at = "launch" /\ LaunchOwner(book[harness.cur])
    /\ \E n \in Children \ Launched :
          /\ \A k \in Children \ Launched : n <= k
          /\ child' = [child EXCEPT
               ![n] = [NoChild EXCEPT !.d = harness.cur, !.mode = harness.mode,
                                      !.pc = "status", !.owned = TRUE]]
    /\ NextDecision({})
    /\ UNCHANGED <<book, dispatch, held>>

\* The claim expired meanwhile: the new process is stopped before it is heard.
LaunchRefused ==
    /\ harness.at = "launch" /\ ~LaunchOwner(book[harness.cur])
    /\ NextDecision({})
    /\ UNCHANGED <<book, dispatch, child, held>>

\* Popen raised OSError.
LaunchFails ==
    /\ harness.at = "launch"
    /\ LET b == book[harness.cur]
           undone == IF harness.mode = "run" THEN Reset(b, b.gen)
                     ELSE Ambiguous(b)
           ok == IF harness.mode = "run" THEN ResetOk(b, b.gen, b.rev, 0)
                 ELSE LaunchAmbiguousOk(b)
       IN  book' = IF ok /\ BookValid(undone)
                   THEN [book EXCEPT ![harness.cur] = undone] ELSE book
    /\ NextDecision({harness.cur})
    /\ UNCHANGED <<dispatch, child, held>>

----------------------------------------------------------------------------
(* Controller processes.  Each call is one request to the harness.  It may  *)
(* be refused, find no harness, or be applied while its answer is lost: the *)
(* client waits five seconds for a thread that may be busy.                 *)

Goto(n, c) == child' = [child EXCEPT ![n] = c]

At(n, mode, pc) == child[n].mode = mode /\ child[n].pc = pc

\* A call by process n on its decision: ok is the ledger's guard, b the rows
\* it writes, good and bad the process after success and after an error.
Call(n, ok, b, good, bad) ==
    /\ harness.at \in {"serve", "down"}
    /\ IF Serving /\ ok /\ BookValid(b)
       THEN /\ book' = [book EXCEPT ![child[n].d] = b]
            /\ Goto(n, good) \/ Goto(n, bad)
       ELSE Goto(n, bad) /\ UNCHANGED book

PlainCall(n, ok, b, good, bad) ==
    Call(n, ok, b, good, bad) /\ UNCHANGED <<harness, dispatch, held>>

ToPc(n, pc) ==
    IF pc = "dead" THEN Ended(child[n], pc) ELSE [child[n] EXCEPT !.pc = pc]

\* Constructing the SDK adapter fails its profile check.
ChildProfileFails(n) ==
    /\ child[n].pc = "status"
    /\ Goto(n, Ended(child[n], "profile"))
    /\ UNCHANGED <<book, dispatch, harness, held>>

ChildDies(n) ==
    /\ child[n].pc \notin Exited \union {"unborn"}
    /\ Goto(n, Die(child[n]))
    /\ UNCHANGED <<book, dispatch, harness, held>>

ChildStatus(n) ==
    LET b == book[child[n].d]
    IN  /\ At(n, "run", "status")
        /\ PlainCall(n, TRUE, b,
             [ToPc(n, "claim") EXCEPT !.rev = b.rev, !.gen = b.gen],
             ToPc(n, "dead"))

ChildClaim(n) ==
    LET c == child[n]  b == book[c.d]
    IN  /\ At(n, "run", "claim")
        /\ PlainCall(n, ClaimOk(b, "model", c.rev, c.gen), Claim(b, "model"),
             [ToPc(n, "prepare") EXCEPT !.rev = c.rev + 1, !.token = c.rev + 1],
             ToPc(n, "dead"))

ChildPrepare(n) ==
    LET c == child[n]  b == book[c.d]
    IN  /\ At(n, "run", "prepare")
        /\ PlainCall(n, PrepareOk(b, c.gen, c.token), Prepare(b, c.token),
             ToPc(n, "thread"), ToPc(n, "reset"))

\* external: the SDK opens a thread, or fails before there is one
ChildStartThread(n) ==
    /\ At(n, "run", "thread")
    /\ \/ Goto(n, [ToPc(n, "bind") EXCEPT !.thread = "open"])
       \/ Goto(n, ToPc(n, "reset"))
    /\ UNCHANGED <<book, dispatch, harness, held>>

ChildBindThread(n) ==
    LET c == child[n]  b == book[c.d]
    IN  /\ At(n, "run", "bind")
        /\ PlainCall(n, BindThreadOk(b, c.gen, n), BindThread(b, n),
             ToPc(n, "turn"), ToPc(n, "unbound"))

\* The turn starts, and its callback binds the turn identity.
ChildBindTurn(n) ==
    LET c == [child[n] EXCEPT !.thread = "running"]  b == book[c.d]
    IN  /\ At(n, "run", "turn")
        /\ PlainCall(n, BindTurnOk(b, c.gen, n), b,
             [c EXCEPT !.pc = "wait"],
             [c EXCEPT !.pc = "failing", !.thread = "interrupted"])

\* external: what the turn comes to.  The bundle quotes the prompt's revision.
ChildTurnEnds(n) ==
    /\ At(n, "run", "wait")
    /\ \/ \E eff \in Effects :
            Goto(n, [ToPc(n, "submit") EXCEPT !.thread = "completed",
                                              !.eff = eff])
       \/ \E end \in {"failed", "interrupted"} :
            Goto(n, [ToPc(n, "failing") EXCEPT !.thread = end])
       \/ Goto(n, [ToPc(n, IF child[n].waited THEN "failing" ELSE "defer")
                     EXCEPT !.thread = "interrupted"])
    /\ UNCHANGED <<book, dispatch, harness, held>>

ChildDefer(n) ==
    LET c == child[n]  b == book[c.d]
    IN  /\ At(n, "run", "defer")
        /\ PlainCall(n, DeferOk(b, c.gen, c.token, c.rev), Defer(b),
             [ToPc(n, "renew") EXCEPT !.rev = c.rev + 1], ToPc(n, "failing"))

ChildRenew(n) ==
    LET c == child[n]  b == book[c.d]
    IN  /\ At(n, "run", "renew")
        /\ PlainCall(n, RenewOk(b, c.token, c.rev), Renew(b),
             [ToPc(n, "turn") EXCEPT !.rev = c.rev + 1, !.waited = TRUE],
             ToPc(n, "failing"))

\* The effects of a bundle on the dispatch it belongs to.
Applied(eff) ==
    [dispatch EXCEPT !.armed = @ \/ eff = "rearm_checkpoint",
                     !.queue = IF eff = "retry_dispatch" THEN "active" ELSE @]

\* Submissions are triggering operations: a scheduling pass follows.
SubmitCall(n, ok, b, eff, good, bad) ==
    /\ Call(n, ok, b, good, bad)
    /\ IF Serving /\ ok /\ BookValid(b)
       THEN /\ Trigger
            /\ dispatch' = IF b = book[child[n].d] THEN dispatch
                           ELSE Applied(eff)
       ELSE UNCHANGED <<harness, dispatch>>
    /\ UNCHANGED held

ChildSubmit(n) ==
    LET c == child[n]
        b == book[c.d]
        replay == Replay(b, n) /\ b.token = c.token
        fresh == /\ b.effect = "none"
                 /\ SubmitOk(b, c.gen, c.token, c.token)
                 /\ EffectAllowed(c.eff, dispatch.queue)
    IN  /\ At(n, "run", "submit")
        /\ SubmitCall(n, replay \/ fresh,
             IF replay THEN b ELSE Submit(b, c.eff, n), c.eff,
             [ToPc(n, "ack") EXCEPT !.rev = c.token + 1], ToPc(n, "failing"))

ChildAck(n) ==
    LET c == child[n]  b == book[c.d]
    IN  /\ At(n, "run", "ack")
        /\ PlainCall(n, AckOk(b, n, c.rev) /\ b.token = c.token, Ack(b),
             ToPc(n, "complete"), ToPc(n, "failing"))

ChildComplete(n) ==
    LET c == child[n]  b == book[c.d]
    IN  /\ At(n, "run", "complete")
        /\ PlainCall(n, CompleteOk(b, c.gen, "completed"),
             Complete(b, "completed"), ToPc(n, "dead"), ToPc(n, "failing"))

\* After the thread is bound: record the failure and exit.  Only some lost
\* turns are reported by the SDK as transient.
ChildFails(n) ==
    LET c == child[n]  b == book[c.d]
    IN  /\ At(n, "run", "failing")
        /\ \E outcome \in {"failed", "interrupted"} :
              /\ outcome = "interrupted" => c.thread = "interrupted"
              /\ PlainCall(n, CompleteOk(b, c.gen, outcome),
                   Complete(b, outcome), ToPc(n, "dead"), ToPc(n, "dead"))

\* Before a thread: give the claim back and return the generation to prepared.
ChildReset(n) ==
    LET c == child[n]  b == book[c.d]
    IN  /\ At(n, "run", "reset")
        /\ PlainCall(n, ResetOk(b, c.gen, c.rev, c.token), Reset(b, c.gen),
             ToPc(n, "dead"), ToPc(n, "dead"))

\* A thread whose binding was refused: an ambiguous identity window.
ChildUnbound(n) ==
    LET c == child[n]  b == book[c.d]
    IN  /\ At(n, "run", "unbound")
        /\ PlainCall(n, CompleteOk(b, c.gen, "ambiguous"),
             Complete(b, "ambiguous"), ToPc(n, "reserve"), ToPc(n, "dead"))

\* reserve_controller_recovery_inspection: an expired reservation is closed in
\* a transaction of its own, and the call then fails.
ReserveCall(n, good, bad) ==
    LET b == book[child[n].d]
        expired == Serving /\ Current(b).insp = "expired"
                   /\ BookValid(Ambiguous(b))
    IN  /\ IF expired
           THEN /\ book' = [book EXCEPT ![child[n].d] = Ambiguous(b)]
                /\ Goto(n, bad)
           ELSE Call(n, ReserveOk(b), Reserve(b), good, bad)
        /\ UNCHANGED <<harness, dispatch, held>>

ChildReserve(n) ==
    LET b == book[child[n].d]
    IN  /\ child[n].pc = "reserve"
        /\ ReserveCall(n,
             [ToPc(n, IF child[n].mode = "recover" THEN "inspect"
                      ELSE "inspected") EXCEPT !.rev = b.rev, !.gen = b.gen],
             ToPc(n, "dead"))

ChildUnboundInspected(n) ==
    LET c == child[n]  b == book[c.d]
    IN  /\ At(n, "run", "inspected")
        /\ PlainCall(n, InspectedOk(b, c.gen, c.rev, "ambiguous", 0),
             Inspected(b, "ambiguous", "none"), ToPc(n, "dead"), ToPc(n, "dead"))

----------------------------------------------------------------------------
(* Recovery processes.  token holds the revision status reported, peer the  *)
(* thread the generation named, read the generation whose thread was read,  *)
(* found what the read came to.                                             *)

RecoverStatus(n) ==
    LET b == book[child[n].d]
        committed == /\ b.state \in {"action_committed",
                                      "human_attention_required"}
                     /\ b.effect # "none"
    IN  /\ At(n, "recover", "status")
        /\ PlainCall(n, TRUE, b,
             [ToPc(n, IF committed THEN "ack" ELSE "generation")
                EXCEPT !.rev = b.rev, !.token = b.rev, !.gen = b.gen],
             ToPc(n, "dead"))

RecoverGeneration(n) ==
    LET c == child[n]
        g == book[c.d].gens[c.gen]
        next == CASE g.out = "none" -> "reserve"
                  [] g.out = "completed" -> "submit"
                  [] OTHER -> "dead"
    IN  /\ At(n, "recover", "generation")
        /\ PlainCall(n, TRUE, book[c.d],
             [ToPc(n, next) EXCEPT !.peer = IF next = "reserve" THEN g.thread
                                            ELSE 0],
             ToPc(n, "dead"))

\* external: the one read of the persisted thread.  Without a thread identity
\* there is nothing to read; an unreadable thread or any SDK error is
\* unavailable or ambiguous, a live turn is reported by the SDK as active.
RecoverInspect(n) ==
    LET c == child[n]
        p == child[c.peer]
        Read == CASE p.thread \in {"running", "interrupted"} ->
                       {"active", "interrupted"}
                  [] p.thread = "failed" -> {"failed"}
                  [] p.thread = "completed" /\ p.token = c.token
                     /\ p.gen = c.gen -> {"completed"}
                  [] OTHER -> {}
        Seen == IF c.peer = 0 THEN {"ambiguous"}
                ELSE {"unavailable", "ambiguous"} \union Read
    IN  /\ At(n, "recover", "inspect")
        /\ \E kind \in Seen :
              Goto(n, [ToPc(n, "record") EXCEPT
                !.found = kind, !.eff = IF kind = "completed" THEN p.eff ELSE @,
                !.read = IF c.peer = 0 THEN 0 ELSE c.gen])
        /\ UNCHANGED <<book, dispatch, harness, held>>

RecoverRecord(n) ==
    LET c == child[n]  b == book[c.d]
    IN  /\ At(n, "recover", "record")
        /\ PlainCall(n, InspectedOk(b, c.gen, c.rev, c.found, c.token),
             Inspected(b, c.found, c.eff),
             ToPc(n, IF c.found = "completed" THEN "submit" ELSE "dead"),
             ToPc(n, "dead"))

(* Mutant: the inspected bundle is committed without its receipt check.    *)
RecoverSubmit_Again(n) ==
    LET b == book[child[n].d]
        g == Current(b)
    IN  /\ At(n, "recover", "submit")
        /\ SubmitCall(n, g.out = "completed", Submit(b, g.eff, g.thread), g.eff,
             [ToPc(n, "ack") EXCEPT !.rev = b.rev + 1], ToPc(n, "dead"))

RecoverSubmit(n) ==
    LET c == child[n]
        b == book[c.d]
        g == Current(b)
        replay == g.out = "completed" /\ Replay(b, g.thread)
        fresh == /\ b.effect = "none" /\ SubmitRecoveredOk(b)
                 /\ EffectAllowed(g.eff, dispatch.queue)
    IN  /\ At(n, "recover", "submit")
        /\ SubmitCall(n, replay \/ fresh,
             IF replay THEN b ELSE Submit(b, g.eff, g.thread), g.eff,
             [ToPc(n, "ack") EXCEPT !.rev = g.rev + 1], ToPc(n, "dead"))

RecoverAck(n) ==
    LET c == child[n]  b == book[c.d]
    IN  /\ At(n, "recover", "ack")
        /\ PlainCall(n, AckRecoveredOk(b, b.by, c.rev), Ack(b),
             ToPc(n, "dead"), ToPc(n, "dead"))

----------------------------------------------------------------------------
(* People and the source task, through the controller-decision commands *)

\* held[d] is the claim token an operator was given (0: none).
OperatorClaim(d, kind) ==
    LET b == book[d]
    IN  /\ Serving /\ harness.humans < MaxHuman
        /\ ClaimOk(b, kind, b.rev, b.gen)
        /\ Commit(d, Claim(b, kind))
        /\ held' = [held EXCEPT ![d] = b.rev + 1]
        /\ harness' = [harness EXCEPT !.humans = @ + 1]
        /\ UNCHANGED <<dispatch, child>>

(* Mutant: the capability alone is enough, also for a second bundle.       *)
OperatorSubmit_Again(d, eff) ==
    LET b == book[d]
    IN  /\ Serving /\ held[d] # 0 /\ b.token = held[d] /\ b.rev < 8
        /\ Commit(d, Submit(b, eff, 0))
        /\ dispatch' = Applied(eff)
        /\ Trigger
        /\ UNCHANGED <<child, held>>

OperatorSubmit(d, eff) ==
    LET b == book[d]
    IN  /\ Serving /\ held[d] # 0
        /\ b.effect = "none"
        /\ SubmitOk(b, b.gen, held[d], held[d])
        /\ EffectAllowed(eff, dispatch.queue)
        /\ Commit(d, Submit(b, eff, 0))
        /\ dispatch' = Applied(eff)
        /\ Trigger
        /\ UNCHANGED <<child, held>>

OperatorAck(d) ==
    LET b == book[d]
    IN  /\ Serving /\ held[d] # 0 /\ ~b.acked
        /\ AckOk(b, 0, held[d] + 1) /\ b.token = held[d]
        /\ Commit(d, Ack(b))
        /\ UNCHANGED <<dispatch, child, harness, held>>

\* controller-decision recover: reserve and complete in two transactions; a
\* completed outcome has no bundle and is refused after the reservation.
OperatorRecover(d, outcome) ==
    LET b == book[d]
        reserved == Reserve(b)
        done == Inspected(reserved, outcome, "none")
    IN  /\ Serving /\ harness.humans < MaxHuman
        /\ ReserveOk(b) /\ BookValid(reserved)
        /\ book' = [book EXCEPT
              ![d] = IF /\ outcome # "completed"
                        /\ InspectedOk(reserved, b.gen, b.rev, outcome, 0)
                        /\ BookValid(done)
                     THEN done ELSE reserved]
        /\ harness' = [harness EXCEPT !.humans = @ + 1]
        /\ UNCHANGED <<dispatch, child, held>>

----------------------------------------------------------------------------
(* Time.  A claim lasts 300 seconds, as long as the decision's own window,  *)
(* so a claim never renewed or deferred outlives the deadline.              *)

ExpireClaim(d) ==
    /\ book[d].lease = "live"
    /\ book' = [book EXCEPT ![d].lease = "expired",
                            ![d].late = @ \/ book[d].rev = book[d].token]
    /\ UNCHANGED <<dispatch, child, harness, held>>

PassDeadline(d) ==
    LET b == book[d]
    IN  /\ ~b.late /\ Outstanding(b)
        /\ book' = [book EXCEPT ![d] =
              [b EXCEPT !.late = TRUE,
                 !.lease = IF @ = "live" /\ b.rev # b.token
                           THEN "expired" ELSE @,
                 !.gens[b.gen].insp = IF @ = "live" THEN "expired" ELSE @]]
        /\ UNCHANGED <<dispatch, child, harness, held>>

ExpireInspection(d) ==
    LET b == book[d]
    IN  /\ Current(b).insp = "live"
        /\ book' = [book EXCEPT ![d].gens[b.gen].insp = "expired"]
        /\ UNCHANGED <<dispatch, child, harness, held>>

----------------------------------------------------------------------------
(* The dispatch the decisions are about *)

Opened == {d \in Checkpoints : book[d].state # "absent"}

Latest == CHOOSE d \in Opened : \A e \in Opened : e <= d

Due == Serving /\ dispatch.armed /\ dispatch.queue \in {"active", "attention"}

CheckpointDue ==
    /\ Due /\ Opened # Checkpoints
    /\ book' = [book EXCEPT ![Cardinality(Opened) + 1] =
                   NewDecision(dispatch.source, FALSE)]
    /\ dispatch' = [dispatch EXCEPT !.armed = FALSE]
    /\ Trigger
    /\ UNCHANGED <<child, held>>

\* The cycle budget is spent: the error rolls the disarming back and nothing
\* in the harness loop catches it.
CheckpointExhausted ==
    /\ Due /\ Opened = Checkpoints /\ harness.crashes < MaxCrash
    /\ StopProcess
    /\ UNCHANGED <<book, dispatch, held>>

RearmAllowed ==
    Opened # {} =>
        /\ book[Latest].wake \notin {"pending", "starting"}
        /\ book[Latest].state \notin {"pending_delivery", "claimed",
                                      "action_committed"}

\* A worker exits and its dispatch needs a human: a checkpoint becomes due.
WorkerAttention ==
    /\ Serving /\ dispatch.queue = "active"
    /\ dispatch' = [dispatch EXCEPT !.queue = "attention",
                                    !.armed = @ \/ RearmAllowed]
    /\ Trigger
    /\ UNCHANGED <<book, child, held>>

\* finalize_dispatch: actionless checkpoints are superseded, their undelivered
\* wakes suppressed, and the terminal decision is opened.
Finalize ==
    LET closed(d) ==
          LET b == IF Outstanding(book[d]) /\ book[d].effect = "none"
                   THEN Supersede(book[d]) ELSE book[d]
          IN  [b EXCEPT !.wake = IF b.effect = "none" /\ b.state # "absent"
                                    /\ @ # "delivered"
                                 THEN "suppressed" ELSE @]
        next == [d \in Decisions |->
                   IF d = 0 THEN NewDecision(dispatch.source, TRUE)
                   ELSE closed(d)]
    IN  /\ Serving /\ MayFinish /\ dispatch.queue = "active"
        /\ \A d \in Decisions : BookValid(next[d])
        /\ book' = next
        /\ dispatch' = [dispatch EXCEPT !.queue = "completed", !.armed = FALSE]
        /\ Trigger
        /\ UNCHANGED <<child, held>>

\* Cancellation by a person: every outstanding checkpoint is retired and the
\* wake rows are deleted, or the whole transaction is refused.
Cancel ==
    LET retired(b) ==
          [IF Outstanding(b) THEN Supersede(b) ELSE b EXCEPT !.wake = "absent"]
        next == [d \in Decisions |->
                   IF d = 0 THEN book[d] ELSE retired(book[d])]
    IN  /\ Serving /\ MayFinish /\ dispatch.queue \in {"active", "attention"}
        /\ \A d \in Decisions : BookValid(next[d])
        /\ book' = next
        /\ dispatch' = [dispatch EXCEPT !.queue = "cancelled"]
        /\ Trigger
        /\ UNCHANGED <<child, held>>

----------------------------------------------------------------------------
Init ==
    /\ book = [d \in Decisions |-> NoBook]
    /\ dispatch \in [queue : {"active"}, armed : {TRUE}, source : Sources]
    /\ child = [n \in Children |-> NoChild]
    /\ harness = [at |-> "deliver", todo |-> {}, cur |-> 0, mode |-> "none",
                  failed |-> {}, crashes |-> 0, humans |-> 0]
    /\ held = [d \in Decisions |-> 0]

HarnessNext ==
    \/ Crash \/ Stop \/ Restart \/ ProfileRefresh
    \/ \E d \in Decisions : ClaimWake(d) \/ Schedule(d)
    \/ \E outcome \in {"delivered", "ambiguous", "failed"} :
          RecordWake(outcome)
    \/ BeginSchedule \/ Launch \/ LaunchRefused \/ LaunchFails
    \/ \E n \in Children : ReapChild(n)

RunStep(n) ==
    \/ ChildStatus(n) \/ ChildClaim(n) \/ ChildPrepare(n)
    \/ ChildStartThread(n) \/ ChildBindThread(n) \/ ChildBindTurn(n)
    \/ ChildTurnEnds(n) \/ ChildDefer(n) \/ ChildRenew(n) \/ ChildSubmit(n)
    \/ ChildAck(n) \/ ChildComplete(n) \/ ChildFails(n) \/ ChildReset(n)
    \/ ChildUnbound(n) \/ ChildReserve(n) \/ ChildUnboundInspected(n)

RecoverStep(n) ==
    \/ RecoverStatus(n) \/ RecoverGeneration(n) \/ RecoverInspect(n)
    \/ RecoverRecord(n) \/ RecoverSubmit(n) \/ RecoverAck(n)

ChildNext ==
    \E n \in Children :
        RunStep(n) \/ RecoverStep(n) \/ ChildProfileFails(n) \/ ChildDies(n)

OperatorNext ==
    \E d \in Decisions :
        \/ \E kind \in {"human", "model"} : OperatorClaim(d, kind)
        \/ \E eff \in Effects : OperatorSubmit(d, eff)
        \/ OperatorAck(d)
        \/ \E outcome \in InspectionOutcomes : OperatorRecover(d, outcome)

TimeNext ==
    \E d \in Decisions : ExpireClaim(d) \/ PassDeadline(d) \/ ExpireInspection(d)

DispatchNext ==
    CheckpointDue \/ CheckpointExhausted \/ WorkerAttention \/ Finalize \/ Cancel

Next == HarnessNext \/ ChildNext \/ OperatorNext \/ TimeNext \/ DispatchNext

Spec == Init /\ [][Next]_vars

----------------------------------------------------------------------------
GenerationRow ==
    [state : GenerationStates, prompt : Nat, thread : {0} \union Children,
     insp : {"none", "live", "expired", "done"},
     out : {"none"} \union InspectionOutcomes, eff : {"none"} \union Effects,
     rev : Nat]

BookRow ==
    [state : DecisionStates, rev : Nat, gen : 1..2,
     kind : {"none", "human", "model"}, token : Nat,
     lease : {"none", "live", "expired"}, late : BOOLEAN,
     effect : {"none"} \union Effects, by : {0} \union Children,
     effects : Nat, acked : BOOLEAN, superseded : BOOLEAN, wake : WakeStates,
     tries : 0..2, gens : [1..2 -> GenerationRow]]

(* Every row has its columns' types and passes the ledger's own validator:  *)
(* no transaction, expiry or restart leaves a decision it would refuse.     *)
TypeOK ==
    /\ \A d \in Decisions : book[d] \in BookRow /\ BookValid(book[d])
    /\ dispatch.queue \in {"active", "attention", "completed", "cancelled"}
    /\ held \in [Decisions -> Nat]
    /\ harness.at \in {"down", "deliver", "wake", "schedule", "launch",
                       "serve"}

(* A decision's effects are applied at most once, whatever was retried,     *)
(* recovered or claimed by a person meanwhile.                              *)
OneEffectPerDecision == \A d \in Decisions : book[d].effects <= 1

(* An effect that came from a thread is the effect of the decision's        *)
(* current generation: a replaced controller never acts.                    *)
EffectFromCurrentGeneration ==
    \A d \in Decisions :
        book[d].by # 0 =>
            /\ Current(book[d]).thread = book[d].by
            /\ child[book[d].by].gen = book[d].gen

(* The persisted thread of a generation is read by one process, once.       *)
InspectionReadOnce ==
    \A m, n \in Children :
        m # n /\ child[m].d = child[n].d /\ child[m].read # 0
        => child[n].read # child[m].read

(* Whenever the harness is at rest, a committed effect whose acknowledgement *)
(* is owed has a process that will send it: the scheduler never forgets one  *)
(* (beyond a generation it cannot resume and a process it could not start).  *)
OwedAcknowledgementHasProcess ==
    \A d \in Decisions :
        Serving /\ book[d].effect # "none" /\ ~book[d].acked =>
            \/ d \in Registered \union harness.failed
            \/ Launched = Children
            \/ Current(book[d]).state \in {"unavailable", "ambiguous"}

(* A committed effect is never changed, and its acknowledgement never lost, *)
(* by a later claim, recovery, finalization or cancellation.                *)
CommittedEffectIsFinal ==
    [][\A d \in Decisions : book[d].effect # "none" =>
          /\ book'[d].effect = book[d].effect
          /\ book'[d].by = book[d].by
          /\ book[d].acked => book'[d].acked]_vars

(* While a human's claim is live no model bundle commits, no generation is  *)
(* replaced, and the claim is taken from the human only by a controller     *)
(* that failed its profile check before it had a thread.                    *)
HumanClaimIsRespected ==
    [][\A d \in Decisions :
          book[d].kind = "human" /\ book[d].lease = "live" =>
              /\ book'[d].by = 0 /\ book'[d].gen = book[d].gen
              /\ \/ book'[d].kind = "human"
                 \/ /\ Current(book'[d]).state = "failed"
                    /\ Current(book'[d]).thread = 0]_vars
=============================================================================
