----------------------------- MODULE Executions -----------------------------
(***************************************************************************)
(* Executions of milestones in shared workspaces.                          *)
(*                                                                         *)
(* A controller starts a planned execution in a workspace: it leases the   *)
(* workspace, captures a baseline of it, starts an SDK thread and runs one *)
(* turn in it, and judges what the turn left behind.  Or the hosting app   *)
(* does the work: the controller prepares one task for it, binds the       *)
(* thread the host reports and ingests its result.  Each step is durable,  *)
(* so that after a crash an external call is never made a second time.     *)
(*                                                                         *)
(* rows is the ledger: the execution, its dispatch, its integrity facts,   *)
(* its milestone and its App-native row; leases are the workspace leases.  *)
(* The tree of a workspace is seen as the parts the code tells apart: what *)
(* an execution owns (its mutable paths), the protected paths ("prot") and *)
(* Git's own state ("git").  A part is a version; only Git's never goes    *)
(* back (its reflogs are part of it).  ctl is the position of the command  *)
(* that holds the controller's mutation lock; a crash releases the lock.   *)
(***************************************************************************)
EXTENDS Naturals, FiniteSets

CONSTANTS
    Execs,        \* executions, all of one run
    Workspaces,
    Ws,           \* Ws[e]: the workspace of e's capsule
    Lane,         \* Lane[e]: its lane
    Hosting,      \* "sdk" and "host": the routes the instance exercises
    MaxEdits,     \* bound: changes of the workspaces
    MaxCrash      \* bound: crashes of the controller

ASSUME ExecutionConstants ==
    /\ Ws \in [Execs -> Workspaces]
    /\ Execs \cap {"prot", "git"} = {}
    /\ Hosting \subseteq {"sdk", "host"}
    /\ MaxEdits \in Nat /\ MaxCrash \in Nat

VARIABLES rows, leases, tree, ctl, calls, env

vars == <<rows, leases, tree, ctl, calls, env>>

Parts == Execs \union {"prot", "git"}
Trees == [Parts -> {0, 1}]
NoTree == << >>
BaseRevision == [p \in Parts |-> 0]

Statuses == {"none", "planned", "uncertain", "started",
             "completed", "failed", "cancelled"}
Terminal == {"completed", "failed", "cancelled"}
Checkpoints == {"capsule_planned", "workspace_leased", "baseline_durable",
                "thread_starting", "identity_durable", "turn_durable",
                "result_durable"}
Idle == [at |-> "idle"]

\* thread says who reported the identity of the durable thread, marker is the
\* turn_starting marker, base and term the trees whose facts execution_integrity
\* keeps, host the App-native row with its own.
NewRow == [status |-> "none", cp |-> "capsule_planned", ms |-> "PLANNED",
           claimed |-> FALSE, thread |-> "none", marker |-> FALSE,
           turn |-> FALSE, base |-> NoTree, term |-> NoTree,
           host |-> [st |-> "none", base |-> NoTree, term |-> NoTree]]

----------------------------------------------------------------------------
(* What the controller checks of a workspace *)

Sharing(e) == {x \in Execs : Ws[x] = Ws[e]}
Tree(e) == tree[Ws[e]]

\* completed_workspace_predecessors
Predecessors(e) == {p \in Sharing(e) \ {e} : rows[p].status = "completed"}

TerminalTree(p) == IF rows[p].host.st # "none" THEN rows[p].host.term
                                               ELSE rows[p].term

(* Mutant: accepted content may change as long as Git's own state did not *)
PredecessorsOk_GitOnly(e) ==
    \A p \in Predecessors(e) : Tree(e)["git"] = TerminalTree(p)["git"]

\* What accepted executions left behind is there unchanged.
PredecessorsOk(e) ==
    \A p \in Predecessors(e) :
        /\ TerminalTree(p) # NoTree
        /\ \A part \in {p, "git"} : Tree(e)[part] = TerminalTree(p)[part]

\* _assert_mutation_scope: since the tree base, nothing outside roots changed.
InScope(e, base, roots) ==
    \A part \in (Sharing(e) \ roots) \union {"prot"} : Tree(e)[part] = base[part]

ProtectedOk(e) == Tree(e)["prot"] = BaseRevision["prot"]

----------------------------------------------------------------------------
(* The ledger's rules *)

\* An execution that is in its workspace: planned no more, and not ended.
Active(x) == /\ rows[x].status \notin Terminal \union {"none"}
             /\ rows[x].cp # "capsule_planned"

LeaseOf(e) == [ws |-> Ws[e], lane |-> Lane[e]]

(* Mutant: a lease of one's own run is enough                             *)
LeaseOk_OwnLease(e) ==
    /\ rows[e].status \notin Terminal
    /\ \A l \in leases : (l.ws = Ws[e] \/ l.lane = Lane[e]) => l = LeaseOf(e)

\* acquire_workspace_lease
LeaseOk(e) ==
    /\ rows[e].status \notin Terminal
    /\ \A l \in leases : (l.ws = Ws[e] \/ l.lane = Lane[e]) => l = LeaseOf(e)
    /\ LeaseOf(e) \in leases => \A x \in Sharing(e) \ {e} : ~Active(x)

Leased(row) == [row EXCEPT !.cp = IF @ = "capsule_planned" THEN "workspace_leased"
                                                           ELSE @]

\* The validation every transaction ends with; a transaction that would leave
\* a row it refuses is rolled back.
ThreadIsHosts(row) ==
    row.host.st # "none" =>
        /\ row.thread # "sdk"
        /\ row.host.st = "prepared" => row.thread = "none"
        /\ row.host.st \in {"bound", "completed", "failed"} => row.thread = "host"

Paired(row) ==
    CASE row.status = "planned"   -> row.thread = "none"
      [] row.status = "uncertain" -> row.thread = "none" /\ row.ms = "STARTING"
      [] row.status = "started"   -> /\ row.thread # "none"
                                     /\ row.ms = "RUNNING"
                                     /\ row.host.st \in {"none", "bound"}
      [] row.status = "completed" -> /\ row.thread # "none"
                                     /\ (row.turn \/ row.host.st # "none")
                                     /\ row.host.st \in {"none", "completed"}
      [] row.status = "failed"    -> /\ row.ms = "FAILED"
                                     /\ row.host.st \in {"none", "failed"}
      [] row.status = "cancelled" -> /\ row.ms = "CANCELLED"
                                     /\ row.host.st \in {"none", "cancelled"}
      [] OTHER -> TRUE

TurnCausal(row) ==
    /\ row.marker => row.base # NoTree /\ ~row.turn
    /\ row.turn => row.base # NoTree

IntegrityKept(row) ==
    /\ row.status \in {"uncertain", "started", "completed", "failed"}
          => (row.base # NoTree \/ row.host.st # "none")
    /\ row.status = "completed" /\ row.base # NoTree => row.term # NoTree

RowValid(row) ==
    /\ ThreadIsHosts(row) /\ Paired(row) /\ TurnCausal(row) /\ IntegrityKept(row)

(* Mutant: nothing is validated before the commit                         *)
Writes_Unchecked(e, row) == rows' = [rows EXCEPT ![e] = row]

\* A transaction: the new row of e, or nothing when the validation refuses it.
Writes(e, row) == rows' = IF RowValid(row) THEN [rows EXCEPT ![e] = row] ELSE rows

----------------------------------------------------------------------------
(* Commands that hold the lock *)

Free == ctl = Idle
At(e, place) == ctl.at = place /\ ctl.e = e
Goes(place) == ctl' = [ctl EXCEPT !.at = place]
Returns == ctl' = Idle

\* plan_execution
Planned(row) == [row EXCEPT !.status = "planned", !.cp = "capsule_planned"]

\* _plan: a plan that exists is only compared.
Plan(e) ==
    /\ Free
    /\ rows[e].status = "none"
    /\ Writes(e, Planned(rows[e]))
    /\ UNCHANGED <<leases, tree, ctl, calls, env>>

\* _authorize_external_call: the tree is the baseline, and the accepted
\* executions are still in it.  It captures the tree twice, so that its
\* comparison is of one moment.
Authorized(e) ==
    /\ LeaseOf(e) \in leases
    /\ rows[e].base # NoTree
    /\ PredecessorsOk(e)
    /\ ProtectedOk(e)
    /\ Tree(e) = rows[e].base

\* _start of an execution whose last start crossed the external boundary
StartInterrupted(e) ==
    /\ Free
    /\ rows[e].status = "planned"
    /\ rows[e].cp = "thread_starting"
    /\ Writes(e, [rows[e] EXCEPT !.status = "uncertain"])
    /\ UNCHANGED <<leases, tree, ctl, calls, env>>

\* _start, up to the lease: the tree differs from the base revision only where
\* e or an accepted execution may write.
StartLease(e) ==
    /\ Free
    /\ rows[e].status = "planned"
    /\ rows[e].cp \in {"capsule_planned", "workspace_leased"}
    /\ ProtectedOk(e)
    /\ PredecessorsOk(e)
    /\ InScope(e, BaseRevision, {e} \union Predecessors(e))
    /\ LeaseOk(e)
    /\ Writes(e, Leased(rows[e]))
    /\ leases' = leases \union {LeaseOf(e)}
    /\ ctl' = [e |-> e, at |-> "leased", base |-> NoTree, meddled |-> FALSE]
    /\ UNCHANGED <<tree, calls, env>>

\* _start of an execution with a durable baseline
StartBaselined(e) ==
    /\ Free
    /\ rows[e].status = "planned"
    /\ rows[e].cp = "baseline_durable"
    /\ Authorized(e)
    /\ LeaseOk(e)
    /\ ctl' = [e |-> e, at |-> "captured", base |-> rows[e].base, meddled |-> FALSE]
    /\ UNCHANGED <<rows, leases, tree, calls, env>>

\* _stable_workspace_authority
Capture(e) ==
    /\ At(e, "leased")
    /\ ctl' = IF ProtectedOk(e) THEN [ctl EXCEPT !.at = "captured", !.base = Tree(e)]
                                ELSE Idle
    /\ UNCHANGED <<rows, leases, tree, calls, env>>

\* record_native_profile
RecordProfile(e) ==
    /\ At(e, "captured")
    /\ IF /\ ProtectedOk(e)
          /\ InScope(e, ctl.base, {e})
          /\ LeaseOk(e)
          /\ rows[e].base \in {NoTree, ctl.base}
         THEN /\ Writes(e, [rows[e] EXCEPT !.base = ctl.base,
                                           !.cp = "baseline_durable"])
              /\ Goes("baselined")
         ELSE Returns /\ UNCHANGED rows
    /\ UNCHANGED <<leases, tree, calls, env>>

\* claim_dispatch returns the claim an earlier start, or the host, made.
Claim(e) ==
    /\ At(e, "baselined")
    /\ IF Authorized(e) /\ (rows[e].claimed \/ rows[e].ms = "PLANNED")
         THEN /\ Writes(e, [rows[e] EXCEPT !.claimed = TRUE, !.ms = "STARTING"])
              /\ Goes("claimed")
         ELSE Returns /\ UNCHANGED rows
    /\ UNCHANGED <<leases, tree, calls, env>>

\* record_thread_starting
ThreadStarting(e) ==
    /\ At(e, "claimed")
    /\ Writes(e, [rows[e] EXCEPT !.cp = "thread_starting"])
    /\ Goes("starting")
    /\ UNCHANGED <<leases, tree, calls, env>>

\* The last check before start_thread; a refusal proves that no call was made.
RejectStart(e) ==
    /\ At(e, "starting")
    /\ ~Authorized(e)
    /\ Writes(e, [rows[e] EXCEPT !.cp = "baseline_durable"])
    /\ Returns
    /\ UNCHANGED <<leases, tree, calls, env>>

CallStart(e) ==
    /\ At(e, "starting")
    /\ Authorized(e)
    /\ calls' = [calls EXCEPT ![e].starts = @ + 1]
    /\ Goes("called")
    /\ UNCHANGED <<rows, leases, tree, env>>

\* start_thread raises
StartFails(e) ==
    /\ At(e, "called")
    /\ Writes(e, [rows[e] EXCEPT !.status = "uncertain"])
    /\ Returns
    /\ UNCHANGED <<leases, tree, calls, env>>

\* record_thread_identity
RecordIdentity(e) ==
    /\ At(e, "called")
    /\ LET row == [rows[e] EXCEPT !.status = "started", !.cp = "identity_durable",
                                  !.thread = "sdk", !.ms = "RUNNING"]
       IN Writes(e, row) /\ IF RowValid(row) THEN Goes("threaded") ELSE Returns
    /\ UNCHANGED <<leases, tree, calls, env>>

(* Mutant: a turn that may have run is run again                          *)
ResumeThread_AnyMarker(e) ==
    /\ Free
    /\ rows[e].status = "started"
    /\ rows[e].base # NoTree
    /\ ~rows[e].turn
    /\ Authorized(e)
    /\ ctl' = [e |-> e, at |-> "threaded", base |-> rows[e].base, meddled |-> FALSE]
    /\ UNCHANGED <<rows, leases, tree, calls, env>>

\* _resume before the turn.  A turn_starting marker means that the turn may
\* have run: the execution stays as it is.
ResumeThread(e) ==
    /\ Free
    /\ rows[e].status = "started"
    /\ rows[e].base # NoTree
    /\ ~rows[e].turn /\ ~rows[e].marker
    /\ Authorized(e)
    /\ ctl' = [e |-> e, at |-> "threaded", base |-> rows[e].base, meddled |-> FALSE]
    /\ UNCHANGED <<rows, leases, tree, calls, env>>

\* _resume after it: what the turn left behind is judged.
ResumeVerify(e) ==
    /\ Free
    /\ rows[e].status = "started"
    /\ rows[e].base # NoTree
    /\ rows[e].turn
    /\ ProtectedOk(e)
    /\ ctl' = [e |-> e, at |-> "verify", base |-> rows[e].base, meddled |-> FALSE]
    /\ UNCHANGED <<rows, leases, tree, calls, env>>

\* record_git_authority_before, record_turn_starting
TurnStarting(e) ==
    /\ At(e, "threaded")
    /\ IF Authorized(e)
         THEN Writes(e, [rows[e] EXCEPT !.marker = TRUE]) /\ Goes("marked")
         ELSE Returns /\ UNCHANGED rows
    /\ UNCHANGED <<leases, tree, calls, env>>

RejectTurn(e) ==
    /\ At(e, "marked")
    /\ ~Authorized(e)
    /\ Writes(e, [rows[e] EXCEPT !.marker = FALSE])
    /\ Returns
    /\ UNCHANGED <<leases, tree, calls, env>>

\* run_turn: from here to its return the worker changes the tree.
CallTurn(e) ==
    /\ At(e, "marked")
    /\ Authorized(e)
    /\ calls' = [calls EXCEPT ![e].turns = @ + 1]
    /\ Goes("turning")
    /\ UNCHANGED <<rows, leases, tree, env>>

\* run_turn raises: the marker stays.
TurnFails(e) ==
    /\ At(e, "turning")
    /\ Returns
    /\ UNCHANGED <<rows, leases, tree, calls, env>>

\* record_turn.  Whether the worker meddled with the controller's own state is
\* only remembered by this process.
TurnReturns(e) ==
    /\ At(e, "turning")
    /\ Writes(e, [rows[e] EXCEPT !.marker = FALSE, !.turn = TRUE, !.cp = "turn_durable"])
    /\ \E meddled \in BOOLEAN :
          ctl' = [ctl EXCEPT !.at = "verify", !.meddled = meddled]
    /\ UNCHANGED <<leases, tree, calls, env>>

\* record_terminal_execution
Record(e, status, tr) ==
    Writes(e, [rows[e] EXCEPT !.status = status, !.cp = "result_durable",
                              !.ms = IF status = "completed" THEN "COMPLETED" ELSE "FAILED",
                              !.term = tr])

\* Nothing changed but what e owns.
Unspoiled(e, base) ==
    /\ Tree(e)["git"] = base["git"]
    /\ InScope(e, base, {e})

\* The checks after the turn; failed is what the validation command and the
\* worker's own result say.
Verify(e) ==
    /\ At(e, "verify")
    /\ \E failed \in BOOLEAN :
          IF failed \/ ctl.meddled \/ ~Unspoiled(e, rows[e].base)
            THEN Record(e, "failed", NoTree) /\ Returns
            ELSE Goes("verified") /\ UNCHANGED rows
    /\ UNCHANGED <<leases, tree, calls, env>>

\* The capture of what e leaves to its successors
Finish(e) ==
    /\ At(e, "verified")
    /\ IF Tree(e)["git"] = rows[e].base["git"]
         THEN Record(e, "completed", Tree(e))
         ELSE Record(e, "failed", NoTree)
    /\ Returns
    /\ UNCHANGED <<leases, tree, calls, env>>

----------------------------------------------------------------------------
(* Executions the hosting app works on *)

\* prepare_app_native, up to the lease
PrepareLease(e) ==
    /\ Free
    /\ "host" \in Hosting
    /\ rows[e].status = "planned"
    /\ rows[e].host.st = "none"
    /\ ProtectedOk(e)
    /\ PredecessorsOk(e)
    /\ InScope(e, BaseRevision, {e} \union Predecessors(e))
    /\ LeaseOk(e)
    /\ Writes(e, Leased(rows[e]))
    /\ leases' = leases \union {LeaseOf(e)}
    /\ ctl' = [e |-> e, at |-> "prepare", base |-> NoTree, meddled |-> FALSE]
    /\ UNCHANGED <<tree, calls, env>>

\* prepare_app_native_dispatch, for the tree captured just before
PrepareHost(e) ==
    /\ At(e, "prepare")
    /\ IF /\ ProtectedOk(e)
          /\ rows[e].cp \in {"workspace_leased", "baseline_durable"}
          /\ rows[e].ms = "PLANNED" /\ ~rows[e].claimed
         THEN Writes(e, [rows[e] EXCEPT
                  !.claimed = TRUE, !.ms = "STARTING", !.cp = "baseline_durable",
                  !.host = [st |-> "prepared", base |-> Tree(e), term |-> NoTree]])
         ELSE UNCHANGED rows
    /\ Returns
    /\ UNCHANGED <<leases, tree, calls, env>>

\* bind_app_native_dispatch: the receipt of the task the action named
BindHost(e) ==
    /\ Free
    /\ rows[e].host.st = "prepared"
    /\ rows[e].status = "planned"
    /\ rows[e].ms = "STARTING"
    /\ Writes(e, [rows[e] EXCEPT !.status = "started", !.cp = "identity_durable",
                                 !.thread = "host", !.ms = "RUNNING",
                                 !.host.st = "bound"])
    /\ UNCHANGED <<leases, tree, ctl, calls, env>>

\* complete_app_native: failed integrity fails the host's result.
HostPasses(e) == Unspoiled(e, rows[e].host.base) /\ ProtectedOk(e)

\* record_app_native_result, with the tree captured at the end
CompleteHost(e) ==
    /\ Free
    /\ rows[e].host.st = "bound"
    /\ rows[e].status = "started"
    /\ rows[e].ms = "RUNNING"
    /\ \E failed \in BOOLEAN :
          LET passed == ~failed /\ HostPasses(e)
              status == IF passed THEN "completed" ELSE "failed"
          IN Writes(e, [rows[e] EXCEPT
                !.status = status, !.cp = "result_durable",
                !.ms = IF passed THEN "COMPLETED" ELSE "FAILED",
                !.host = [@ EXCEPT !.st = status,
                                   !.term = IF passed THEN Tree(e) ELSE NoTree]])
    /\ UNCHANGED <<leases, tree, ctl, calls, env>>

----------------------------------------------------------------------------
(* Cancellation, crashes and the world *)

\* cancel
Cancel(e) ==
    /\ Free
    /\ rows[e].status \notin Terminal \union {"none"}
    /\ Writes(e, [rows[e] EXCEPT !.status = "cancelled", !.cp = "result_durable",
                                 !.ms = "CANCELLED",
                                 !.host.st = IF @ = "none" THEN @ ELSE "cancelled"])
    /\ UNCHANGED <<leases, tree, ctl, calls, env>>

Crash ==
    /\ ~Free
    /\ env.crashes < MaxCrash
    /\ Returns
    /\ env' = [env EXCEPT !.crashes = @ + 1]
    /\ UNCHANGED <<rows, leases, tree, calls>>

\* A worker, a person or another program changes a workspace.
Edit(w, part) ==
    /\ env.edits < MaxEdits
    /\ part = "git" => tree[w]["git"] = 0
    /\ tree' = [tree EXCEPT ![w][part] = 1 - @]
    /\ env' = [env EXCEPT !.edits = @ + 1]
    /\ UNCHANGED <<rows, leases, ctl, calls>>

Init ==
    /\ rows = [e \in Execs |-> NewRow]
    /\ leases = {}
    /\ tree = [w \in Workspaces |-> BaseRevision]
    /\ ctl = Idle
    /\ calls = [e \in Execs |-> [starts |-> 0, turns |-> 0]]
    /\ env = [edits |-> 0, crashes |-> 0]

Sdk(e) ==
    \/ StartInterrupted(e) \/ StartLease(e) \/ StartBaselined(e) \/ Capture(e)
    \/ RecordProfile(e) \/ Claim(e) \/ ThreadStarting(e) \/ RejectStart(e)
    \/ CallStart(e) \/ StartFails(e) \/ RecordIdentity(e) \/ ResumeThread(e)
    \/ ResumeVerify(e) \/ TurnStarting(e) \/ RejectTurn(e) \/ CallTurn(e)
    \/ TurnFails(e) \/ TurnReturns(e) \/ Verify(e) \/ Finish(e)

Host(e) == PrepareLease(e) \/ PrepareHost(e) \/ BindHost(e) \/ CompleteHost(e)

Next ==
    \/ \E e \in Execs : Plan(e) \/ Sdk(e) \/ Host(e) \/ Cancel(e)
    \/ Crash
    \/ \E w \in Workspaces, part \in Parts : Edit(w, part)

Spec == Init /\ [][Next]_vars

----------------------------------------------------------------------------
(* Properties *)

Rows == [status : Statuses, cp : Checkpoints,
         ms : {"PLANNED", "STARTING", "RUNNING", "COMPLETED", "FAILED", "CANCELLED"},
         claimed : BOOLEAN, thread : {"none", "sdk", "host"},
         marker : BOOLEAN, turn : BOOLEAN,
         base : Trees \union {NoTree}, term : Trees \union {NoTree},
         host : [st : {"none", "prepared", "bound", "completed", "failed", "cancelled"},
                 base : Trees \union {NoTree}, term : Trees \union {NoTree}]]

(* Types, and what the ledger's validation of executions requires of every *)
(* row (_validate_rows).                                                 *)
TypeOK ==
    /\ rows \in [Execs -> Rows]
    /\ leases \subseteq {LeaseOf(e) : e \in Execs}
    /\ tree \in [Workspaces -> Trees]
    /\ \A e \in Execs : calls[e].starts \in Nat /\ calls[e].turns \in Nat
    /\ env.edits \in 0..MaxEdits /\ env.crashes \in 0..MaxCrash
    /\ \A e \in Execs : RowValid(rows[e])

(* Two executions are never in one workspace: whatever crashed and whatever *)
(* was cancelled or left uncertain, acquire_workspace_lease lets one in     *)
(* only when the others are out.                                            *)
WorkspaceExclusive ==
    \A e, x \in Execs : e # x /\ Ws[e] = Ws[x] => ~(Active(e) /\ Active(x))

(* An external call is made once: a start or a turn that was interrupted is *)
(* never repeated, by _start, by _resume or after a crash.                  *)
CallsNeverRepeated ==
    \A e \in Execs : calls[e].starts <= 1 /\ calls[e].turns <= 1

(* What an execution leaves behind when it is accepted is still there when  *)
(* the next SDK execution of the workspace is judged: no command accepts a  *)
(* tree in which the work of an accepted predecessor changed.               *)
AcceptedWorkSurvives ==
    [][\A e \in Execs :
         At(e, "verify") /\ ctl'.at = "verified" =>
            \A p \in Predecessors(e) : Tree(e)[p] = TerminalTree(p)[p]]_vars

=============================================================================
