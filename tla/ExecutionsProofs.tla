-------------------------- MODULE ExecutionsProofs --------------------------
(***************************************************************************)
(* Proofs about Executions, for any executions, workspaces and lanes.       *)
(*                                                                         *)
(* Every command writes the row of one execution, in at most one            *)
(* transaction.  RowStep(e) says what such a step may do: to e's row, to    *)
(* its leases, calls and tree facts, and to the command that holds the      *)
(* lock.  There is one lemma per action that shows it a RowStep; InvNext    *)
(* lifts that to every execution, and the theorems follow from Inv.         *)
(***************************************************************************)
EXTENDS Executions, TLAPS

Places == {"leased", "captured", "baselined", "claimed", "starting", "called",
           "threaded", "marked", "turning", "verify", "verified", "prepare"}
BeforeCall == {"leased", "captured", "baselined", "claimed", "starting"}
InTurn == {"threaded", "marked", "turning", "verify", "verified"}

Positions == [e : Execs, at : Places, base : Trees \union {NoTree},
              meddled : BOOLEAN]
CallCounts == [starts : 0..1, turns : 0..1]

Typed ==
    /\ TypeOK
    /\ calls \in [Execs -> CallCounts]
    /\ env \in [edits : 0..MaxEdits, crashes : 0..MaxCrash]
    /\ ctl = Idle \/ ctl \in Positions

\* A turn of it may have run.
Worked(row) == row.marker \/ row.turn

StatusFacts(row) ==
    /\ Worked(row) => row.status \notin {"none", "planned", "uncertain"}
    /\ row.status \in {"uncertain", "started"} \/ row.host.st # "none"
          => row.cp # "capsule_planned" /\ row.status # "none"

\* What a command that holds the lock has made durable by the time it is at a
\* place: nobody else writes the row meanwhile.
HeldFacts(row, at) ==
    /\ at \in BeforeCall \union {"called", "prepare"} => row.status = "planned"
    /\ at \in {"starting", "called"} => row.cp = "thread_starting"
    /\ at \in InTurn => row.status = "started"
    /\ at = "threaded" => ~Worked(row)
    /\ at \in {"marked", "turning"} => row.marker
    /\ at \in {"verify", "verified"} => row.turn
    /\ row.cp # "capsule_planned"

\* A call that was made left a durable mark before it, which the commands that
\* could make it again look at.
CallFacts(e) ==
    /\ calls[e].starts = 1 =>
          /\ rows[e].status # "none"
          /\ rows[e].cp \notin {"capsule_planned", "workspace_leased",
                                "baseline_durable"}
          /\ ~(ctl # Idle /\ ctl.e = e /\ ctl.at \in BeforeCall)
    /\ calls[e].turns = 1 =>
          /\ Worked(rows[e])
          /\ ~(ctl # Idle /\ ctl.e = e /\ ctl.at \in {"threaded", "marked"})

\* From the turn on, the baseline of an execution in the workspace holds the
\* work of its accepted predecessors as they left it.
BaseFacts(e) ==
    Active(e) /\ Worked(rows[e]) =>
        \A p \in Predecessors(e) : rows[e].base[p] = TerminalTree(p)[p]

LeaseFacts(e) == Active(e) => LeaseOf(e) \in leases

ControlFacts == ctl # Idle => HeldFacts(rows[ctl.e], ctl.at)

Inv ==
    /\ Typed
    /\ WorkspaceExclusive
    /\ ControlFacts
    /\ \A e \in Execs : /\ StatusFacts(rows[e]) /\ CallFacts(e)
                        /\ BaseFacts(e) /\ LeaseFacts(e)

----------------------------------------------------------------------------
(* Steps of one execution *)

\* The step is of e, and of nobody else's row or command.
OnlyRow(e) ==
    /\ rows' = [rows EXCEPT ![e] = rows'[e]]
    /\ rows'[e] \in Rows /\ RowValid(rows'[e]) /\ StatusFacts(rows'[e])
    /\ calls' = [calls EXCEPT ![e] = calls'[e]]
    /\ calls'[e] \in CallCounts
    /\ leases' \in {leases, leases \union {LeaseOf(e)}}
    /\ UNCHANGED <<tree, env>>

\* The command that holds the lock afterwards, if any, is e's.
OnlyCommand(e) ==
    /\ ctl = Idle \/ ctl.e = e
    /\ ctl' = Idle \/ (ctl' \in Positions /\ ctl'.e = e)
    /\ ctl' # Idle => HeldFacts(rows'[e], ctl'.at)
    /\ CallFacts(e)'

\* How e enters its workspace, works in it and leaves it.
RowChange(e) ==
    /\ Active(e)' => Active(e) \/ (LeaseOk(e) /\ LeaseOf(e) \in leases')
    /\ rows[e].status \in Terminal => rows'[e] = rows[e]
    /\ rows'[e].status = "completed" => rows[e].status = "completed" \/ Active(e)
    /\ Worked(rows'[e]) =>
          /\ rows'[e].base = rows[e].base
          /\ Worked(rows[e]) \/ (PredecessorsOk(e) /\ Tree(e) = rows[e].base)
    /\ At(e, "verify") /\ ctl'.at = "verified" => Unspoiled(e, rows[e].base)

RowStep(e) == OnlyRow(e) /\ OnlyCommand(e) /\ RowChange(e)

\* Every leaf may look into the enumerations.
USE DEF Idle, Places, BeforeCall, InTurn, Terminal

(* The values of the enumerated columns the actions write. *)
LEMMA Names ==
    /\ "planned" \in Statuses /\ "uncertain" \in Statuses /\ "started" \in Statuses
    /\ "completed" \in Statuses /\ "failed" \in Statuses /\ "cancelled" \in Statuses
    /\ "capsule_planned" \in Checkpoints /\ "workspace_leased" \in Checkpoints
    /\ "baseline_durable" \in Checkpoints /\ "thread_starting" \in Checkpoints
    /\ "identity_durable" \in Checkpoints /\ "turn_durable" \in Checkpoints
    /\ "result_durable" \in Checkpoints
  BY DEF Statuses, Checkpoints

(* The type of a row with names for its enumerations, which need not be    *)
(* looked into to see that a row has it.                                   *)
Milestones == {"PLANNED", "STARTING", "RUNNING", "COMPLETED", "FAILED", "CANCELLED"}
HostStates == {"none", "prepared", "bound", "completed", "failed", "cancelled"}
HostRows == [st : HostStates, base : Trees \union {NoTree},
             term : Trees \union {NoTree}]

(* An execution's row as the set of its columns' values. *)
LEMMA RowsAre ==
    Rows = [status : Statuses, cp : Checkpoints, ms : Milestones,
            claimed : BOOLEAN, thread : {"none", "sdk", "host"},
            marker : BOOLEAN, turn : BOOLEAN,
            base : Trees \union {NoTree}, term : Trees \union {NoTree},
            host : HostRows]
  BY DEF Rows, Milestones, HostStates, HostRows

(* The milestone and host states the actions write. *)
LEMMA MilestoneNames ==
    /\ "STARTING" \in Milestones /\ "RUNNING" \in Milestones
    /\ "COMPLETED" \in Milestones /\ "FAILED" \in Milestones
    /\ "CANCELLED" \in Milestones
    /\ "none" \in HostStates /\ "prepared" \in HostStates /\ "bound" \in HostStates
    /\ "completed" \in HostStates /\ "failed" \in HostStates
    /\ "cancelled" \in HostStates
  BY DEF Milestones, HostStates

(* A transaction writes the row or, when the validation refuses it,        *)
(* nothing.                                                                *)
LEMMA WritesRow ==
    ASSUME rows \in [Execs -> Rows], NEW e \in Execs, RowValid(rows[e]),
           NEW row \in Rows, Writes(e, row)
    PROVE  /\ rows' = [rows EXCEPT ![e] = rows'[e]]
           /\ rows'[e] \in Rows /\ RowValid(rows'[e])
           /\ rows'[e] \in {row, rows[e]}
           /\ RowValid(row) => rows'[e] = row
  <1>1. CASE RowValid(row)
    BY <1>1 DEF Writes
  <1>2. CASE ~RowValid(row)
    <2>1. rows' = rows /\ rows = [rows EXCEPT ![e] = rows[e]]
      BY <1>2 DEF Writes
    <2> QED
      BY <1>2, <2>1
  <1> QED
    BY <1>1, <1>2

(* The same for a step that writes nothing.                                *)
LEMMA SameRow ==
    ASSUME Typed, NEW e \in Execs
    PROVE  /\ rows[e] \in Rows /\ RowValid(rows[e])
           /\ rows = [rows EXCEPT ![e] = rows[e]]
           /\ calls[e] \in CallCounts
           /\ calls = [calls EXCEPT ![e] = calls[e]]
           /\ Tree(e) \in Trees
  BY ExecutionConstants DEF Typed, TypeOK, Tree

(* A step that writes row and makes no call.                               *)
LEMMA WriteStep ==
    ASSUME Inv, NEW e \in Execs,
           NEW row \in Rows, StatusFacts(row), Writes(e, row),
           leases' \in {leases, leases \union {LeaseOf(e)}},
           UNCHANGED <<tree, calls, env>>
    PROVE  /\ OnlyRow(e)
           /\ rows'[e] \in {row, rows[e]}
           /\ RowValid(row) => rows'[e] = row
  <1>1. rows \in [Execs -> Rows] /\ StatusFacts(rows[e])
    BY DEF Inv, Typed, TypeOK
  <1> QED
    BY <1>1, SameRow, WritesRow DEF OnlyRow, Inv

(* A step that only moves a command.                                       *)
LEMMA MoveStep ==
    ASSUME Inv, NEW e \in Execs, UNCHANGED <<rows, leases, tree, calls, env>>
    PROVE  /\ OnlyRow(e)
           /\ RowChange(e) <=> (At(e, "verify") /\ ctl'.at = "verified"
                                   => Unspoiled(e, rows[e].base))
  <1>1. StatusFacts(rows[e])
    BY DEF Inv
  <1>2. OnlyRow(e)
    BY <1>1, SameRow DEF OnlyRow, Inv
  <1>3. Active(e)' <=> Active(e)
    BY DEF Active
  <1> QED
    BY <1>2, <1>3 DEF RowChange

(* What the command that holds the lock knows of its row.                  *)
LEMMA HeldRow ==
    ASSUME Inv, NEW e \in Execs, NEW at \in Places, At(e, at)
    PROVE  /\ ctl \in Positions /\ ctl # Idle
           /\ HeldFacts(rows[e], at) /\ Active(e)
  <1>1. ctl # Idle
    BY DEF At
  <1>2. HeldFacts(rows[e], at)
    BY <1>1 DEF Inv, ControlFacts, At
  <1> QED
    BY <1>1, <1>2 DEF Inv, Typed, HeldFacts, Active

(* What the invariant says of one execution. *)
LEMMA RowInv ==
    ASSUME Inv, NEW e \in Execs
    PROVE  /\ rows[e] \in Rows /\ RowValid(rows[e])
           /\ StatusFacts(rows[e]) /\ CallFacts(e)
           /\ calls[e] \in CallCounts
  BY SameRow DEF Inv

----------------------------------------------------------------------------
(* One lemma per action *)

(* _create_and_run writes the planned row before it asks for anything. *)
LEMMA PlanStep ==
    ASSUME Inv, NEW e \in Execs, Plan(e)
    PROVE  RowStep(e)
  <1> DEFINE row == Planned(rows[e])
  <1>1. row \in Rows /\ StatusFacts(row)
    <2>1. row \in Rows
      BY ZenonT(30), RowInv, Names DEF Rows, Planned
    <2>2. rows[e].host.st = "none" /\ ~Worked(rows[e])
      BY RowInv DEF Plan, StatusFacts
    <2> QED
      BY <2>1, <2>2, RowInv DEF StatusFacts, Worked, Planned, Rows
  <1>2. OnlyRow(e) /\ rows'[e] \in {row, rows[e]}
    BY <1>1, WriteStep DEF Plan
  <1>3. OnlyCommand(e)
    BY <1>2, RowInv DEF OnlyCommand, Plan, Free, CallFacts, StatusFacts,
       Worked, Planned, Rows
  <1>4. RowChange(e)
    BY <1>2, RowInv DEF RowChange, Plan, Free, Active, Planned, Rows, Worked,
       StatusFacts, At
  <1> QED
    BY <1>2, <1>3, <1>4 DEF RowStep

(* A start that was interrupted at its external boundary becomes uncertain. *)
LEMMA StartInterruptedStep ==
    ASSUME Inv, NEW e \in Execs, StartInterrupted(e)
    PROVE  RowStep(e)
  <1> DEFINE row == [rows[e] EXCEPT !.status = "uncertain"]
  <1>1. row \in Rows /\ StatusFacts(row)
    BY RowInv, Names DEF StartInterrupted, Rows, StatusFacts, Worked
  <1>2. OnlyRow(e) /\ rows'[e] \in {row, rows[e]}
    BY <1>1, WriteStep DEF StartInterrupted
  <1>3. OnlyCommand(e)
    BY <1>2, RowInv DEF OnlyCommand, StartInterrupted, Free, CallFacts, Worked, Rows
  <1>4. RowChange(e)
    BY <1>2, RowInv DEF RowChange, StartInterrupted, Free, Active, Rows, Worked,
       StatusFacts, At
  <1> QED
    BY <1>2, <1>3, <1>4 DEF RowStep

(* The lease is what lets an execution into its workspace.                 *)
LEMMA StartLeaseStep ==
    ASSUME Inv, NEW e \in Execs, StartLease(e)
    PROVE  RowStep(e)
  <1> DEFINE row == Leased(rows[e])
  <1>1. row \in Rows /\ StatusFacts(row)
    BY RowInv, Names DEF StartLease, Rows, StatusFacts, Worked, Leased
  <1>2. OnlyRow(e) /\ rows'[e] \in {row, rows[e]}
    BY <1>1, WriteStep DEF StartLease
  <1>3. RowValid(row) /\ rows'[e] = row
    BY <1>1, RowInv, WriteStep DEF StartLease, RowValid, ThreadIsHosts, Paired,
       TurnCausal, IntegrityKept, Leased, Rows
  <1>4. OnlyCommand(e)
    <2>1. ctl' \in Positions /\ ctl'.e = e /\ ctl'.at = "leased"
      BY DEF StartLease, Positions
    <2>2. HeldFacts(row, "leased")
      BY RowInv DEF HeldFacts, Leased, StartLease, Rows
    <2>3. CallFacts(e)'
      BY <1>3, RowInv DEF CallFacts, StartLease, Leased, Worked, Rows, CallCounts
    <2> QED
      BY <1>3, <2>1, <2>2, <2>3 DEF OnlyCommand, StartLease, Free
  <1>5. RowChange(e)
    BY <1>3, RowInv DEF RowChange, StartLease, Free, Leased, Rows, Worked,
       StatusFacts, At
  <1> QED
    BY <1>2, <1>4, <1>5 DEF RowStep

(* A start with a durable baseline only takes the lock.                    *)
LEMMA StartBaselinedStep ==
    ASSUME Inv, NEW e \in Execs, StartBaselined(e)
    PROVE  RowStep(e)
  <1>1. ctl' \in Positions /\ ctl'.e = e /\ ctl'.at = "captured"
    BY RowInv DEF StartBaselined, Positions, Rows
  <1>2. HeldFacts(rows[e], "captured")
    BY RowInv DEF HeldFacts, StartBaselined
  <1>3. CallFacts(e)'
    BY RowInv DEF CallFacts, StartBaselined
  <1>4. OnlyCommand(e)
    BY <1>1, <1>2, <1>3 DEF OnlyCommand, StartBaselined, Free
  <1> QED
    BY <1>1, <1>4, MoveStep DEF RowStep, StartBaselined

(* The protected checkout is measured under the lease, before the start is claimed. *)
LEMMA CaptureStep ==
    ASSUME Inv, NEW e \in Execs, Capture(e)
    PROVE  RowStep(e)
  <1>1. HeldFacts(rows[e], "leased") /\ ctl \in Positions /\ ctl.e = e
    BY HeldRow DEF Capture, At
  <1>2. ctl' = Idle \/ (ctl' \in Positions /\ ctl'.e = e /\ ctl'.at = "captured")
    BY <1>1, SameRow DEF Capture, Positions, Inv
  <1>3. CallFacts(e)'
    BY <1>1, <1>2, RowInv DEF CallFacts, Capture, At, Positions
  <1>4. OnlyCommand(e)
    BY <1>1, <1>2, <1>3 DEF OnlyCommand, Capture, HeldFacts
  <1> QED
    BY <1>2, <1>4, MoveStep DEF RowStep, Capture, At

(* The baseline becomes durable; nothing worked on it yet.                 *)
LEMMA RecordProfileStep ==
    ASSUME Inv, NEW e \in Execs, RecordProfile(e)
    PROVE  RowStep(e)
  <1> DEFINE row == [rows[e] EXCEPT !.base = ctl.base, !.cp = "baseline_durable"]
  <1>1. /\ HeldFacts(rows[e], "captured") /\ Active(e)
        /\ ctl \in Positions /\ ctl # Idle /\ ctl.e = e
    BY HeldRow DEF RecordProfile, At
  <1>2. CASE rows' = rows /\ ctl' = Idle
    <2>1. OnlyCommand(e)
      BY <1>1, <1>2, RowInv DEF OnlyCommand, CallFacts, RecordProfile
    <2> QED
      BY <1>2, <2>1, MoveStep DEF RowStep, RecordProfile
  <1>3. CASE Writes(e, row) /\ Goes("baselined")
    <2>1. row \in Rows /\ StatusFacts(row)
      <3>1. ctl.base \in Trees \union {NoTree}
        BY <1>1 DEF Positions
      <3>2. row \in Rows
        BY ZenonT(30), <3>1, RowInv, Names DEF Rows
      <3> QED
        BY <1>1, <3>2, RowInv DEF StatusFacts, Worked, HeldFacts, Rows
    <2>2. RowValid(row)
      BY <1>1, <2>1, RowInv DEF RowValid, ThreadIsHosts, Paired, TurnCausal,
         IntegrityKept, HeldFacts, StatusFacts, Worked, Rows
    <2>3. OnlyRow(e) /\ rows'[e] = row
      BY <1>3, <2>1, <2>2, WriteStep DEF RecordProfile
    <2>4. ctl' \in Positions /\ ctl'.e = e /\ ctl'.at = "baselined"
      BY <1>1, <1>3 DEF Goes, Positions
    <2>5. HeldFacts(row, "baselined")
      BY <1>1, RowInv DEF HeldFacts, Rows
    <2>6. CallFacts(e)'
      BY <1>1, <2>3, <2>4, RowInv DEF CallFacts, RecordProfile, At, Worked, Rows
    <2>7. OnlyCommand(e)
      BY <1>1, <2>3, <2>4, <2>5, <2>6 DEF OnlyCommand
    <2>8. RowChange(e)
      BY <1>1, <2>3, <2>4, RowInv DEF RowChange, Rows, Worked, StatusFacts,
         HeldFacts, At
    <2> QED
      BY <2>3, <2>7, <2>8 DEF RowStep
  <1> QED
    BY <1>2, <1>3 DEF RecordProfile, Returns

(* claim_start takes a planned row for this process, or the process returns. *)
LEMMA ClaimStep ==
    ASSUME Inv, NEW e \in Execs, Claim(e)
    PROVE  RowStep(e)
  <1> DEFINE row == [rows[e] EXCEPT !.claimed = TRUE, !.ms = "STARTING"]
  <1>1. /\ HeldFacts(rows[e], "baselined") /\ Active(e)
        /\ ctl \in Positions /\ ctl # Idle /\ ctl.e = e
    BY HeldRow DEF Claim, At
  <1>2. CASE rows' = rows /\ ctl' = Idle
    <2>1. OnlyCommand(e)
      BY <1>1, <1>2, RowInv DEF OnlyCommand, CallFacts, Claim
    <2> QED
      BY <1>2, <2>1, MoveStep DEF RowStep, Claim
  <1>3. CASE Writes(e, row) /\ Goes("claimed")
    <2>1. row \in Rows /\ StatusFacts(row)
      BY ZenonT(30), RowInv, Names DEF Rows, StatusFacts, Worked
    <2>2. RowValid(row)
      BY <1>1, <2>1, RowInv DEF RowValid, ThreadIsHosts, Paired, TurnCausal,
         IntegrityKept, HeldFacts, Rows
    <2>3. OnlyRow(e) /\ rows'[e] = row
      BY <1>3, <2>1, <2>2, WriteStep DEF Claim
    <2>4. ctl' \in Positions /\ ctl'.e = e /\ ctl'.at = "claimed"
      BY <1>1, <1>3 DEF Goes, Positions
    <2>5. HeldFacts(row, "claimed")
      BY <1>1, RowInv DEF HeldFacts, Rows
    <2>6. CallFacts(e)'
      BY <1>1, <2>3, <2>4, RowInv DEF CallFacts, Claim, At, Worked, Rows
    <2>7. OnlyCommand(e)
      BY <1>1, <2>3, <2>4, <2>5, <2>6 DEF OnlyCommand
    <2>8. RowChange(e)
      BY <1>1, <2>3, <2>4, RowInv DEF RowChange, Rows, Worked, StatusFacts,
         HeldFacts, At
    <2> QED
      BY <2>3, <2>7, <2>8 DEF RowStep
  <1> QED
    BY <1>2, <1>3 DEF Claim, Returns

(* The marker is durable before the thread is asked for. *)
LEMMA ThreadStartingStep ==
    ASSUME Inv, NEW e \in Execs, ThreadStarting(e)
    PROVE  RowStep(e)
  <1> DEFINE row == [rows[e] EXCEPT !.cp = "thread_starting"]
  <1>1. /\ HeldFacts(rows[e], "claimed") /\ Active(e)
        /\ ctl \in Positions /\ ctl # Idle /\ ctl.e = e
    BY HeldRow DEF ThreadStarting, At
  <1>2. row \in Rows /\ StatusFacts(row)
    BY RowInv, Names DEF Rows, StatusFacts, Worked
  <1>3. RowValid(row)
    BY RowInv DEF RowValid, ThreadIsHosts, Paired, TurnCausal, IntegrityKept, Rows
  <1>4. OnlyRow(e) /\ rows'[e] = row
    BY <1>2, <1>3, WriteStep DEF ThreadStarting
  <1>5. ctl' \in Positions /\ ctl'.e = e /\ ctl'.at = "starting"
    BY <1>1 DEF ThreadStarting, Goes, Positions
  <1>6. HeldFacts(row, "starting")
    BY <1>1, RowInv DEF HeldFacts, Rows
  <1>7. CallFacts(e)'
    BY <1>1, <1>4, <1>5, RowInv DEF CallFacts, ThreadStarting, At, Worked, Rows
  <1>8. OnlyCommand(e)
    BY <1>1, <1>4, <1>5, <1>6, <1>7 DEF OnlyCommand
  <1>9. RowChange(e)
    BY <1>1, <1>4, <1>5, RowInv DEF RowChange, Rows, Worked, At, HeldFacts
  <1> QED
    BY <1>4, <1>8, <1>9 DEF RowStep

(* The call is made, or refused while it is known not to have been made.   *)
LEMMA RejectStartStep ==
    ASSUME Inv, NEW e \in Execs, RejectStart(e)
    PROVE  RowStep(e)
  <1> DEFINE row == [rows[e] EXCEPT !.cp = "baseline_durable"]
  <1>1. /\ HeldFacts(rows[e], "starting") /\ Active(e)
        /\ ctl \in Positions /\ ctl # Idle /\ ctl.e = e
    BY HeldRow DEF RejectStart, At
  <1>2. row \in Rows /\ StatusFacts(row)
    BY RowInv, Names DEF Rows, StatusFacts, Worked
  <1>3. OnlyRow(e) /\ rows'[e] \in {row, rows[e]}
    BY <1>2, WriteStep DEF RejectStart
  <1>4. calls[e].starts # 1 /\ calls[e].turns # 1
    BY <1>1, RowInv DEF CallFacts, RejectStart, At, HeldFacts, StatusFacts
  <1>5. OnlyCommand(e)
    BY <1>1, <1>4 DEF OnlyCommand, CallFacts, RejectStart, Returns
  <1>6. RowChange(e)
    BY <1>1, <1>3, RowInv DEF RowChange, RejectStart, Returns, Rows, Worked, At,
       HeldFacts
  <1> QED
    BY <1>3, <1>5, <1>6 DEF RowStep

(* A thread is asked for only behind a marker no earlier request used up. *)
LEMMA CallStartStep ==
    ASSUME Inv, NEW e \in Execs, CallStart(e)
    PROVE  RowStep(e)
  <1>1. /\ HeldFacts(rows[e], "starting") /\ Active(e)
        /\ ctl \in Positions /\ ctl # Idle /\ ctl.e = e
    BY HeldRow DEF CallStart, At
  <1>2. calls[e].starts = 0 /\ calls[e].turns = 0
    BY <1>1, RowInv DEF CallFacts, CallStart, At, HeldFacts, StatusFacts,
       CallCounts
  <1>3. calls'[e] = [calls[e] EXCEPT !.starts = 1]
    BY <1>2 DEF CallStart, Inv, Typed
  <1>4. /\ calls' = [calls EXCEPT ![e] = calls'[e]] /\ calls'[e] \in CallCounts
        /\ calls'[e].turns = 0
    BY <1>2, <1>3, RowInv DEF CallStart, Inv, Typed, CallCounts
  <1>5. OnlyRow(e)
    BY <1>4, RowInv, SameRow DEF OnlyRow, CallStart, Inv
  <1>6. ctl' \in Positions /\ ctl'.e = e /\ ctl'.at = "called"
    BY <1>1 DEF CallStart, Goes, Positions
  <1>7. HeldFacts(rows[e], "called")
    BY <1>1 DEF HeldFacts
  <1>8. CallFacts(e)'
    BY <1>1, <1>4, <1>6 DEF CallFacts, CallStart, HeldFacts
  <1>9. OnlyCommand(e)
    BY <1>1, <1>6, <1>7, <1>8 DEF OnlyCommand, CallStart
  <1>10. RowChange(e)
    BY <1>1, <1>6 DEF RowChange, CallStart, Active
  <1> QED
    BY <1>5, <1>9, <1>10 DEF RowStep

(* start_thread raised: nobody knows whether a thread exists.              *)
LEMMA StartFailsStep ==
    ASSUME Inv, NEW e \in Execs, StartFails(e)
    PROVE  RowStep(e)
  <1> DEFINE row == [rows[e] EXCEPT !.status = "uncertain"]
  <1>1. /\ HeldFacts(rows[e], "called") /\ Active(e)
        /\ ctl \in Positions /\ ctl # Idle /\ ctl.e = e
    BY HeldRow DEF StartFails, At
  <1>2. row \in Rows /\ StatusFacts(row)
    BY <1>1, RowInv, Names DEF Rows, StatusFacts, Worked, HeldFacts
  <1>3. OnlyRow(e) /\ rows'[e] \in {row, rows[e]}
    BY <1>2, WriteStep DEF StartFails
  <1>4. OnlyCommand(e)
    BY <1>1, <1>3, RowInv DEF OnlyCommand, CallFacts, StartFails, Returns, Rows,
       Worked
  <1>5. RowChange(e)
    BY <1>1, <1>3, RowInv DEF RowChange, StartFails, Returns, Rows, Worked, At,
       HeldFacts
  <1> QED
    BY <1>3, <1>4, <1>5 DEF RowStep

(* The identity of the thread, which the validation refuses when the host   *)
(* works on the execution.                                                 *)
LEMMA RecordIdentityStep ==
    ASSUME Inv, NEW e \in Execs, RecordIdentity(e)
    PROVE  RowStep(e)
  <1> DEFINE row == [rows[e] EXCEPT !.status = "started", !.cp = "identity_durable",
                                    !.thread = "sdk", !.ms = "RUNNING"]
  <1>1. /\ HeldFacts(rows[e], "called") /\ Active(e)
        /\ ctl \in Positions /\ ctl # Idle /\ ctl.e = e
    BY HeldRow DEF RecordIdentity, At
  <1>2. row \in Rows /\ StatusFacts(row)
    <2>1. row \in Rows
      BY ZenonT(30), RowInv, Names DEF Rows
    <2> QED
      BY <1>1, <2>1, RowInv DEF Rows, StatusFacts, Worked, HeldFacts
  <1>3. /\ OnlyRow(e) /\ rows'[e] \in {row, rows[e]}
        /\ RowValid(row) => rows'[e] = row
    BY <1>2, WriteStep DEF RecordIdentity
  <1>4. ctl' = Idle \/ (rows'[e] = row /\ ctl' \in Positions /\ ctl'.e = e
                         /\ ctl'.at = "threaded")
    BY <1>1, <1>3 DEF RecordIdentity, Goes, Returns, Positions
  <1>5. HeldFacts(row, "threaded")
    BY <1>1, RowInv DEF HeldFacts, Rows, StatusFacts, Worked
  <1>6. calls[e].turns # 1
    BY <1>1, RowInv DEF CallFacts, HeldFacts, StatusFacts
  <1>7. CallFacts(e)'
    <2>1. rows'[e].status # "none"
             /\ rows'[e].cp \in {"thread_starting", "identity_durable"}
      BY <1>1, <1>3, RowInv DEF HeldFacts, Rows
    <2> QED
      BY <1>4, <1>6, <2>1 DEF CallFacts, RecordIdentity
  <1>8. OnlyCommand(e)
    BY <1>1, <1>4, <1>5, <1>7 DEF OnlyCommand
  <1>9. RowChange(e)
    <2>1. ~Worked(rows[e]) /\ ~Worked(row) /\ rows[e].status = "planned"
      BY <1>1, RowInv DEF Worked, HeldFacts, StatusFacts, Rows
    <2>2. row.status = "started"
      BY RowInv DEF Rows
    <2> QED
      BY <1>1, <1>3, <1>4, <2>1, <2>2 DEF RowChange, At
  <1> QED
    BY <1>3, <1>8, <1>9 DEF RowStep

(* A resume of a row that has a thread and no turn goes on without asking for a thread. *)
LEMMA ResumeThreadStep ==
    ASSUME Inv, NEW e \in Execs, ResumeThread(e)
    PROVE  RowStep(e)
  <1>1. ctl' \in Positions /\ ctl'.e = e /\ ctl'.at = "threaded"
    BY RowInv DEF ResumeThread, Positions, Rows
  <1>2. HeldFacts(rows[e], "threaded")
    BY RowInv DEF HeldFacts, ResumeThread, StatusFacts, Worked
  <1>3. CallFacts(e)'
    BY <1>1, RowInv DEF CallFacts, ResumeThread, Worked
  <1>4. OnlyCommand(e)
    BY <1>1, <1>2, <1>3 DEF OnlyCommand, ResumeThread, Free
  <1> QED
    BY <1>1, <1>4, MoveStep DEF RowStep, ResumeThread

(* A resume of a finished turn only verifies its result. *)
LEMMA ResumeVerifyStep ==
    ASSUME Inv, NEW e \in Execs, ResumeVerify(e)
    PROVE  RowStep(e)
  <1>1. ctl' \in Positions /\ ctl'.e = e /\ ctl'.at = "verify"
    BY RowInv DEF ResumeVerify, Positions, Rows
  <1>2. HeldFacts(rows[e], "verify")
    BY RowInv DEF HeldFacts, ResumeVerify, StatusFacts
  <1>3. CallFacts(e)'
    BY <1>1, RowInv DEF CallFacts, ResumeVerify
  <1>4. OnlyCommand(e)
    BY <1>1, <1>2, <1>3 DEF OnlyCommand, ResumeVerify, Free
  <1> QED
    BY <1>1, <1>4, MoveStep DEF RowStep, ResumeVerify

(* From here on the baseline is known to hold the predecessors' work.      *)
LEMMA TurnStartingStep ==
    ASSUME Inv, NEW e \in Execs, TurnStarting(e)
    PROVE  RowStep(e)
  <1> DEFINE row == [rows[e] EXCEPT !.marker = TRUE]
  <1>1. /\ HeldFacts(rows[e], "threaded") /\ Active(e)
        /\ ctl \in Positions /\ ctl # Idle /\ ctl.e = e
    BY HeldRow DEF TurnStarting, At
  <1>2. calls[e].turns # 1
    BY <1>1, RowInv DEF CallFacts, TurnStarting, At
  <1>3. CASE rows' = rows /\ ctl' = Idle
    <2>1. OnlyCommand(e)
      BY <1>1, <1>3, RowInv DEF OnlyCommand, CallFacts, TurnStarting
    <2> QED
      BY <1>3, <2>1, MoveStep DEF RowStep, TurnStarting
  <1>4. CASE Authorized(e) /\ Writes(e, row) /\ Goes("marked")
    <2>1. row \in Rows /\ StatusFacts(row)
      <3>1. row \in Rows
        BY ZenonT(30), RowInv DEF Rows
      <3> QED
        BY <1>1, <3>1, RowInv DEF StatusFacts, Worked, HeldFacts, Rows
    <2>2. RowValid(row)
      BY <1>1, <1>4, RowInv DEF RowValid, ThreadIsHosts, Paired, TurnCausal,
         IntegrityKept, HeldFacts, Worked, Authorized, Rows
    <2>3. OnlyRow(e) /\ rows'[e] = row
      BY <1>4, <2>1, <2>2, WriteStep DEF TurnStarting
    <2>4. ctl' \in Positions /\ ctl'.e = e /\ ctl'.at = "marked"
      BY <1>1, <1>4 DEF Goes, Positions
    <2>5. HeldFacts(row, "marked")
      BY <1>1, RowInv DEF HeldFacts, Rows
    <2>6. CallFacts(e)'
      BY <1>1, <1>2, <2>3, <2>4, RowInv DEF CallFacts, TurnStarting, Rows
    <2>7. OnlyCommand(e)
      BY <1>1, <2>3, <2>4, <2>5, <2>6 DEF OnlyCommand
    <2>8. RowChange(e)
      BY <1>1, <1>4, <2>3, <2>4, RowInv DEF RowChange, Rows, HeldFacts, At,
         Authorized
    <2> QED
      BY <2>3, <2>7, <2>8 DEF RowStep
  <1> QED
    BY <1>3, <1>4 DEF TurnStarting, Returns

(* A turn that is no longer authorised gives its marker back unused. *)
LEMMA RejectTurnStep ==
    ASSUME Inv, NEW e \in Execs, RejectTurn(e)
    PROVE  RowStep(e)
  <1> DEFINE row == [rows[e] EXCEPT !.marker = FALSE]
  <1>1. /\ HeldFacts(rows[e], "marked") /\ Active(e)
        /\ ctl \in Positions /\ ctl # Idle /\ ctl.e = e
    BY HeldRow DEF RejectTurn, At
  <1>2. calls[e].turns # 1
    BY <1>1, RowInv DEF CallFacts, RejectTurn, At
  <1>3. row \in Rows /\ StatusFacts(row)
    BY ZenonT(30), RowInv DEF Rows, StatusFacts, Worked
  <1>4. OnlyRow(e) /\ rows'[e] \in {row, rows[e]}
    BY <1>3, WriteStep DEF RejectTurn
  <1>5. OnlyCommand(e)
    BY <1>1, <1>2, <1>4, RowInv DEF OnlyCommand, CallFacts, RejectTurn, Returns,
       Rows
  <1>6. RowChange(e)
    BY <1>1, <1>4, RowInv DEF RowChange, RejectTurn, Returns, Rows, Worked, At,
       HeldFacts
  <1> QED
    BY <1>4, <1>5, <1>6 DEF RowStep

(* A turn is asked for once, behind its durable marker. *)
LEMMA CallTurnStep ==
    ASSUME Inv, NEW e \in Execs, CallTurn(e)
    PROVE  RowStep(e)
  <1>1. /\ HeldFacts(rows[e], "marked") /\ Active(e)
        /\ ctl \in Positions /\ ctl # Idle /\ ctl.e = e
    BY HeldRow DEF CallTurn, At
  <1>2. calls[e].turns = 0
    BY <1>1, RowInv DEF CallFacts, CallTurn, At, CallCounts
  <1>3. calls'[e] = [calls[e] EXCEPT !.turns = 1]
    BY <1>2 DEF CallTurn, Inv, Typed
  <1>4. /\ calls' = [calls EXCEPT ![e] = calls'[e]] /\ calls'[e] \in CallCounts
        /\ calls'[e].starts = calls[e].starts
    BY <1>2, <1>3, RowInv DEF CallTurn, Inv, Typed, CallCounts
  <1>5. OnlyRow(e)
    BY <1>4, RowInv, SameRow DEF OnlyRow, CallTurn, Inv
  <1>6. ctl' \in Positions /\ ctl'.e = e /\ ctl'.at = "turning"
    BY <1>1 DEF CallTurn, Goes, Positions
  <1>7. HeldFacts(rows[e], "turning")
    BY <1>1 DEF HeldFacts
  <1>8. CallFacts(e)'
    BY <1>1, <1>4, <1>6, RowInv DEF CallFacts, CallTurn, HeldFacts, Worked
  <1>9. OnlyCommand(e)
    BY <1>1, <1>6, <1>7, <1>8 DEF OnlyCommand, CallTurn
  <1>10. RowChange(e)
    BY <1>1, <1>6 DEF RowChange, CallTurn, Active
  <1> QED
    BY <1>5, <1>9, <1>10 DEF RowStep

(* A failed turn leaves the row, with its marker, as it was: it is not repeated. *)
LEMMA TurnFailsStep ==
    ASSUME Inv, NEW e \in Execs, TurnFails(e)
    PROVE  RowStep(e)
  <1>1. ctl # Idle /\ ctl.e = e
    BY HeldRow DEF TurnFails, At
  <1>2. OnlyCommand(e)
    BY <1>1, RowInv DEF OnlyCommand, CallFacts, TurnFails, Returns
  <1> QED
    BY <1>2, MoveStep DEF RowStep, TurnFails, Returns

(* The marker is exchanged for the turn in one transaction.                *)
LEMMA TurnReturnsStep ==
    ASSUME Inv, NEW e \in Execs, TurnReturns(e)
    PROVE  RowStep(e)
  <1> DEFINE row == [rows[e] EXCEPT !.marker = FALSE, !.turn = TRUE,
                                    !.cp = "turn_durable"]
  <1>1. /\ HeldFacts(rows[e], "turning") /\ Active(e)
        /\ ctl \in Positions /\ ctl # Idle /\ ctl.e = e
    BY HeldRow DEF TurnReturns, At
  <1>2. row \in Rows /\ StatusFacts(row)
    <2>1. row \in Rows
      BY ZenonT(30), RowInv, Names DEF Rows
    <2> QED
      BY <1>1, <2>1, RowInv DEF StatusFacts, Worked, HeldFacts, Rows
  <1>3. RowValid(row)
    BY <1>1, RowInv DEF RowValid, ThreadIsHosts, Paired, TurnCausal,
       IntegrityKept, HeldFacts, Rows
  <1>4. OnlyRow(e) /\ rows'[e] = row
    BY <1>2, <1>3, WriteStep DEF TurnReturns
  <1>5. ctl' \in Positions /\ ctl'.e = e /\ ctl'.at = "verify"
    BY <1>1 DEF TurnReturns, Positions
  <1>6. HeldFacts(row, "verify")
    BY <1>1, RowInv DEF HeldFacts, Rows
  <1>7. CallFacts(e)'
    BY <1>1, <1>4, <1>5, RowInv DEF CallFacts, TurnReturns, HeldFacts, Worked, Rows
  <1>8. OnlyCommand(e)
    BY <1>1, <1>4, <1>5, <1>6, <1>7 DEF OnlyCommand
  <1>9. RowChange(e)
    BY <1>1, <1>4, <1>5, RowInv DEF RowChange, Rows, Worked, HeldFacts, At
  <1> QED
    BY <1>4, <1>8, <1>9 DEF RowStep

(* A command that ends an execution of the workspace and returns.          *)
LEMMA EndStep ==
    ASSUME Inv, NEW e \in Execs, NEW row \in Rows, Writes(e, row),
           rows[e].status \notin Terminal \union {"none"},
           row.status \in Terminal, row.status = "completed" => Active(e),
           row.cp = "result_durable", row.base = rows[e].base,
           row.marker = rows[e].marker, row.turn = rows[e].turn,
           ctl = Idle \/ ctl.e = e, ctl' = Idle,
           UNCHANGED <<leases, tree, calls, env>>
    PROVE  RowStep(e)
  <1>1. StatusFacts(row) /\ (Worked(row) <=> Worked(rows[e]))
    BY DEF StatusFacts, Worked
  <1>2. OnlyRow(e) /\ rows'[e] \in {row, rows[e]}
    BY <1>1, WriteStep
  <1>3. OnlyCommand(e)
    BY <1>1, <1>2, RowInv DEF OnlyCommand, CallFacts
  <1>4. RowChange(e)
    BY <1>1, <1>2 DEF RowChange, Active
  <1> QED
    BY <1>2, <1>3, <1>4 DEF RowStep

(* record_terminal_execution                                               *)
LEMMA RecordStep ==
    ASSUME Inv, NEW e \in Execs, NEW status \in {"completed", "failed"},
           NEW tr \in Trees \union {NoTree}, Record(e, status, tr),
           Active(e), rows[e].status = "started",
           ctl.e = e, Returns, UNCHANGED <<leases, tree, calls, env>>
    PROVE  RowStep(e)
  <1> DEFINE row == [rows[e] EXCEPT
                       !.status = status, !.cp = "result_durable",
                       !.ms = IF status = "completed" THEN "COMPLETED" ELSE "FAILED",
                       !.term = tr]
  <1>1. row \in Rows
    <2>1. status \in Statuses /\ "result_durable" \in Checkpoints
      BY Names
    <2> QED
      BY ZenonT(30), <2>1, RowInv, RowsAre, MilestoneNames
  <1>2. /\ row.status = status /\ row.cp = "result_durable"
        /\ row.base = rows[e].base /\ row.marker = rows[e].marker
        /\ row.turn = rows[e].turn
    BY RowInv DEF Rows
  <1> QED
    BY <1>1, <1>2, EndStep DEF Record, Returns

(* A turn that failed, or whose checkout was meddled with, is recorded as failed. *)
LEMMA VerifyStep ==
    ASSUME Inv, NEW e \in Execs, Verify(e)
    PROVE  RowStep(e)
  <1>1. /\ HeldFacts(rows[e], "verify") /\ Active(e)
        /\ ctl \in Positions /\ ctl # Idle /\ ctl.e = e
    BY HeldRow DEF Verify, At
  <1>2. CASE Record(e, "failed", NoTree) /\ Returns
    BY <1>1, <1>2, RecordStep DEF Verify, HeldFacts
  <1>3. CASE Unspoiled(e, rows[e].base) /\ Goes("verified") /\ UNCHANGED rows
    <2>1. ctl' \in Positions /\ ctl'.e = e /\ ctl'.at = "verified"
      BY <1>1, <1>3 DEF Goes, Positions
    <2>2. HeldFacts(rows[e], "verified")
      BY <1>1 DEF HeldFacts
    <2>3. CallFacts(e)'
      BY <1>1, <1>3, <2>1, RowInv DEF CallFacts, Verify
    <2>4. OnlyCommand(e)
      BY <1>1, <1>3, <2>1, <2>2, <2>3 DEF OnlyCommand
    <2> QED
      BY <1>3, <2>4, MoveStep DEF RowStep, Verify
  <1> QED
    BY <1>2, <1>3 DEF Verify

(* The outcome is recorded with the tree it was verified on. *)
LEMMA FinishStep ==
    ASSUME Inv, NEW e \in Execs, Finish(e)
    PROVE  RowStep(e)
  <1>1. HeldFacts(rows[e], "verified") /\ Active(e) /\ ctl.e = e
    BY HeldRow DEF Finish, At
  <1>2. Record(e, "completed", Tree(e)) \/ Record(e, "failed", NoTree)
    BY DEF Finish
  <1>3. Tree(e) \in Trees
    BY SameRow DEF Inv
  <1> QED
    BY <1>1, <1>2, <1>3, RecordStep DEF Finish, HeldFacts

(* A cancelled execution keeps its calls, its trees and its lease. *)
LEMMA CancelStep ==
    ASSUME Inv, NEW e \in Execs, Cancel(e)
    PROVE  RowStep(e)
  <1> DEFINE row == [rows[e] EXCEPT !.status = "cancelled", !.cp = "result_durable",
                                    !.ms = "CANCELLED",
                                    !.host.st = IF @ = "none" THEN @ ELSE "cancelled"]
  <1>1. row \in Rows
    BY ZenonT(30), RowInv, RowsAre, Names, MilestoneNames DEF HostRows
  <1>2. /\ row.status = "cancelled" /\ row.cp = "result_durable"
        /\ row.base = rows[e].base /\ row.marker = rows[e].marker
        /\ row.turn = rows[e].turn
    BY RowInv DEF Rows
  <1> QED
    BY <1>1, <1>2, EndStep DEF Cancel, Free

----------------------------------------------------------------------------
(* Executions the hosting app works on *)

(* Host-owned work takes the same lease as the controller's own. *)
LEMMA PrepareLeaseStep ==
    ASSUME Inv, NEW e \in Execs, PrepareLease(e)
    PROVE  RowStep(e)
  <1> DEFINE row == Leased(rows[e])
  <1>1. row \in Rows /\ StatusFacts(row)
    BY RowInv, Names DEF PrepareLease, Rows, StatusFacts, Worked, Leased
  <1>2. OnlyRow(e) /\ rows'[e] \in {row, rows[e]}
    BY <1>1, WriteStep DEF PrepareLease
  <1>3. RowValid(row) /\ rows'[e] = row
    BY <1>1, RowInv, WriteStep DEF PrepareLease, RowValid, ThreadIsHosts, Paired,
       TurnCausal, IntegrityKept, Leased, Rows
  <1>4. OnlyCommand(e)
    <2>1. ctl' \in Positions /\ ctl'.e = e /\ ctl'.at = "prepare"
      BY DEF PrepareLease, Positions
    <2>2. HeldFacts(row, "prepare")
      BY RowInv DEF HeldFacts, Leased, PrepareLease, Rows
    <2>3. CallFacts(e)'
      BY <1>3, <2>1, RowInv DEF CallFacts, PrepareLease, Leased, Worked, Rows,
         CallCounts
    <2> QED
      BY <1>3, <2>1, <2>2, <2>3 DEF OnlyCommand, PrepareLease, Free
  <1>5. RowChange(e)
    BY <1>3, RowInv DEF RowChange, PrepareLease, Free, Leased, Rows, Worked,
       StatusFacts, At
  <1> QED
    BY <1>2, <1>4, <1>5 DEF RowStep

(* The host's task, with the tree it starts from.                          *)
LEMMA PrepareHostStep ==
    ASSUME Inv, NEW e \in Execs, PrepareHost(e)
    PROVE  RowStep(e)
  <1> DEFINE row == [rows[e] EXCEPT
                       !.claimed = TRUE, !.ms = "STARTING", !.cp = "baseline_durable",
                       !.host = [st |-> "prepared", base |-> Tree(e), term |-> NoTree]]
  <1>1. HeldFacts(rows[e], "prepare") /\ Active(e) /\ ctl.e = e
    BY HeldRow DEF PrepareHost, At
  <1>2. CASE rows' = rows
    <2>1. OnlyCommand(e)
      BY <1>1, <1>2, RowInv DEF OnlyCommand, CallFacts, PrepareHost, Returns
    <2> QED
      BY <1>2, <2>1, MoveStep DEF RowStep, PrepareHost, Returns
  <1>3. CASE /\ rows[e].cp \in {"workspace_leased", "baseline_durable"}
             /\ Writes(e, row)
    <2>1. row \in Rows
      <3>1. [st |-> "prepared", base |-> Tree(e), term |-> NoTree] \in HostRows
        BY SameRow, MilestoneNames DEF HostRows, Inv
      <3> QED
        BY <3>1, RowInv, RowsAre, Names, MilestoneNames
    <2>2. StatusFacts(row)
      BY <1>1, RowInv DEF StatusFacts, Worked, HeldFacts, Rows
    <2>3. OnlyRow(e) /\ rows'[e] \in {row, rows[e]}
      BY <1>3, <2>1, <2>2, WriteStep DEF PrepareHost
    <2>4. calls[e].starts # 1 /\ calls[e].turns # 1
      BY <1>1, <1>3, RowInv DEF CallFacts, HeldFacts, StatusFacts
    <2>5. OnlyCommand(e)
      BY <1>1, <2>4 DEF OnlyCommand, CallFacts, PrepareHost, Returns
    <2>6. RowChange(e)
      BY <1>1, <2>3, RowInv DEF RowChange, PrepareHost, Returns, Rows, Worked,
         HeldFacts, StatusFacts, At
    <2> QED
      BY <2>3, <2>5, <2>6 DEF RowStep
  <1> QED
    BY <1>2, <1>3 DEF PrepareHost

(* The hosting app binds its thread to a prepared row, and asks the SDK for none. *)
LEMMA BindHostStep ==
    ASSUME Inv, NEW e \in Execs, BindHost(e)
    PROVE  RowStep(e)
  <1> DEFINE row == [rows[e] EXCEPT !.status = "started", !.cp = "identity_durable",
                                    !.thread = "host", !.ms = "RUNNING",
                                    !.host.st = "bound"]
  <1>1. row \in Rows
    BY ZenonT(30), RowInv, RowsAre, Names, MilestoneNames DEF HostRows
  <1>2. /\ row.status = "started" /\ row.cp = "identity_durable"
        /\ row.marker = rows[e].marker /\ row.turn = rows[e].turn
    BY RowInv DEF Rows
  <1>3. Active(e) /\ ~Worked(rows[e]) /\ ~Worked(row)
    BY <1>2, RowInv DEF BindHost, Active, StatusFacts, Worked
  <1>4. StatusFacts(row)
    BY <1>2 DEF StatusFacts
  <1>5. OnlyRow(e) /\ rows'[e] \in {row, rows[e]}
    BY <1>1, <1>4, WriteStep DEF BindHost
  <1>6. OnlyCommand(e)
    BY <1>2, <1>3, <1>5, RowInv DEF OnlyCommand, CallFacts, BindHost, Free
  <1>7. RowChange(e)
    BY <1>2, <1>3, <1>5 DEF RowChange, BindHost, Free, At
  <1> QED
    BY <1>5, <1>6, <1>7 DEF RowStep

(* The host's result closes the row, as completed only when the host's tree passes. *)
LEMMA CompleteHostStep ==
    ASSUME Inv, NEW e \in Execs, CompleteHost(e)
    PROVE  RowStep(e)
  <1>1. PICK failed \in BOOLEAN :
          LET passed == ~failed /\ HostPasses(e)
              status == IF passed THEN "completed" ELSE "failed"
          IN Writes(e, [rows[e] EXCEPT
                !.status = status, !.cp = "result_durable",
                !.ms = IF passed THEN "COMPLETED" ELSE "FAILED",
                !.host = [@ EXCEPT !.st = status,
                                   !.term = IF passed THEN Tree(e) ELSE NoTree]])
    BY DEF CompleteHost
  <1> DEFINE passed == ~failed /\ HostPasses(e)
             status == IF passed THEN "completed" ELSE "failed"
             row == [rows[e] EXCEPT
                       !.status = status, !.cp = "result_durable",
                       !.ms = IF passed THEN "COMPLETED" ELSE "FAILED",
                       !.host = [@ EXCEPT !.st = status,
                                          !.term = IF passed THEN Tree(e) ELSE NoTree]]
  <1>2. status \in {"completed", "failed"}
    OBVIOUS
  <1>3. row \in Rows
    <2>1. status \in Statuses /\ "result_durable" \in Checkpoints
      BY Names
    <2>2. Tree(e) \in Trees
      BY SameRow DEF Inv
    <2> QED
      <3>1. row.host \in HostRows
        <4>1. status \in HostStates
          BY <1>2, MilestoneNames
        <4> QED
          BY ZenonT(30), <4>1, <2>2, RowInv, RowsAre DEF HostRows
      <3> QED
        BY <2>1, <3>1, RowInv, RowsAre, MilestoneNames
  <1>4. /\ row.status = status /\ row.cp = "result_durable"
        /\ row.base = rows[e].base /\ row.marker = rows[e].marker
        /\ row.turn = rows[e].turn
    BY RowInv DEF Rows
  <1>5. Active(e) /\ ctl = Idle /\ ctl' = Idle
    BY RowInv DEF CompleteHost, Active, StatusFacts, Free
  <1> QED
    BY <1>1, <1>2, <1>3, <1>4, <1>5, EndStep DEF CompleteHost

----------------------------------------------------------------------------
(* From one execution to all *)

(* Every action changes one execution's row, or is a crash or an edit of a checkout. *)
LEMMA NextIsRowStep ==
    ASSUME Inv, Next
    PROVE  \/ \E e \in Execs : RowStep(e)
           \/ Crash
           \/ \E w \in Workspaces, part \in Parts : Edit(w, part)
  <1>1. ASSUME NEW e \in Execs, Plan(e) \/ Sdk(e) \/ Host(e) \/ Cancel(e)
        PROVE  RowStep(e)
    BY <1>1, PlanStep, CancelStep, StartInterruptedStep, StartLeaseStep,
       StartBaselinedStep, CaptureStep, RecordProfileStep, ClaimStep,
       ThreadStartingStep, RejectStartStep, CallStartStep, StartFailsStep,
       RecordIdentityStep, ResumeThreadStep, ResumeVerifyStep, TurnStartingStep,
       RejectTurnStep, CallTurnStep, TurnFailsStep, TurnReturnsStep, VerifyStep,
       FinishStep, PrepareLeaseStep, PrepareHostStep, BindHostStep,
       CompleteHostStep DEF Sdk, Host
  <1> QED
    BY <1>1 DEF Next

(* A step of one row keeps the types of all of them. *)
LEMMA RowStepTyped ==
    ASSUME Inv, NEW e \in Execs, RowStep(e)
    PROVE  Typed'
  <1>1. rows' \in [Execs -> Rows] /\ \A x \in Execs : RowValid(rows'[x])
    BY DEF Inv, Typed, TypeOK, RowStep, OnlyRow
  <1>2. leases' \subseteq {LeaseOf(x) : x \in Execs}
    BY DEF Inv, Typed, TypeOK, RowStep, OnlyRow
  <1>3. calls' \in [Execs -> CallCounts]
    BY DEF Inv, Typed, RowStep, OnlyRow
  <1>4. \A x \in Execs : calls'[x].starts \in Nat /\ calls'[x].turns \in Nat
    BY <1>3 DEF CallCounts
  <1>5. /\ tree' \in [Workspaces -> Trees]
        /\ env' \in [edits : 0..MaxEdits, crashes : 0..MaxCrash]
        /\ env'.edits \in 0..MaxEdits /\ env'.crashes \in 0..MaxCrash
    BY DEF Inv, Typed, TypeOK, RowStep, OnlyRow
  <1>6. ctl' = Idle \/ ctl' \in Positions
    BY DEF RowStep, OnlyCommand
  <1>7. TypeOK'
    BY <1>1, <1>2, <1>4, <1>5 DEF TypeOK, LeaseOf
  <1> QED
    BY <1>3, <1>5, <1>6, <1>7 DEF Typed

(* acquire_workspace_lease lets an execution in only when no other of the  *)
(* workspace is in it: that one would hold a lease of the workspace, which  *)
(* can only be the lease e asks for.                                       *)
LEMMA RowStepExclusive ==
    ASSUME Inv, NEW e \in Execs, RowStep(e)
    PROVE  WorkspaceExclusive'
  <1>1. \A x \in Execs \ {e} : Active(x)' <=> Active(x)
    BY DEF RowStep, OnlyRow, Active, Inv, Typed, TypeOK
  <1>2. ASSUME NEW x \in Execs, x # e, Ws[x] = Ws[e], Active(e)', Active(x)
        PROVE  FALSE
    <2>1. ~Active(e)
      BY <1>2 DEF Inv, WorkspaceExclusive
    <2>2. LeaseOk(e)
      BY <1>2, <2>1 DEF RowStep, RowChange
    <2>3. LeaseOf(x) \in leases
      BY <1>2 DEF Inv, LeaseFacts
    <2>4. LeaseOf(x) = LeaseOf(e)
      BY <1>2, <2>2, <2>3 DEF LeaseOk, LeaseOf
    <2>5. x \in Sharing(e) \ {e}
      BY <1>2 DEF Sharing
    <2> QED
      BY <1>2, <2>2, <2>3, <2>4, <2>5 DEF LeaseOk
  <1> QED
    BY <1>1, <1>2 DEF WorkspaceExclusive, Inv

(* Nobody is accepted in a workspace while another execution is in it, so  *)
(* the predecessors a baseline holds the work of stay the same.            *)
LEMMA RowStepBase ==
    ASSUME Inv, NEW e \in Execs, RowStep(e), NEW x \in Execs
    PROVE  BaseFacts(x)'
  <1>1. \A y \in Execs \ {e} : rows'[y] = rows[y]
    BY DEF RowStep, OnlyRow, Inv, Typed, TypeOK
  <1>2. SUFFICES ASSUME Active(x)', Worked(rows'[x]), NEW p \in Predecessors(x)'
                 PROVE  rows'[x].base[p] = TerminalTree(p)'[p]
    BY DEF BaseFacts
  <1>3. p \in Execs /\ p # x /\ Ws[p] = Ws[x] /\ rows'[p].status = "completed"
    BY DEF Predecessors, Sharing
  <1>4. CASE x # e
    <2>1. Active(x) /\ rows'[x] = rows[x]
      BY <1>1, <1>2, <1>4 DEF Active
    <2>2. rows[p].status = "completed" /\ rows'[p] = rows[p]
      <3>1. ~Active(p)
        BY <1>3, <2>1 DEF Inv, WorkspaceExclusive
      <3> QED
        BY <1>1, <1>3, <3>1 DEF RowStep, RowChange
    <2>3. p \in Predecessors(x)
      BY <1>3, <2>2 DEF Predecessors, Sharing
    <2>4. rows[x].base[p] = TerminalTree(p)[p]
      BY <1>2, <2>1, <2>3 DEF Inv, BaseFacts
    <2> QED
      BY <2>1, <2>2, <2>4 DEF TerminalTree
  <1>5. CASE x = e
    <2>1. p \in Predecessors(e) /\ rows'[p] = rows[p]
      BY <1>1, <1>3, <1>5 DEF Predecessors, Sharing
    <2>2. rows'[e].base = rows[e].base
      BY <1>2, <1>5 DEF RowStep, RowChange
    <2>3. CASE Worked(rows[e])
      <3>1. rows[e].status \notin Terminal
        BY <1>2, <1>5 DEF RowStep, RowChange, Active
      <3>2. Active(e)
        BY <2>3, <3>1, RowInv DEF Active, StatusFacts, Rows, Statuses
      <3>3. rows[e].base[p] = TerminalTree(p)[p]
        BY <2>1, <2>3, <3>2 DEF Inv, BaseFacts
      <3> QED
        BY <1>5, <2>1, <2>2, <3>3 DEF TerminalTree
    <2>4. CASE PredecessorsOk(e) /\ Tree(e) = rows[e].base
      <3>1. rows[e].base[p] = TerminalTree(p)[p]
        BY <2>1, <2>4 DEF PredecessorsOk
      <3> QED
        BY <1>5, <2>1, <2>2, <3>1 DEF TerminalTree
    <2> QED
      BY <1>2, <1>5, <2>3, <2>4 DEF RowStep, RowChange
  <1> QED
    BY <1>4, <1>5

(* A step of one row keeps the invariant: the other rows can only be disturbed through
   the shared checkout and its lease. *)
LEMMA RowStepInv ==
    ASSUME Inv, NEW e \in Execs, RowStep(e)
    PROVE  Inv'
  <1>1. \A x \in Execs \ {e} : rows'[x] = rows[x] /\ calls'[x] = calls[x]
    BY DEF RowStep, OnlyRow, Inv, Typed, TypeOK
  <1>2. ControlFacts'
    BY DEF RowStep, OnlyCommand, ControlFacts
  <1>3. ASSUME NEW x \in Execs
        PROVE  StatusFacts(rows'[x]) /\ CallFacts(x)' /\ LeaseFacts(x)'
    <2>1. CASE x = e
      <3>1. StatusFacts(rows'[e]) /\ CallFacts(e)'
        BY DEF RowStep, OnlyRow, OnlyCommand
      <3>2. Active(e)' => Active(e) \/ LeaseOf(e) \in leases'
        BY DEF RowStep, RowChange
      <3>3. LeaseFacts(e)'
        BY <3>2 DEF LeaseFacts, Inv, RowStep, OnlyRow, LeaseOf
      <3> QED
        BY <2>1, <3>1, <3>3
    <2>2. CASE x # e
      <3>1. StatusFacts(rows'[x])
        BY <1>1, <2>2 DEF Inv
      <3>2. CallFacts(x)'
        BY <1>1, <2>2 DEF Inv, CallFacts, RowStep, OnlyCommand
      <3>3. LeaseFacts(x)'
        BY <1>1, <2>2 DEF Inv, LeaseFacts, Active, RowStep, OnlyRow, LeaseOf
      <3> QED
        BY <3>1, <3>2, <3>3
    <2> QED
      BY <2>1, <2>2
  <1> QED
    BY <1>2, <1>3, RowStepTyped, RowStepExclusive, RowStepBase DEF Inv

(* A crash only releases the lock.                                         *)
LEMMA CrashInv ==
    ASSUME Inv, Crash
    PROVE  Inv'
  <1>1. env' \in [edits : 0..MaxEdits, crashes : 0..MaxCrash]
    BY ExecutionConstants DEF Crash, Inv, Typed
  <1>2. TypeOK'
    BY <1>1 DEF Crash, Inv, Typed, TypeOK, RowValid, LeaseOf
  <1>3. Typed'
    BY <1>1, <1>2 DEF Crash, Inv, Typed, Returns
  <1>4. WorkspaceExclusive' /\ ControlFacts'
    BY DEF Crash, Inv, WorkspaceExclusive, Active, ControlFacts, Returns
  <1>5. ASSUME NEW e \in Execs
        PROVE  /\ StatusFacts(rows'[e]) /\ CallFacts(e)'
               /\ BaseFacts(e)' /\ LeaseFacts(e)'
    <2>1. StatusFacts(rows'[e]) /\ CallFacts(e)'
      BY DEF Crash, Inv, CallFacts, Returns
    <2>2. BaseFacts(e)' /\ LeaseFacts(e)'
      BY DEF Crash, Inv, BaseFacts, LeaseFacts, Active, Predecessors, Sharing,
         TerminalTree, LeaseOf
    <2> QED
      BY <2>1, <2>2
  <1> QED
    BY <1>3, <1>4, <1>5 DEF Inv

(* What others do to a workspace is none of the ledger's.                  *)
LEMMA EditInv ==
    ASSUME Inv, NEW w \in Workspaces, NEW part \in Parts, Edit(w, part)
    PROVE  Inv'
  <1>1. env' \in [edits : 0..MaxEdits, crashes : 0..MaxCrash]
    BY ExecutionConstants DEF Edit, Inv, Typed
  <1>2. tree' \in [Workspaces -> Trees]
    BY DEF Edit, Inv, Typed, TypeOK, Trees
  <1>3. TypeOK'
    BY <1>1, <1>2 DEF Edit, Inv, Typed, TypeOK, RowValid, LeaseOf
  <1>4. Typed'
    BY <1>1, <1>3 DEF Edit, Inv, Typed
  <1>5. WorkspaceExclusive' /\ ControlFacts'
    BY DEF Edit, Inv, WorkspaceExclusive, Active, ControlFacts
  <1>6. ASSUME NEW e \in Execs
        PROVE  /\ StatusFacts(rows'[e]) /\ CallFacts(e)'
               /\ BaseFacts(e)' /\ LeaseFacts(e)'
    BY DEF Edit, Inv, CallFacts, BaseFacts, LeaseFacts, Active, Predecessors,
       Sharing, TerminalTree, LeaseOf
  <1> QED
    BY <1>4, <1>5, <1>6 DEF Inv

(* The empty ledger satisfies the invariant. *)
LEMMA InitInv == Init => Inv
  <1> SUFFICES ASSUME Init
               PROVE  Inv
    OBVIOUS
  <1>1. NewRow \in Rows /\ RowValid(NewRow) /\ StatusFacts(NewRow)
    <2>1. NewRow \in Rows
      BY DEF NewRow, Rows, Statuses, Checkpoints
    <2> QED
      BY <2>1 DEF NewRow, RowValid, ThreadIsHosts, Paired, TurnCausal,
         IntegrityKept, StatusFacts, Worked
  <1>2. \A e \in Execs : rows[e] = NewRow /\ ~Active(e)
    BY DEF Init, Active, NewRow
  <1>3. tree \in [Workspaces -> Trees]
    BY DEF Init, BaseRevision, Trees
  <1>4. calls \in [Execs -> CallCounts]
    BY DEF Init, CallCounts
  <1>5. env \in [edits : 0..MaxEdits, crashes : 0..MaxCrash]
    BY ExecutionConstants DEF Init
  <1>6. TypeOK
    BY <1>1, <1>3, <1>4, <1>5 DEF TypeOK, Init, CallCounts
  <1>7. Typed
    BY <1>4, <1>5, <1>6 DEF Typed, Init
  <1>8. ASSUME NEW e \in Execs
        PROVE  StatusFacts(rows[e]) /\ CallFacts(e) /\ BaseFacts(e) /\ LeaseFacts(e)
    BY <1>1, <1>2 DEF Init, CallFacts, BaseFacts, LeaseFacts
  <1> QED
    BY <1>2, <1>7, <1>8 DEF Inv, WorkspaceExclusive, ControlFacts, Init

(* The invariant is inductive. *)
LEMMA InvNext == Inv /\ [Next]_vars => Inv'
  <1> SUFFICES ASSUME Inv, [Next]_vars
               PROVE  Inv'
    OBVIOUS
  <1>1. CASE Next
    BY <1>1, NextIsRowStep, RowStepInv, CrashInv, EditInv
  <1>2. CASE UNCHANGED vars
    BY <1>2 DEF vars, Inv, Typed, TypeOK, WorkspaceExclusive, Active, ControlFacts,
       CallFacts, BaseFacts, LeaseFacts, Predecessors, Sharing, TerminalTree, LeaseOf
  <1> QED
    BY <1>1, <1>2

----------------------------------------------------------------------------
(* Theorems *)

(* The inductive invariant holds for every set of executions and checkouts and every
   number of calls, crashes and edits: the rest of the module reads off it. *)
THEOREM SpecInv == Spec => []Inv
  BY InitInv, InvNext, PTL DEF Spec

(* Every row a transaction of the ledger leaves passes its validation: no   *)
(* sequence of commands, rollbacks and crashes makes one that              *)
(* _validate_rows refuses.                                                 *)
THEOREM TypeCorrect == Spec => []TypeOK
  <1>1. Inv => TypeOK
    BY DEF Inv, Typed
  <1> QED
    BY <1>1, SpecInv, PTL

(* acquire_workspace_lease keeps two executions out of one workspace.      *)
THEOREM WorkspacesAreExclusive == Spec => []WorkspaceExclusive
  <1>1. Inv => WorkspaceExclusive
    BY DEF Inv
  <1> QED
    BY <1>1, SpecInv, PTL

(* start_thread and run_turn are called at most once for an execution.     *)
THEOREM CallsAreMadeOnce == Spec => []CallsNeverRepeated
  <1>1. Inv => CallsNeverRepeated
    <2> SUFFICES ASSUME Inv, NEW e \in Execs
                 PROVE  calls[e].starts <= 1 /\ calls[e].turns <= 1
      BY DEF CallsNeverRepeated
    <2>1. calls[e] \in CallCounts
      BY RowInv
    <2> QED
      BY <2>1 DEF CallCounts
  <1> QED
    BY <1>1, SpecInv, PTL

(* _resume accepts what a turn left only if the tree has what its baseline  *)
(* had outside the execution's own paths, and the baseline of an execution  *)
(* that worked has what its accepted predecessors left.                    *)
THEOREM AcceptedWorkIsKept == Spec => AcceptedWorkSurvives
  <1> DEFINE Kept == \A e \in Execs :
                       At(e, "verify") /\ ctl'.at = "verified" =>
                          \A p \in Predecessors(e) : Tree(e)[p] = TerminalTree(p)[p]
  <1>1. Inv /\ [Next]_vars => Kept
    <2> SUFFICES ASSUME Inv, [Next]_vars, NEW e \in Execs,
                        At(e, "verify"), ctl'.at = "verified",
                        NEW p \in Predecessors(e)
                 PROVE  Tree(e)[p] = TerminalTree(p)[p]
      OBVIOUS
    <2>1. /\ HeldFacts(rows[e], "verify") /\ Active(e)
          /\ ctl # Idle /\ ctl.e = e /\ ctl.at = "verify"
      BY HeldRow DEF At
    <2>2. RowStep(e)
      <3>1. ctl' # ctl /\ ctl' # Idle
        BY <2>1
      <3>2. Next /\ ~Crash /\ ~(\E w \in Workspaces, part \in Parts : Edit(w, part))
        BY <3>1 DEF vars, Crash, Edit, Returns
      <3>3. PICK x \in Execs : RowStep(x)
        BY <3>2, NextIsRowStep
      <3>4. x = e
        BY <2>1, <3>3 DEF RowStep, OnlyCommand
      <3> QED
        BY <3>3, <3>4
    <2>3. Unspoiled(e, rows[e].base)
      BY <2>2 DEF RowStep, RowChange
    <2>4. Tree(e)[p] = rows[e].base[p]
      BY <2>3 DEF Unspoiled, InScope, Predecessors
    <2>5. rows[e].base[p] = TerminalTree(p)[p]
      BY <2>1 DEF Inv, BaseFacts, HeldFacts, Worked
    <2> QED
      BY <2>4, <2>5
  <1> QED
    BY <1>1, SpecInv, PTL DEF Spec, AcceptedWorkSurvives

=============================================================================
