--------------------------- MODULE ControlCommands ---------------------------
(***************************************************************************)
(* Steering and interrupting the live turn of one dispatch.  A terminal UI *)
(* (src/codex_flow/tui_client.py over control_client.py) sends a request   *)
(* that names an exact turn; the harness (harness.py) keeps it as a row of *)
(* control_commands (ledger.py) if that turn is the one bound in its       *)
(* memory; the control thread of the worker (worker.py) polls for the rows *)
(* of its turn, calls the SDK handle and acknowledges.  The end of the     *)
(* turn, its result or the inspection of the dead worker's thread closes   *)
(* what is still open.                                                     *)
(*                                                                         *)
(* The harness serves one connection at a time, in the order they came:    *)
(* inbox holds those of the UI.  A sender that stops waiting leaves its    *)
(* message behind, which is served later, unanswered; a crash of the       *)
(* harness drops them all.  A request of the worker is one step with its   *)
(* service: the thread that sent it does nothing else meanwhile.  The end  *)
(* of a turn is one step with its being observed, and the death of a       *)
(* worker, which may come at any moment, with its being reaped: nothing    *)
(* reads them before.  A turn is a number in order of start and determines *)
(* its attempt.                                                            *)
(***************************************************************************)
EXTENDS Integers, FiniteSets, SequencesExt

CONSTANTS
    Steers, Interrupts, \* the requests of the user, by kind
    MaxTurns,    \* turns started, at most
    MaxAttempts, \* workers launched, at most
    MaxCrash,    \* deaths of the harness, at most
    MaxLost      \* requests whose reply never comes, at most

Requests == Steers \union Interrupts

ASSUME KindsAssumption == IsFiniteSet(Requests) /\ Steers \intersect Interrupts = {}
ASSUME BoundsAssumption ==
    MaxTurns \in Nat /\ MaxAttempts \in Nat \ {0} /\ MaxCrash \in Nat /\ MaxLost \in Nat

VARIABLES
    row,     \* dispatch_queue: state and attempt
    turns,   \* the turns of the SDK thread: attempt and status
    cmds,    \* control_commands
    up,      \* whether the harness runs
    active,  \* the turn bound in its memory, 0 if none
    inbox,   \* the UI's connections it has not served
    worker,  \* the worker process: main thread, control thread, memory
    client,  \* what the UI holds of each request
    calls,   \* every call of the SDK handle: request, turn, whether it succeeded
    budget   \* crashes and lost replies so far

vars == <<row, turns, cmds, up, active, inbox, worker, client, calls, budget>>

Closed == {"acknowledged", "rejected", "unresolved"}
NoCommand == [state |-> "absent", turn |-> 0, seq |-> 0]
NoClient == [at |-> "idle", turn |-> 0, uncertain |-> FALSE, resent |-> FALSE, cut |-> FALSE, told |-> "nothing"]
Fresh == [up |-> TRUE, child |-> TRUE, main |-> "start", bound |-> 0, loop |-> "off", batch |-> {},
          applied |-> [r \in Requests |-> "no"], late |-> 0, saved |-> FALSE]
Dead(w) == [Fresh EXCEPT !.up = FALSE, !.child = w.child, !.late = w.late, !.saved = w.saved]

Current(t) == turns[t].attempt = row.attempt
OfTurn(t, states) == {r \in Requests : cmds[r].turn = t /\ cmds[r].state \in states}

Init ==
    /\ row = [state |-> "running", attempt |-> 1]
    /\ turns = <<>>
    /\ cmds = [r \in Requests |-> NoCommand]
    /\ up = TRUE /\ active = 0 /\ inbox = <<>>
    /\ worker = Fresh
    /\ client = [r \in Requests |-> NoClient]
    /\ calls = <<>>
    /\ budget = [crash |-> 0, lost |-> 0]

-----------------------------------------------------------------------------
(* The UI: TerminalUiClient._send_control.                                 *)

(* What the state of the durable command is called on the screen. *)
CommandResult(state) ==
    CASE state = "rejected" -> "rejected" [] state = "unresolved" -> "uncertain" [] OTHER -> "accepted"

(* The request is forgotten unless its outcome is uncertain. *)
Told(c, outcome) ==
    IF outcome = "uncertain"
    THEN [c EXCEPT !.at = "idle", !.uncertain = TRUE]
    ELSE [NoClient EXCEPT !.at = "gone", !.turn = c.turn, !.cut = c.cut /\ outcome = "rejected", !.told = outcome]

(* One question or mutation and the wait for its reply; without a harness it  *)
(* fails, and so does the look up after it.                                   *)
Sends(cs, box, r, at) ==
    IF up THEN /\ client' = [cs EXCEPT ![r].at = at]
               /\ inbox' = Append(box, [op |-> IF at \in {"asking", "resolving"} THEN "status" ELSE "create", id |-> r, waits |-> TRUE])
          ELSE client' = [cs EXCEPT ![r] = Told(@, "uncertain")] /\ inbox' = box

(* Mutant: sends again without asking whether the first request arrived. *)
AfterSilence_Resend(cs, box, r) ==
    IF cs[r].at # "sending" THEN client' = [cs EXCEPT ![r] = Told(@, "uncertain")] /\ inbox' = box
    ELSE Sends([cs EXCEPT ![r].uncertain = TRUE], box, r, "resending")

(* A mutation nobody answered is looked up before anything is sent again. *)
AfterSilence(cs, box, r) ==
    IF cs[r].at # "sending" THEN client' = [cs EXCEPT ![r] = Told(@, "uncertain")] /\ inbox' = box
    ELSE Sends([cs EXCEPT ![r].uncertain = TRUE], box, r, "resolving")

(* The answer of control_status: absence allows one more send, same id. *)
Looked(box, r, state) ==
    IF state # "absent" THEN client' = [client EXCEPT ![r] = Told(@, CommandResult(state))] /\ inbox' = box
    ELSE IF client[r].resent THEN client' = [client EXCEPT ![r] = Told(@, "uncertain")] /\ inbox' = box
    ELSE Sends([client EXCEPT ![r].resent = TRUE], box, r, IF client[r].at = "asking" THEN "sending" ELSE "resending")

(* An action of the user cancels the coroutine that is waiting (one exclusive *)
(* group of mutations); its request is kept, and not marked uncertain.        *)
Waiting == {r \in Requests : client[r].at \notin {"idle", "gone"}}
CutOff == [r \in Requests |-> IF r \in Waiting THEN [client[r] EXCEPT !.at = "idle", !.cut = TRUE] ELSE client[r]]

Acts(cs, r, at) ==
    /\ Waiting # {} => budget.lost < MaxLost
    /\ budget' = [budget EXCEPT !.lost = @ + Cardinality(Waiting)]
    /\ Sends(cs, [i \in DOMAIN inbox |-> [inbox[i] EXCEPT !.waits = FALSE]], r, at)
    /\ UNCHANGED <<row, turns, cmds, up, active, worker, calls>>

(* The user acts on a bound turn the UI showed, maybe some time ago.  Requests *)
(* to interrupt one turn share a key, so there is one at a time.              *)
Begin(r) ==
    /\ client[r] = NoClient
    /\ \E t \in DOMAIN turns \ (IF worker.main = "bind" THEN {Len(turns)} ELSE {}) :
        /\ \A q \in Interrupts \ {r} : r \in Interrupts /\ client[q].turn = t => client[q].at = "gone"
        /\ Acts([CutOff EXCEPT ![r].turn = t], r, "sending")

(* The same action again, after an uncertain outcome or over one that waits. *)
Again(r) ==
    /\ client[r].turn # 0 /\ client[r].at # "gone"
    /\ Acts(CutOff, r, IF client[r].uncertain THEN "asking" ELSE "sending")

(* Nobody answers in time. *)
TimesOut(r) ==
    /\ r \in Waiting /\ budget.lost < MaxLost
    /\ AfterSilence(client, [i \in DOMAIN inbox |-> [inbox[i] EXCEPT !.waits = FALSE]], r)
    /\ budget' = [budget EXCEPT !.lost = @ + 1]
    /\ UNCHANGED <<row, turns, cmds, up, active, worker, calls>>

-----------------------------------------------------------------------------
(* The worker: the main thread runs turns, binds each and hands the result in. *)

StartTurn ==
    /\ worker.up /\ worker.main = "start" /\ Len(turns) < MaxTurns
    /\ turns' = Append(turns, [attempt |-> row.attempt, status |-> "live"])
    /\ worker' = [worker EXCEPT !.main = "bind"]
    /\ UNCHANGED <<row, cmds, up, active, inbox, client, calls, budget>>

(* How the SDK may end a turn, interrupted by the worker or by anybody else;   *)
(* invalid: completed with an envelope that fails its schema.  A turn that fails *)
(* is one whose worker dies: the inspection finds no result either way.          *)
Endings == {"completed", "invalid", "interrupted"}
Ended(s) == turns' = [turns EXCEPT ![Len(turns)].status = s]

(* bind_turn, when the control thread of the turn before has stopped.  The    *)
(* harness asks for the attempt only, not for a running row.  A worker that    *)
(* hears nothing ends, and its request may be served later.                    *)
BindTurn ==
    /\ worker.up /\ worker.main = "bind" /\ worker.loop = "off"
    /\ \/ /\ up /\ active' = Len(turns)
          /\ worker' = [worker EXCEPT !.main = "turn", !.bound = Len(turns), !.loop = "idle"] /\ UNCHANGED budget
       \/ /\ up /\ budget.lost < MaxLost
          /\ worker' = [Dead(worker) EXCEPT !.late = Len(turns)] /\ UNCHANGED active
          /\ budget' = [budget EXCEPT !.lost = @ + 1]
       \/ ~up /\ worker' = Dead(worker) /\ UNCHANGED <<active, budget>>
    /\ UNCHANGED <<row, turns, cmds, up, inbox, client, calls>>

ServeLateBind ==
    /\ up /\ worker.late # 0
    /\ active' = IF Current(worker.late) THEN worker.late ELSE active
    /\ worker' = [worker EXCEPT !.late = 0]
    /\ UNCHANGED <<row, turns, cmds, up, inbox, client, calls, budget>>

(* A correction is a turn of its own; a turn without a result ends the worker. *)
TurnEnds ==
    /\ worker.up /\ worker.main = "turn"
    /\ \E s \in Endings :
        /\ Ended(s)
        /\ worker' = CASE s = "completed" -> [worker EXCEPT !.main = "finish"]
                       [] s = "invalid" -> [worker EXCEPT !.main = "start"]
                       [] OTHER -> Dead(worker)
    /\ UNCHANGED <<row, cmds, up, active, inbox, client, calls, budget>>

(* control_loop: the stop flag is read between two polls only. *)
LoopStops ==
    /\ worker.up /\ worker.loop = "idle" /\ worker.main \in {"bind", "finish"}
    /\ worker' = [worker EXCEPT !.loop = "off"]
    /\ UNCHANGED <<row, turns, cmds, up, active, inbox, client, calls, budget>>

(* The rows a poll returns: everything sent, this batch and those before it. *)
Claimed(t) == OfTurn(t, {"pending", "sent"})

(* They come, and are gone through, in the order of their numbers. *)
First(r) == r \in worker.batch /\ \A q \in worker.batch : cmds[r].seq <= cmds[q].seq

(* What is left of the batch is applied before the next poll. *)
Batch(w, b) == [w EXCEPT !.batch = b, !.loop = IF b = {} THEN "idle" ELSE "apply"]

(* A poll renews the lease, binds the turn again and hands the commands out.  *)
(* A worker that hears nothing polls again.                                    *)
Poll ==
    /\ worker.up /\ worker.loop = "idle" /\ up /\ row.state = "running"
    /\ active' = worker.bound
    /\ cmds' = [r \in Requests |->
        IF r \in OfTurn(worker.bound, {"pending"}) THEN [cmds[r] EXCEPT !.state = "sent"] ELSE cmds[r]]
    /\ worker' \in {Batch(worker, Claimed(worker.bound)), worker}
    /\ UNCHANGED <<row, turns, up, inbox, client, calls, budget>>

(* Mutant: forgets which commands it applied. *)
Prior_None(r) == "no"

(* What this process remembers of a command it was handed before. *)
Prior(r) == worker.applied[r]

(* The SDK handle is called once per process for a command. *)
Apply(r) ==
    LET Handled(v) == worker' = [worker EXCEPT !.applied[r] = v, !.loop = "handled"]
    IN  /\ worker.up /\ worker.loop = "apply" /\ First(r)
        /\ IF Prior(r) # "no" THEN Handled(Prior(r)) /\ UNCHANGED calls
           ELSE \E ok \in BOOLEAN :
                /\ calls' = Append(calls, [id |-> r, turn |-> worker.bound, ok |-> ok])
                /\ Handled(IF ~ok THEN "rejected" ELSE IF r \in Steers THEN "acknowledged" ELSE "sent")
        /\ UNCHANGED <<row, turns, cmds, up, active, inbox, client, budget>>

(* The acknowledgement, whose answer is not looked at; an interrupt that went  *)
(* through is left to the end of the turn.  Without any answer the control     *)
(* thread ends.                                                                *)
Acknowledge(r) ==
    LET v == worker.applied[r]
        next == Batch(worker, worker.batch \ {r})
        over == [worker EXCEPT !.loop = "off", !.batch = {}]
    IN  /\ worker.up /\ worker.loop = "handled" /\ First(r)
        /\ \/ v = "sent" /\ worker' = next /\ UNCHANGED cmds
           \/ /\ v # "sent" /\ up
              /\ cmds' = IF row.state = "running" /\ cmds[r].state = "sent" THEN [cmds EXCEPT ![r].state = v] ELSE cmds
              /\ worker' \in {next, over}
           \/ v # "sent" /\ worker' = over /\ UNCHANGED cmds
        /\ UNCHANGED <<row, turns, up, active, inbox, client, calls, budget>>

-----------------------------------------------------------------------------
(* The harness: the requests of the UI, in order. *)

Serving(op) == up /\ inbox # <<>> /\ Head(inbox).op = op

(* create_control_command refuses an ended row and an attempt that is over. *)
Accepts(t) == row.state \notin {"done", "cancelled", "attention"} /\ Current(t)

(* Mutant: numbers a command after those still open. *)
NextSequence_Open == 1 + Max({0} \union {cmds[q].seq : q \in {x \in Requests : cmds[x].state \notin Closed}})

NextSequence == 1 + Max({0} \union {cmds[q].seq : q \in Requests})

(* The turn must be the one in the memory of the harness. *)
Bound(t) == active = t

(* A command that exists is returned as it is. *)
ServeCreate ==
    LET m == Head(inbox)
        t == client[m.id].turn
        state == cmds[m.id].state
        Answer(outcome) == client' = IF m.waits THEN [client EXCEPT ![m.id] = Told(@, outcome)] ELSE client
    IN  /\ Serving("create") /\ inbox' = Tail(inbox)
        /\ \/ ~Bound(t) /\ Answer("rejected") /\ UNCHANGED cmds
           \/ Bound(t) /\ state # "absent" /\ Answer(CommandResult(state)) /\ UNCHANGED cmds
           \/ Bound(t) /\ state = "absent" /\ ~Accepts(t) /\ Answer("rejected") /\ UNCHANGED cmds
           \/ /\ Bound(t) /\ state = "absent" /\ Accepts(t)
              /\ cmds' = [cmds EXCEPT ![m.id] = [state |-> "pending", turn |-> t, seq |-> NextSequence]]
              /\ Answer("accepted")
        /\ UNCHANGED <<row, turns, up, active, worker, calls, budget>>

ServeStatus ==
    LET m == Head(inbox)
    IN  /\ Serving("status")
        /\ IF m.waits THEN Looked(Tail(inbox), m.id, cmds[m.id].state) ELSE inbox' = Tail(inbox) /\ UNCHANGED client
        /\ UNCHANGED <<row, turns, cmds, up, active, worker, calls, budget>>

-----------------------------------------------------------------------------
(* The harness: the ends of turns and workers. *)

(* Mutant: takes the end of the last turn for the end of any turn. *)
EndOf_Any(t, verdict) ==
    [r \in Requests |->
        IF r \in Interrupts /\ cmds[r].state = "sent" THEN [cmds[r] EXCEPT !.state = verdict] ELSE cmds[r]]

(* The interrupts handed to a turn are closed by what its end proves. *)
EndOf(t, verdict) ==
    [r \in Requests |->
        IF r \in Interrupts \intersect OfTurn(t, {"sent"}) THEN [cmds[r] EXCEPT !.state = verdict] ELSE cmds[r]]

Unresolved(cs) ==
    [r \in Requests |-> IF cs[r].state \in {"pending", "sent"} THEN [cs[r] EXCEPT !.state = "unresolved"] ELSE cs[r]]

(* The worker hands the result of its turn in, once its control thread ended. *)
Submitted ==
    /\ worker.up /\ worker.main = "finish" /\ worker.loop = "off" /\ up
    /\ row.state \in {"running", "done"}
    /\ row' = [row EXCEPT !.state = "done"]

(* Commands are closed for the turn in memory: with none, they stay open. *)
Submit ==
    /\ Submitted
    /\ cmds' = IF active # 0 THEN Unresolved(EndOf(active, "rejected")) ELSE cmds
    /\ active' = 0
    /\ worker' \in {Dead(worker), worker}
    /\ UNCHANGED <<turns, up, inbox, client, calls, budget>>

(* Nobody answered often enough: the result stays in the worker's private file. *)
GiveUp ==
    /\ worker.up /\ worker.main = "finish" /\ worker.loop = "off"
    /\ worker' = [Dead(worker) EXCEPT !.saved = TRUE]
    /\ UNCHANGED <<row, turns, cmds, up, active, inbox, client, calls, budget>>

(* A worker is found dead: the row may have no inspection left. *)
Exits ==
    /\ worker' = [Dead(worker) EXCEPT !.child = FALSE]
    /\ IF row.state = "running" THEN \E s \in {"exited", "attention"} : row' = [row EXCEPT !.state = s] ELSE UNCHANGED row
    /\ UNCHANGED <<turns, cmds, up, inbox, client, calls, budget>>

Reap == up /\ worker.child /\ (row.state = "running" \/ active # 0) /\ active' = 0 /\ Exits

(* The worker of an earlier harness is no child: the turn stays bound. *)
FindDead == up /\ ~worker.child /\ row.state = "running" /\ UNCHANGED active /\ Exits

(* _recover_exited_dispatch: what is read of the last turn of the thread decides. *)
(* What names no outcome (no turn, a turn that failed, a snapshot that is         *)
(* malformed, another writer) proves nothing of an interrupt; the row of a thread *)
(* with another writer is inspected once more.                                    *)
Becomes(states) == \E e \in states : row' = [row EXCEPT !.state = e]

Inspected(s) ==
    \/ /\ s = "completed" /\ Becomes({"done", "attention"})
       /\ cmds' = Unresolved(EndOf(Len(turns), "rejected"))
    \/ /\ s = "interrupted" /\ Becomes({"attention"})
       /\ cmds' = Unresolved(EndOf(Len(turns), "acknowledged"))
    \/ /\ Becomes({"attention", "exited"} \union IF s \in {"completed", "interrupted"} THEN {} ELSE {"retry"})
       /\ cmds' = Unresolved(cmds)

InspectExited ==
    /\ up /\ row.state = "exited"
    /\ \/ turns = <<>> /\ Inspected("none") /\ UNCHANGED turns
       \/ turns # <<>> /\ Inspected(Last(turns).status) /\ UNCHANGED turns
       \/ turns # <<>> /\ Last(turns).status = "live" /\ \E s \in Endings : Ended(s) /\ Inspected(s)
    /\ UNCHANGED <<up, active, inbox, worker, client, calls, budget>>

(* A result the dead worker kept is taken in without a look at its commands. *)
TakeRetained ==
    /\ up /\ row.state = "attention" /\ worker.saved
    /\ row' = [row EXCEPT !.state = "done"]
    /\ UNCHANGED <<turns, cmds, up, active, inbox, worker, client, calls, budget>>

(* _advance_worker_cancellation: stops the worker, closes no command. *)
CancelWorker ==
    /\ up /\ row.state = "running"
    /\ row' = [row EXCEPT !.state = "cancelled"]
    /\ worker' = [Dead(worker) EXCEPT !.child = FALSE]
    /\ active' = 0
    /\ UNCHANGED <<turns, cmds, up, inbox, client, calls, budget>>

(* A retry of the harness or of a human: a new worker resumes the thread. *)
Relaunch ==
    /\ up /\ row.state \in {"retry", "attention"} /\ row.attempt < MaxAttempts
    /\ row' = [state |-> "running", attempt |-> row.attempt + 1]
    /\ worker' = Fresh
    /\ UNCHANGED <<turns, cmds, up, active, inbox, client, calls, budget>>

(* What is left when the harness dies: the rows and the worker. *)
Down ==
    /\ up /\ budget.crash < MaxCrash
    /\ up' = FALSE /\ active' = 0 /\ inbox' = <<>>
    /\ client' = [r \in Requests |-> IF r \in Waiting THEN Told(client[r], "uncertain") ELSE client[r]]
    /\ worker' = [worker EXCEPT !.child = FALSE, !.late = 0]
    /\ budget' = [budget EXCEPT !.crash = @ + 1]

Crash == Down /\ UNCHANGED <<row, turns, cmds, calls>>

(* The result is committed before the commands are closed. *)
CrashInSubmit ==
    /\ Submitted /\ Down
    /\ active # 0 /\ cmds' \in {cmds, EndOf(active, "rejected")}
    /\ UNCHANGED <<turns, calls>>

Restart == ~up /\ up' = TRUE /\ UNCHANGED <<row, turns, cmds, active, inbox, worker, client, calls, budget>>

Next ==
    \/ \E r \in Requests : Begin(r) \/ Again(r) \/ TimesOut(r) \/ Apply(r) \/ Acknowledge(r)
    \/ StartTurn \/ TurnEnds \/ BindTurn \/ ServeLateBind
    \/ LoopStops \/ Poll
    \/ ServeCreate \/ ServeStatus
    \/ Submit \/ GiveUp \/ Reap \/ FindDead \/ InspectExited \/ TakeRetained \/ CancelWorker \/ Relaunch
    \/ Crash \/ CrashInSubmit \/ Restart

Spec == Init /\ [][Next]_vars

-----------------------------------------------------------------------------
(* Types, and what the schema validator says of control_commands              *)
(* (ledger.py:4117-4175): submission sequences are contiguous.                 *)
TypeOK ==
    /\ row \in [state : {"running", "exited", "retry", "attention", "done", "cancelled"}, attempt : 1 .. MaxAttempts]
    /\ turns \in Seq([attempt : 1 .. MaxAttempts, status : {"live", "completed", "invalid", "interrupted"}])
    /\ cmds \in [Requests -> [state : {"absent", "pending", "sent"} \union Closed, turn : 0 .. MaxTurns,
                              seq : 0 .. Cardinality(Requests)]]
    /\ active \in 0 .. Len(turns)
    /\ \A r \in Requests : (cmds[r].state = "absent") = (cmds[r] = NoCommand)
    /\ {cmds[r].seq : r \in Requests} \ {0} = 1 .. Cardinality({r \in Requests : cmds[r].state # "absent"})

(* The SDK handle is called at most once for a request, on the turn the user  *)
(* named, for a command the harness handed out, in the order of submission -   *)
(* whatever polls, acknowledgements and harnesses are lost (worker.py:609     *)
(* "never call the SDK handle twice").                                         *)
CallsAreExact ==
    \A i \in DOMAIN calls :
        /\ calls[i].turn = client[calls[i].id].turn
        /\ cmds[calls[i].id].turn = calls[i].turn /\ cmds[calls[i].id].state \notin {"absent", "pending"}
        /\ \A j \in 1 .. i - 1 : cmds[calls[j].id].seq < cmds[calls[i].id].seq

(* A closed command says what happened: an acknowledged steer was taken by    *)
(* the handle, an acknowledged interrupt ended its turn (history.md:7498       *)
(* "Interrupt is confirmed only by SDK terminal evidence"), and one rejected   *)
(* after a successful call did not.                                            *)
VerdictsAreEarned ==
    \A r \in Requests :
        LET ok == \E i \in DOMAIN calls : calls[i].id = r /\ calls[i].ok
            ended == turns[cmds[r].turn].status
        IN  /\ cmds[r].state = "acknowledged" => IF r \in Steers THEN ok ELSE ended = "interrupted"
            /\ cmds[r].state = "rejected" /\ ok => r \in Interrupts /\ ended = "completed"

(* The UI never calls a lost reply a refusal, and never an absent command      *)
(* accepted: what it told stays true, except of a request cut off by another   *)
(* action of the user (tui.py:606).                                            *)
ToldIsTrue ==
    \A r \in Requests :
        /\ client[r].told = "accepted" => cmds[r].state # "absent"
        /\ client[r].told = "rejected" /\ ~client[r].cut => cmds[r].state \in {"absent", "rejected"}

=============================================================================
