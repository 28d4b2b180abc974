------------------------ MODULE ControlCommandsProofs ------------------------
(***************************************************************************)
(* Proofs about ControlCommands: that the SDK handle is called exactly, in *)
(* the order of submission and at most once for a request, that a closed   *)
(* command says what happened, and that what the UI told stays true, for   *)
(* every finite set of requests, any number of turns, workers, lost        *)
(* replies and crashes of the harness.                                     *)
(*                                                                         *)
(* None of the three is inductive.  What carries them is where the turns   *)
(* are: the turn in the memory of the harness is never older than that of  *)
(* a command, and the turn a control thread polls for is the one in memory *)
(* or none is; so commands are numbered in the order of their turns, and   *)
(* those of a turn are applied by one process, which remembers them.  What *)
(* carries the promises of the UI is that messages are served in order: a  *)
(* look-up that is answered finds no earlier request still under way.      *)
(***************************************************************************)
EXTENDS ControlCommands, FiniteSetTheorems, TLAPS

RowStates == {"running", "exited", "retry", "attention", "done", "cancelled"}
Statuses == {"live", "completed", "invalid", "interrupted"}
CommandStates == {"absent", "pending", "sent", "acknowledged", "rejected", "unresolved"}
Phases == {"idle", "sending", "asking", "resolving", "resending", "gone"}
Applied == {"no", "acknowledged", "rejected", "sent"}

Turn == [attempt : 1 .. MaxAttempts, status : Statuses]
Command == [state : CommandStates, turn : Nat, seq : Nat]
Message == [op : {"create", "status"}, id : Requests, waits : BOOLEAN]
Client == [at : Phases, turn : Nat, uncertain : BOOLEAN, resent : BOOLEAN, cut : BOOLEAN,
           told : {"nothing", "accepted", "rejected"}]
Worker == [up : BOOLEAN, child : BOOLEAN, main : {"start", "bind", "turn", "finish"},
           bound : Nat, loop : {"off", "idle", "apply", "handled"},
           batch : SUBSET Requests, applied : [Requests -> Applied],
           late : Nat, saved : BOOLEAN]
Call == [id : Requests, turn : Nat, ok : BOOLEAN]

(* The type invariant, without the numbering, and with the parts TypeOK leaves *)
(* out because no property speaks of them.                                     *)
Typed ==
    /\ row \in [state : RowStates, attempt : 1 .. MaxAttempts]
    /\ turns \in Seq(Turn) /\ Len(turns) <= MaxTurns
    /\ cmds \in [Requests -> Command]
    /\ up \in BOOLEAN
    /\ active \in 0 .. Len(turns)
    /\ inbox \in Seq(Message)
    /\ worker \in Worker
    /\ client \in [Requests -> Client]
    /\ calls \in Seq(Call)

Created(r) == cmds[r].state # "absent"

(* A command names the turn its request named; commands are numbered from one, *)
(* and in the order of their turns.                                            *)
CommandFacts ==
    /\ \A r \in Requests :
        /\ ~Created(r) => cmds[r] = NoCommand
        /\ Created(r) => /\ cmds[r].seq # 0 /\ cmds[r].turn = client[r].turn
                         /\ cmds[r].turn \in 1 .. Len(turns)
    /\ \A q, r \in Requests : Created(q) /\ Created(r) =>
        /\ cmds[q].seq = cmds[r].seq => q = r
        /\ cmds[q].turn < cmds[r].turn => cmds[q].seq < cmds[r].seq
    /\ {cmds[r].seq : r \in Requests} \ {0} = 1 .. Cardinality({r \in Requests : Created(r)})

(* The turn in the memory of the harness, the one the control thread polls for *)
(* and the last one of the SDK thread.                                         *)
TurnFacts ==
    /\ active # 0 => \A r \in Requests : Created(r) => cmds[r].turn <= active
    /\ worker.late # 0 => ~worker.up /\ worker.late = Len(turns)
    /\ worker.loop # "off" =>
        /\ worker.up /\ worker.bound \in 1 .. Len(turns) /\ active \in {0, worker.bound}
        /\ \A r \in Requests : Created(r) => cmds[r].turn <= worker.bound
        /\ worker.main = "bind" => worker.bound < Len(turns)
    /\ worker.up /\ worker.main = "bind" =>
        /\ active < Len(turns) /\ turns[Len(turns)].status = "live"
        /\ \A r \in Requests : Created(r) => cmds[r].turn < Len(turns)
    /\ worker.up /\ worker.main \in {"turn", "finish"} =>
        /\ worker.bound = Len(turns) /\ turns # <<>> /\ active \in {0, Len(turns)}
        /\ turns[Len(turns)].status = IF worker.main = "turn" THEN "live" ELSE "completed"
    /\ row.state \in {"exited", "retry", "attention", "cancelled"} => ~worker.up

(* The commands of the turn the control thread polls for. *)
Mine(r) == Created(r) /\ cmds[r].turn = worker.bound

(* A batch holds commands of that turn; those not yet applied are open, and     *)
(* older than any open command outside it.                                      *)
BatchFacts ==
    /\ worker.loop \in {"off", "idle"} => worker.batch = {}
    /\ \A r \in worker.batch :
        /\ Mine(r) /\ cmds[r].state # "pending"
        /\ worker.applied[r] = "no" => cmds[r].state = "sent"
    /\ worker.loop = "handled" => \A r \in worker.batch : First(r) => worker.applied[r] # "no"
    /\ \A q \in worker.batch, r \in Requests \ worker.batch :
        Mine(r) /\ cmds[r].state \in {"pending", "sent"} /\ worker.applied[r] = "no" =>
            cmds[q].seq < cmds[r].seq

(* A process remembers what it called, and what came of it; a command of its    *)
(* turn that it has not called is younger than all it has.                      *)
CallFacts ==
    /\ CallsAreExact
    /\ worker.loop # "off" => \A i \in DOMAIN calls : calls[i].turn = worker.bound =>
        /\ worker.applied[calls[i].id] # "no"
        /\ \A r \in Requests :
            Mine(r) /\ cmds[r].state \in {"pending", "sent"} /\ worker.applied[r] = "no" =>
                cmds[calls[i].id].seq < cmds[r].seq
    /\ \A r \in Requests :
        LET ok == \E i \in DOMAIN calls : calls[i].id = r /\ calls[i].ok
        IN  /\ worker.applied[r] # "no" => Created(r)
            /\ worker.applied[r] = "acknowledged" => r \in Steers /\ ok
            /\ worker.applied[r] = "rejected" => ~ok

Creates(m, r) == m.op = "create" /\ m.id = r

(* What the UI knows, being c, of a request r. *)
RequestFacts(c, r, box) ==
    /\ c.turn = 0 => c = NoClient
    /\ c.turn <= Len(turns)
    /\ c.at = "idle" /\ c.turn # 0 => c.cut \/ c.uncertain
    /\ c.told # "nothing" => c.at = "gone"
    /\ c.told = "accepted" => Created(r)
    /\ c.told = "rejected" /\ ~c.cut =>
        \/ cmds[r].state = "rejected"
        \/ ~Created(r) /\ \A i \in DOMAIN box : ~Creates(box[i], r)

(* Message i of those the harness has not served. *)
MessageFacts(cs, box, i) ==
    LET r == box[i].id
    IN  /\ cs[r].turn # 0
        /\ box[i].waits =>
            /\ i = Len(box) /\ cs[r].at \notin {"idle", "gone"}
            /\ box[i].op = "create" /\ ~cs[r].cut =>
                /\ ~Created(r)
                /\ \A j \in DOMAIN box : Creates(box[j], r) => j = i

(* Only the last message is waited for.  A request that nobody cut off is       *)
(* looked up before it is sent again, so it is under way at most once.          *)
ClientFacts ==
    /\ \A r \in Requests : RequestFacts(client[r], r, inbox)
    /\ \A i \in DOMAIN inbox : MessageFacts(client, inbox, i)

Inv == /\ Typed /\ CommandFacts /\ TurnFacts /\ BatchFacts /\ CallFacts
       /\ VerdictsAreEarned /\ ClientFacts

-----------------------------------------------------------------------------
(* What the helpers do to a row. *)

(* The columns of a request the UI was told about. *)
LEMMA ToldRow ==
    ASSUME NEW c \in Client, NEW outcome \in {"accepted", "rejected", "uncertain"}
    PROVE  /\ Told(c, outcome) \in Client
           /\ Told(c, outcome).turn = c.turn
           /\ outcome = "uncertain" =>
                /\ Told(c, outcome).at = "idle" /\ Told(c, outcome).uncertain
                /\ Told(c, outcome).cut = c.cut /\ Told(c, outcome).told = c.told
           /\ outcome # "uncertain" =>
                /\ Told(c, outcome).at = "gone" /\ Told(c, outcome).told = outcome
                /\ Told(c, outcome).cut = (c.cut /\ outcome = "rejected")
  BY DEF Told, NoClient, Client, Phases

(* The words of a state. *)
LEMMA ResultWord ==
    ASSUME NEW state \in CommandStates
    PROVE  /\ CommandResult(state) \in {"accepted", "rejected", "uncertain"}
           /\ CommandResult(state) = "rejected" => state = "rejected"
  BY DEF CommandResult, CommandStates

(* Cutting off the request that waits. *)
LEMMA CutOffRows ==
    ASSUME client \in [Requests -> Client]
    PROVE  /\ CutOff \in [Requests -> Client]
           /\ \A r \in Requests :
                /\ r \in Waiting => /\ CutOff[r].at = "idle" /\ CutOff[r].cut
                                    /\ CutOff[r].turn = client[r].turn
                                    /\ CutOff[r].told = client[r].told
                                    /\ CutOff[r].uncertain = client[r].uncertain
                /\ r \notin Waiting => CutOff[r] = client[r]
                /\ CutOff[r].at \in {"idle", "gone"}
  BY DEF CutOff, Waiting, Client, Phases

(* What is not waited for any more. *)
LEMMA Unwaited ==
    ASSUME inbox \in Seq(Message), NEW box,
           box = [i \in DOMAIN inbox |-> [inbox[i] EXCEPT !.waits = FALSE]]
    PROVE  /\ box \in Seq(Message) /\ DOMAIN box = DOMAIN inbox
           /\ \A i \in DOMAIN inbox : /\ box[i].op = inbox[i].op /\ box[i].id = inbox[i].id
                                      /\ ~box[i].waits
<1>1. DOMAIN inbox = 1 .. Len(inbox) /\ Len(inbox) \in Nat
  OBVIOUS
<1>2. ASSUME NEW i \in 1 .. Len(inbox)
      PROVE  /\ box[i] \in Message /\ box[i].op = inbox[i].op
             /\ box[i].id = inbox[i].id /\ ~box[i].waits
  <2>1. inbox[i] \in Message
    OBVIOUS
  <2>2. box[i] = [inbox[i] EXCEPT !.waits = FALSE]
    BY <1>1
  <2>3. QED
    BY ZenonT(30), <2>1, <2>2 DEF Message
<1>3. box \in [1 .. Len(inbox) -> Message] /\ DOMAIN box = 1 .. Len(inbox)
  BY <1>1, <1>2
<1>4. box \in Seq(Message)
  BY <1>1, <1>3
<1>5. QED
  BY <1>1, <1>2, <1>3, <1>4

(* What was recorded of a call and of a message. *)
LEMMA CallRow == ASSUME Typed, NEW i \in DOMAIN calls PROVE calls[i] \in Call
<1>1. calls \in Seq(Call)
  BY DEF Typed
<1>2. QED
  BY <1>1

(* The same of a message the harness has not served. *)
LEMMA MessageRow == ASSUME Typed, NEW i \in DOMAIN inbox PROVE inbox[i] \in Message
<1>1. inbox \in Seq(Message)
  BY DEF Typed
<1>2. QED
  BY <1>1

(* An action of the UI, or the service of a look-up, disturbs nothing but what  *)
(* the UI knows.                                                                *)
LEMMA UiStep ==
    ASSUME Inv, UNCHANGED <<row, turns, cmds, up, active, worker, calls>>,
           client' \in [Requests -> Client], inbox' \in Seq(Message),
           \A r \in Requests : client'[r].turn = client[r].turn \/ client[r].turn = 0,
           ClientFacts'
    PROVE  Inv'
<1>1. \A r \in Requests : Created(r) => client'[r].turn = client[r].turn
  BY DEF Inv, CommandFacts
<1>2. Typed'
  BY DEF Inv, Typed
<1>3. CommandFacts'
  <2>1. CommandFacts
    BY DEF Inv
  <2>2. QED
    BY <1>1, <2>1 DEF CommandFacts, Created
<1>4. TurnFacts' /\ BatchFacts'
  BY DEF Inv, TurnFacts, BatchFacts, Created, Mine, First
<1>5. CallsAreExact'
  <2>1. SUFFICES ASSUME NEW i \in DOMAIN calls
                 PROVE  /\ calls[i].turn = client'[calls[i].id].turn
                        /\ cmds[calls[i].id].turn = calls[i].turn
                        /\ cmds[calls[i].id].state \notin {"absent", "pending"}
                        /\ \A j \in 1 .. i - 1 :
                             cmds[calls[j].id].seq < cmds[calls[i].id].seq
    BY DEF CallsAreExact
  <2>2. calls[i].id \in Requests
    BY CallRow DEF Inv, Call
  <2>3. QED
    BY <1>1, <2>2 DEF Inv, CallFacts, CallsAreExact, Created
<1>6. CallFacts'
  BY <1>5 DEF Inv, CallFacts, Created, Mine
<1>7. VerdictsAreEarned'
  BY DEF Inv, VerdictsAreEarned
<1>8. QED
  BY <1>2, <1>3, <1>4, <1>6, <1>7 DEF Inv

-----------------------------------------------------------------------------
(* The UI. *)

(* A message is sent: the one before is not waited for any more, and a request  *)
(* goes out again only when it is not under way, or was cut off.                *)
LEMMA SendsFacts ==
    ASSUME Inv, UNCHANGED <<turns, cmds>>,
           NEW cs \in [Requests -> Client], NEW box \in Seq(Message), NEW r \in Requests,
           NEW at \in {"sending", "asking", "resolving", "resending"},
           \A q \in Requests \ {r} : RequestFacts(cs[q], q, box),
           \A i \in DOMAIN box : ~box[i].waits /\ cs[box[i].id].turn # 0,
           cs[r].turn \in 1 .. Len(turns), cs[r].told = "nothing",
           at \in {"sending", "resending"} =>
                \/ cs[r].cut
                \/ ~Created(r) /\ \A j \in DOMAIN box : ~Creates(box[j], r),
           Sends(cs, box, r, at)
    PROVE  /\ client' \in [Requests -> Client] /\ inbox' \in Seq(Message)
           /\ \A q \in Requests : client'[q].turn = cs[q].turn
           /\ ClientFacts'
<1>1. CASE up
  <2> DEFINE m == [op |-> IF at \in {"asking", "resolving"} THEN "status" ELSE "create",
                   id |-> r, waits |-> TRUE]
  <2>1. client' = [cs EXCEPT ![r].at = at] /\ inbox' = Append(box, m)
    BY <1>1 DEF Sends
  <2>2. m \in Message /\ m.id = r /\ m.waits
        /\ (m.op = "create" => at \in {"sending", "resending"})
    BY DEF Message
  <2> HIDE DEF m
  <2>3. /\ inbox' \in Seq(Message) /\ Len(inbox') = Len(box) + 1
        /\ \A i \in 1 .. Len(box) : inbox'[i] = box[i]
        /\ inbox'[Len(box) + 1] = m /\ DOMAIN box = 1 .. Len(box)
        /\ DOMAIN inbox' = 1 .. Len(box) + 1 /\ Len(box) \in Nat
    BY <2>1, <2>2
  <2>4. /\ client' \in [Requests -> Client]
        /\ client'[r].at = at /\ client'[r].turn = cs[r].turn
        /\ client'[r].cut = cs[r].cut /\ client'[r].told = "nothing"
        /\ \A q \in Requests \ {r} : client'[q] = cs[q]
    BY <2>1 DEF Client, Phases
  <2>5. ASSUME NEW q \in Requests PROVE RequestFacts(client[q], q, inbox)'
    <3>1. CASE q = r
      BY <2>4, <3>1 DEF RequestFacts, Client
    <3>2. CASE q # r
      <4>1. RequestFacts(cs[q], q, box) /\ client'[q] = cs[q]
        BY <2>4, <3>2
      <4>2. \A i \in DOMAIN inbox' : Creates(inbox'[i], q) =>
                i \in DOMAIN box /\ Creates(box[i], q)
        BY <2>2, <2>3, <3>2 DEF Creates
      <4>3. QED
        BY <4>1, <4>2 DEF RequestFacts, Created
    <3>3. QED
      BY <3>1, <3>2
  <2>6. ASSUME NEW i \in DOMAIN inbox' PROVE MessageFacts(client, inbox, i)'
    <3>1. CASE i = Len(box) + 1
      <4>1. inbox'[i] = m
        BY <2>3, <3>1
      <4>2. ASSUME m.op = "create", ~client'[r].cut
            PROVE  ~Created(r)' /\ \A j \in DOMAIN inbox' : Creates(inbox'[j], r) => j = i
        <5>1. ~Created(r) /\ \A j \in DOMAIN box : ~Creates(box[j], r)
          BY <2>2, <2>4, <4>2
        <5>2. QED
          BY <2>3, <3>1, <5>1 DEF Created
      <4>3. QED
        BY <2>2, <2>3, <2>4, <4>1, <4>2, <3>1 DEF MessageFacts, Created
    <3>2. CASE i # Len(box) + 1
      <4>1. i \in DOMAIN box /\ inbox'[i] = box[i]
        BY <2>3, <3>2
      <4>2. box[i].id \in Requests /\ ~box[i].waits
        <5>1. box[i] \in Message
          BY <4>1
        <5>2. QED
          BY <4>1, <5>1 DEF Message
      <4>3. QED
        BY <2>4, <4>1, <4>2 DEF MessageFacts
    <3>3. QED
      BY <3>1, <3>2
  <2>7. QED
    BY <2>3, <2>4, <2>5, <2>6 DEF ClientFacts
<1>2. CASE ~up
  <2>1. client' = [cs EXCEPT ![r] = Told(cs[r], "uncertain")] /\ inbox' = box
    BY <1>2 DEF Sends
  <2>2. /\ client' \in [Requests -> Client]
        /\ client'[r].at = "idle" /\ client'[r].turn = cs[r].turn
        /\ client'[r].uncertain /\ client'[r].told = "nothing"
        /\ \A q \in Requests \ {r} : client'[q] = cs[q]
    BY <2>1, ToldRow
  <2>3. ASSUME NEW q \in Requests PROVE RequestFacts(client[q], q, inbox)'
    BY <2>1, <2>2 DEF RequestFacts, Client, Created
  <2>4. ASSUME NEW i \in DOMAIN inbox' PROVE MessageFacts(client, inbox, i)'
    <3>1. box[i] \in Message
      BY <2>1
    <3>2. box[i].id \in Requests /\ ~box[i].waits
      BY <2>1, <3>1 DEF Message
    <3>3. QED
      BY <2>1, <2>2, <3>2 DEF MessageFacts
  <2>5. QED
    BY <2>1, <2>2, <2>3, <2>4 DEF ClientFacts
<1>3. QED
  BY <1>1, <1>2 DEF Inv, Typed

(* What is known of the requests does not depend on whether the messages are    *)
(* waited for.                                                                  *)
LEMMA UnwaitedFacts ==
    ASSUME Inv, NEW box,
           box = [i \in DOMAIN inbox |-> [inbox[i] EXCEPT !.waits = FALSE]]
    PROVE  /\ box \in Seq(Message)
           /\ \A r \in Requests : RequestFacts(client[r], r, box)
           /\ \A i \in DOMAIN box : ~box[i].waits /\ client[box[i].id].turn # 0
                                    /\ box[i].id \in Requests
<1>1. /\ box \in Seq(Message) /\ DOMAIN box = DOMAIN inbox
      /\ \A i \in DOMAIN inbox : box[i].op = inbox[i].op /\ box[i].id = inbox[i].id
                                 /\ ~box[i].waits
  <2>1. inbox \in Seq(Message)
    BY DEF Inv, Typed
  <2>2. QED
    BY <2>1, Unwaited
<1>2. ASSUME NEW r \in Requests PROVE RequestFacts(client[r], r, box)
  <2>1. RequestFacts(client[r], r, inbox)
    BY DEF Inv, ClientFacts
  <2>2. QED
    BY <1>1, <2>1 DEF RequestFacts, Creates
<1>3. ASSUME NEW i \in DOMAIN box
      PROVE  client[box[i].id].turn # 0 /\ box[i].id \in Requests
  <2>1. MessageFacts(client, inbox, i) /\ inbox[i] \in Message
    BY <1>1, MessageRow DEF Inv, ClientFacts
  <2>2. QED
    BY <1>1, <2>1 DEF MessageFacts, Message
<1>4. QED
  BY <1>1, <1>2, <1>3

(* The user acts: whatever waits is cut off. *)
LEMMA ActsStep ==
    ASSUME Inv, NEW cs \in [Requests -> Client], NEW r \in Requests,
           NEW at \in {"sending", "asking"},
           \A q \in Requests \ {r} : cs[q] = CutOff[q],
           client[r].turn # 0 => cs[r].turn = client[r].turn,
           cs[r].turn \in 1 .. Len(turns), cs[r].told = "nothing",
           at = "sending" => cs[r].cut \/ client[r].turn = 0,
           Acts(cs, r, at)
    PROVE  Inv'
<1> DEFINE box == [i \in DOMAIN inbox |-> [inbox[i] EXCEPT !.waits = FALSE]]
<1>1. /\ box \in Seq(Message)
      /\ \A q \in Requests : RequestFacts(client[q], q, box)
      /\ \A i \in DOMAIN box : ~box[i].waits /\ client[box[i].id].turn # 0
                               /\ box[i].id \in Requests
  BY UnwaitedFacts
<1>2. Sends(cs, box, r, at) /\ UNCHANGED <<row, turns, cmds, up, active, worker, calls>>
  BY DEF Acts
<1> HIDE DEF box
<1>3. client \in [Requests -> Client]
  BY DEF Inv, Typed
<1>4. ASSUME NEW q \in Requests \ {r}
      PROVE  RequestFacts(cs[q], q, box) /\ cs[q].turn = client[q].turn
  <2>1. client[q] \in Client /\ RequestFacts(client[q], q, box) /\ cs[q] = CutOff[q]
    BY <1>1, <1>3
  <2>2. CASE q \in Waiting
    BY <2>1, <2>2, <1>3, CutOffRows DEF RequestFacts, Waiting, NoClient, Client
  <2>3. CASE q \notin Waiting
    BY <2>1, <2>3, <1>3, CutOffRows
  <2>4. QED
    BY <2>2, <2>3
<1>5. \A i \in DOMAIN box : ~box[i].waits /\ cs[box[i].id].turn # 0
  BY <1>1, <1>4
<1>6. client[r].turn = 0 => ~Created(r) /\ \A j \in DOMAIN box : ~Creates(box[j], r)
  BY <1>1 DEF Inv, CommandFacts, Creates
<1>7. /\ client' \in [Requests -> Client] /\ inbox' \in Seq(Message)
      /\ \A q \in Requests : client'[q].turn = cs[q].turn
      /\ ClientFacts'
  <2>1. at \in {"sending", "resending"} =>
            \/ cs[r].cut
            \/ ~Created(r) /\ \A j \in DOMAIN box : ~Creates(box[j], r)
    <3>1. at \in {"sending", "resending"} => cs[r].cut \/ client[r].turn = 0
      OBVIOUS
    <3>2. QED
      BY <1>6, <3>1
  <2>2. QED
    BY <1>1, <1>2, <1>4, <1>5, <2>1, SendsFacts
<1>8. QED
  BY <1>2, <1>4, <1>7, UiStep

(* A request is begun only once, for a turn that was started. *)
LEMMA BeginStep ==
    ASSUME Inv, NEW r \in Requests, Begin(r)
    PROVE  Inv'
<1>1. PICK t \in DOMAIN turns : Acts([CutOff EXCEPT ![r].turn = t], r, "sending")
  BY DEF Begin
<1>2. client[r] = NoClient /\ client \in [Requests -> Client] /\ t \in 1 .. Len(turns)
  BY DEF Begin, Inv, Typed
<1> DEFINE cs == [CutOff EXCEPT ![r].turn = t]
<1>3. CutOff[r] = client[r] /\ CutOff \in [Requests -> Client]
  <2>1. client[r].at = "idle"
    BY <1>2 DEF NoClient
  <2>2. r \notin Waiting
    BY <2>1 DEF Waiting
  <2>3. QED
    BY <1>2, <2>2, CutOffRows
<1>4. /\ cs \in [Requests -> Client] /\ cs[r].turn = t /\ cs[r].told = "nothing"
      /\ \A q \in Requests \ {r} : cs[q] = CutOff[q]
  <2>1. NoClient.told = "nothing"
    BY DEF NoClient
  <2>2. t \in Nat /\ CutOff[r] \in Client
    BY <1>2, <1>3
  <2>3. /\ [CutOff[r] EXCEPT !.turn = t] \in Client
        /\ [CutOff[r] EXCEPT !.turn = t].turn = t
        /\ [CutOff[r] EXCEPT !.turn = t].told = CutOff[r].told
    BY <2>2 DEF Client
  <2>4. QED
    BY <1>2, <1>3, <2>1, <2>3
<1>5. client[r].turn = 0
  BY <1>2 DEF NoClient
<1>6. Acts(cs, r, "sending")
  BY <1>1
<1> HIDE DEF cs
<1>7. QED
  BY <1>2, <1>4, <1>5, <1>6, ActsStep

(* A request is sent again without a look-up only when it was cut off. *)
LEMMA AgainStep ==
    ASSUME Inv, NEW r \in Requests, Again(r)
    PROVE  Inv'
<1> DEFINE at == IF client[r].uncertain THEN "asking" ELSE "sending"
<1>1. client[r].turn # 0 /\ client[r].at # "gone" /\ Acts(CutOff, r, at)
  BY DEF Again
<1>2. client \in [Requests -> Client] /\ RequestFacts(client[r], r, inbox)
  BY DEF Inv, Typed, ClientFacts
<1>3. /\ CutOff \in [Requests -> Client] /\ CutOff[r].turn = client[r].turn
      /\ CutOff[r].told = client[r].told
      /\ at = "sending" => CutOff[r].cut
  BY <1>1, <1>2, CutOffRows DEF Waiting, RequestFacts
<1>4. client[r].told = "nothing" /\ client[r].turn \in 1 .. Len(turns)
  <2>1. client[r] \in Client /\ Len(turns) \in Nat
    BY <1>2 DEF Inv, Typed
  <2>2. QED
    BY <1>1, <1>2, <2>1 DEF RequestFacts, Client
<1>5. at \in {"sending", "asking"}
  OBVIOUS
<1> HIDE DEF at
<1>6. QED
  BY <1>1, <1>3, <1>4, <1>5, ActsStep

(* Nobody answers in time: a mutation is looked up, a look-up is given up. *)
LEMMA TimesOutStep ==
    ASSUME Inv, NEW r \in Requests, TimesOut(r)
    PROVE  Inv'
<1> DEFINE box == [i \in DOMAIN inbox |-> [inbox[i] EXCEPT !.waits = FALSE]]
<1>1. /\ box \in Seq(Message)
      /\ \A q \in Requests : RequestFacts(client[q], q, box)
      /\ \A i \in DOMAIN box : ~box[i].waits /\ client[box[i].id].turn # 0
                               /\ box[i].id \in Requests
  BY UnwaitedFacts
<1>2. /\ AfterSilence(client, box, r) /\ r \in Waiting
      /\ UNCHANGED <<row, turns, cmds, up, active, worker, calls>>
  BY DEF TimesOut
<1> HIDE DEF box
<1>3. client \in [Requests -> Client] /\ Len(turns) \in Nat
  BY DEF Inv, Typed
<1>4. /\ client[r] \in Client /\ client[r].at \notin {"idle", "gone"}
      /\ client[r].told = "nothing" /\ client[r].turn \in 1 .. Len(turns)
  <2>1. client[r] \in Client /\ RequestFacts(client[r], r, box) /\ client[r].at \notin {"idle", "gone"}
    BY <1>1, <1>2, <1>3 DEF Waiting
  <2>2. NoClient.at = "idle"
    BY DEF NoClient
  <2>3. QED
    BY <1>3, <2>1, <2>2 DEF RequestFacts, Client
<1>5. CASE client[r].at # "sending"
  <2>1. client' = [client EXCEPT ![r] = Told(client[r], "uncertain")] /\ inbox' = box
    BY <1>2, <1>5 DEF AfterSilence
  <2>2. /\ client' \in [Requests -> Client] /\ client'[r].at = "idle"
        /\ client'[r].turn = client[r].turn
        /\ client'[r].uncertain /\ client'[r].told = "nothing"
        /\ \A q \in Requests \ {r} : client'[q] = client[q]
    BY <2>1, <1>3, <1>4, ToldRow
  <2>3. ASSUME NEW q \in Requests PROVE RequestFacts(client[q], q, inbox)'
    BY <1>1, <1>2, <1>4, <2>1, <2>2 DEF RequestFacts, Created
  <2>4. \A i \in DOMAIN inbox' : MessageFacts(client, inbox, i)'
    BY <1>1, <1>4, <2>1, <2>2 DEF MessageFacts
  <2>5. ClientFacts'
    BY <2>3, <2>4 DEF ClientFacts
  <2>6. \A q \in Requests : client'[q].turn = client[q].turn
    BY <2>2
  <2>7. QED
    BY <1>1, <1>2, <2>1, <2>2, <2>5, <2>6, UiStep
<1>6. CASE client[r].at = "sending"
  <2> DEFINE cs == [client EXCEPT ![r].uncertain = TRUE]
  <2>1. Sends(cs, box, r, "resolving")
    BY <1>2, <1>6 DEF AfterSilence
  <2>2. /\ cs \in [Requests -> Client] /\ cs[r].turn = client[r].turn
        /\ cs[r].told = client[r].told
        /\ \A q \in Requests \ {r} : cs[q] = client[q]
    BY <1>3, <1>4 DEF Client
  <2> HIDE DEF cs
  <2>3. \A q \in Requests \ {r} : RequestFacts(cs[q], q, box)
    BY <1>1, <2>2
  <2>4. \A i \in DOMAIN box : ~box[i].waits /\ cs[box[i].id].turn # 0
    BY <1>1, <2>2
  <2>5. /\ client' \in [Requests -> Client] /\ inbox' \in Seq(Message)
        /\ \A q \in Requests : client'[q].turn = cs[q].turn
        /\ ClientFacts'
    BY <1>1, <1>2, <1>4, <2>1, <2>2, <2>3, <2>4, SendsFacts
  <2>6. \A q \in Requests : client'[q].turn = client[q].turn
    BY <2>2, <2>5
  <2>7. QED
    BY <1>2, <2>5, <2>6, UiStep
<1>7. QED
  BY <1>5, <1>6

(* The message served, and those that stay. *)
LEMMA Served ==
    ASSUME Typed, inbox # <<>>
    PROVE  /\ Head(inbox) = inbox[1] /\ Head(inbox) \in Message
           /\ 1 \in DOMAIN inbox /\ Len(inbox) \in Nat /\ DOMAIN inbox = 1 .. Len(inbox)
           /\ Tail(inbox) \in Seq(Message) /\ Len(Tail(inbox)) = Len(inbox) - 1
           /\ DOMAIN Tail(inbox) = 1 .. Len(inbox) - 1
           /\ \A i \in 1 .. Len(inbox) - 1 : Tail(inbox)[i] = inbox[i + 1]
<1>1. inbox \in Seq(Message)
  BY DEF Typed
<1>2. QED
  BY <1>1

(* What is known of the requests does not grow with a message less. *)
LEMMA TailFacts ==
    ASSUME Inv, inbox # <<>>
    PROVE  /\ \A r \in Requests : RequestFacts(client[r], r, Tail(inbox))
           /\ \A i \in DOMAIN Tail(inbox) :
                MessageFacts(client, Tail(inbox), i) /\ Tail(inbox)[i].id \in Requests
<1> DEFINE box == Tail(inbox)
<1>1. /\ Len(inbox) \in Nat /\ DOMAIN inbox = 1 .. Len(inbox)
      /\ DOMAIN box = 1 .. Len(inbox) - 1 /\ Len(box) = Len(inbox) - 1
      /\ \A i \in 1 .. Len(inbox) - 1 : box[i] = inbox[i + 1]
  BY Served DEF Inv
<1> HIDE DEF box
<1>2. ASSUME NEW r \in Requests PROVE RequestFacts(client[r], r, box)
  <2>1. RequestFacts(client[r], r, inbox)
    BY DEF Inv, ClientFacts
  <2>2. \A i \in DOMAIN box : i + 1 \in DOMAIN inbox /\ box[i] = inbox[i + 1]
    BY <1>1
  <2>3. QED
    BY <2>1, <2>2 DEF RequestFacts
<1>3. ASSUME NEW i \in DOMAIN box
      PROVE  MessageFacts(client, box, i) /\ box[i].id \in Requests
  <2>1. i + 1 \in DOMAIN inbox /\ box[i] = inbox[i + 1] /\ i \in Nat
    BY <1>1
  <2>2. MessageFacts(client, inbox, i + 1) /\ inbox[i + 1] \in Message
    BY <2>1, MessageRow DEF Inv, ClientFacts
  <2>3. \A j \in DOMAIN box : j + 1 \in DOMAIN inbox /\ box[j] = inbox[j + 1] /\ j \in Nat
    BY <1>1
  <2>4. box[i].waits => i = Len(box)
    BY <1>1, <2>1, <2>2 DEF MessageFacts
  <2>5. ASSUME NEW j \in DOMAIN box,
               \A k \in DOMAIN inbox : Creates(inbox[k], box[i].id) => k = i + 1,
               Creates(box[j], box[i].id)
        PROVE  j = i
    <3>1. j + 1 = i + 1
      BY <2>3, <2>5
    <3>2. QED
      BY <2>1, <2>3, <3>1
  <2>6. QED
    BY <2>1, <2>2, <2>4, <2>5 DEF MessageFacts, Message
<1>4. QED
  BY <1>2, <1>3 DEF box

(* The message that is waited for is the last one: its service empties the box. *)
LEMMA ServedLast ==
    ASSUME Inv, inbox # <<>>, Head(inbox).waits
    PROVE  /\ DOMAIN Tail(inbox) = {} /\ Tail(inbox) \in Seq(Message)
           /\ Head(inbox).id \in Requests
           /\ LET c == client[Head(inbox).id]
              IN  /\ c \in Client /\ c.at \notin {"idle", "gone"}
                  /\ c.told = "nothing" /\ c.turn \in 1 .. Len(turns)
                  /\ Head(inbox).op = "create" /\ ~c.cut => ~Created(Head(inbox).id)
<1>1. /\ Head(inbox) = inbox[1] /\ Head(inbox) \in Message
      /\ 1 \in DOMAIN inbox /\ Len(inbox) \in Nat
      /\ DOMAIN Tail(inbox) = 1 .. Len(inbox) - 1 /\ Tail(inbox) \in Seq(Message)
  BY Served DEF Inv
<1>2. MessageFacts(client, inbox, 1)
  BY <1>1 DEF Inv, ClientFacts
<1>3. Len(inbox) = 1
  BY <1>1, <1>2 DEF MessageFacts
<1>4. PICK r \in Requests : r = Head(inbox).id
  BY <1>1 DEF Message
<1>5. client[r] \in Client /\ RequestFacts(client[r], r, inbox) /\ Len(turns) \in Nat
  BY DEF Inv, Typed, ClientFacts
<1>6. /\ client[r].turn # 0 /\ client[r].at \notin {"idle", "gone"}
      /\ Head(inbox).op = "create" /\ ~client[r].cut => ~Created(r)
  BY <1>1, <1>2, <1>4 DEF MessageFacts
<1>7. client[r].told = "nothing" /\ client[r].turn \in 1 .. Len(turns)
  BY <1>5, <1>6 DEF RequestFacts, Client
<1>8. QED
  BY <1>1, <1>3, <1>4, <1>5, <1>6, <1>7

(* The UI is told the state of its command: what it hears is true. *)
LEMMA ToldFacts ==
    ASSUME Inv, inbox # <<>>, Head(inbox).waits, UNCHANGED turns,
           NEW r \in Requests, r = Head(inbox).id,
           NEW outcome \in {"accepted", "rejected", "uncertain"},
           outcome = "accepted" => Created(r)',
           outcome = "rejected" => cmds'[r].state = "rejected" \/ client[r].cut \/ ~Created(r)',
           \A q \in Requests \ {r} : cmds'[q] = cmds[q],
           client' = [client EXCEPT ![r] = Told(client[r], outcome)], inbox' = Tail(inbox)
    PROVE  /\ client' \in [Requests -> Client] /\ inbox' \in Seq(Message)
           /\ \A q \in Requests : client'[q].turn = client[q].turn
           /\ ClientFacts'
<1>1. /\ DOMAIN inbox' = {} /\ inbox' \in Seq(Message)
      /\ client[r] \in Client /\ client[r].at \notin {"idle", "gone"}
      /\ client[r].told = "nothing" /\ client[r].turn \in 1 .. Len(turns)
  BY ServedLast
<1>2. client \in [Requests -> Client] /\ Len(turns) \in Nat
  BY DEF Inv, Typed
<1>3. /\ client' \in [Requests -> Client] /\ client'[r] = Told(client[r], outcome)
      /\ \A q \in Requests \ {r} : client'[q] = client[q]
  BY <1>1, <1>2, ToldRow
<1>4. /\ client'[r].turn = client[r].turn
      /\ outcome = "uncertain" => /\ client'[r].at = "idle" /\ client'[r].uncertain
                                  /\ client'[r].told = "nothing"
      /\ outcome # "uncertain" => /\ client'[r].at = "gone" /\ client'[r].told = outcome
                                  /\ client'[r].cut = (client[r].cut /\ outcome = "rejected")
  BY <1>1, <1>3, ToldRow
<1>5. ASSUME NEW q \in Requests PROVE RequestFacts(client[q], q, inbox)'
  <2>1. CASE q = r
    <3>1. client[r].cut \in BOOLEAN
      BY <1>1 DEF Client
    <3>2. QED
      BY <1>1, <1>2, <1>4, <2>1, <3>1 DEF RequestFacts, Created
  <2>2. CASE q # r
    <3>1. RequestFacts(client[q], q, Tail(inbox)) /\ client'[q] = client[q] /\ cmds'[q] = cmds[q]
      BY <1>3, <2>2, TailFacts
    <3>2. QED
      BY <1>1, <3>1 DEF RequestFacts, Created
  <2>3. QED
    BY <2>1, <2>2
<1>6. \A q \in Requests : client'[q].turn = client[q].turn
  BY <1>3, <1>4
<1>7. QED
  BY <1>1, <1>3, <1>5, <1>6 DEF ClientFacts

(* A look-up is served: absence allows one more send. *)
LEMMA ServeStatusStep ==
    ASSUME Inv, ServeStatus
    PROVE  Inv'
<1>1. /\ inbox # <<>> /\ Head(inbox).op = "status"
      /\ UNCHANGED <<row, turns, cmds, up, active, worker, calls>>
      /\ IF Head(inbox).waits
         THEN Looked(Tail(inbox), Head(inbox).id, cmds[Head(inbox).id].state)
         ELSE inbox' = Tail(inbox) /\ UNCHANGED client
  BY DEF ServeStatus, Serving
<1>2. client \in [Requests -> Client] /\ cmds \in [Requests -> Command]
  BY DEF Inv, Typed
<1>3. CASE ~Head(inbox).waits
  <2>1. inbox' = Tail(inbox) /\ client' = client
    BY <1>1, <1>3
  <2>2. inbox' \in Seq(Message)
    BY <1>1, <2>1, Served DEF Inv
  <2>3. ASSUME NEW q \in Requests PROVE RequestFacts(client[q], q, inbox)'
    <3>1. RequestFacts(client[q], q, Tail(inbox))
      BY <1>1, TailFacts
    <3>2. QED
      BY <1>1, <2>1, <3>1 DEF RequestFacts, Created
  <2>4. ASSUME NEW i \in DOMAIN inbox' PROVE MessageFacts(client, inbox, i)'
    <3>1. MessageFacts(client, Tail(inbox), i)
      BY <1>1, <2>1, TailFacts
    <3>2. QED
      BY <1>1, <2>1, <3>1 DEF MessageFacts, Created
  <2>5. ClientFacts'
    BY <2>3, <2>4 DEF ClientFacts
  <2>6. QED
    BY <1>1, <1>2, <2>1, <2>2, <2>5, UiStep
<1>4. CASE Head(inbox).waits
  <2>1. PICK r \in Requests : r = Head(inbox).id
    BY <1>1, <1>4, ServedLast
  <2>2. Looked(Tail(inbox), r, cmds[r].state)
    BY <1>1, <1>4, <2>1
  <2>3. /\ DOMAIN Tail(inbox) = {} /\ Tail(inbox) \in Seq(Message)
        /\ client[r] \in Client /\ client[r].told = "nothing"
        /\ client[r].turn \in 1 .. Len(turns)
    BY <1>1, <1>4, <2>1, ServedLast
  <2>4. CASE cmds[r].state # "absent"
    <3>1. PICK outcome \in {"accepted", "rejected", "uncertain"} :
              /\ outcome = CommandResult(cmds[r].state)
              /\ outcome = "rejected" => cmds[r].state = "rejected"
      BY <1>2, ResultWord DEF Command
    <3>2. client' = [client EXCEPT ![r] = Told(client[r], outcome)] /\ inbox' = Tail(inbox)
      BY <2>2, <2>4, <3>1 DEF Looked
    <3>3. Created(r)' /\ (outcome = "rejected" => cmds'[r].state = "rejected")
      BY <1>1, <2>4, <3>1 DEF Created
    <3>4. QED
      BY <1>1, <1>4, <2>1, <3>2, <3>3, ToldFacts, UiStep
  <2>5. CASE cmds[r].state = "absent" /\ client[r].resent
    <3>1. client' = [client EXCEPT ![r] = Told(client[r], "uncertain")] /\ inbox' = Tail(inbox)
      BY <2>2, <2>5 DEF Looked
    <3>2. QED
      BY <1>1, <1>4, <2>1, <3>1, ToldFacts, UiStep
  <2>6. CASE cmds[r].state = "absent" /\ ~client[r].resent
    <3> DEFINE cs == [client EXCEPT ![r].resent = TRUE]
               at == IF client[r].at = "asking" THEN "sending" ELSE "resending"
    <3>1. Sends(cs, Tail(inbox), r, at)
      BY <2>2, <2>6 DEF Looked
    <3>2. /\ cs \in [Requests -> Client] /\ cs[r].turn = client[r].turn
          /\ cs[r].told = client[r].told
          /\ \A q \in Requests \ {r} : cs[q] = client[q]
      BY <1>2, <2>3 DEF Client
    <3>3. at \in {"sending", "asking", "resolving", "resending"}
      OBVIOUS
    <3> HIDE DEF cs, at
    <3>4. \A q \in Requests \ {r} : RequestFacts(cs[q], q, Tail(inbox))
      BY <1>1, <3>2, TailFacts
    <3>5. ~Created(r) /\ \A j \in DOMAIN Tail(inbox) : ~Creates(Tail(inbox)[j], r)
      BY <2>3, <2>6 DEF Created
    <3>6. \A i \in DOMAIN Tail(inbox) : ~Tail(inbox)[i].waits /\ cs[Tail(inbox)[i].id].turn # 0
      BY <2>3
    <3>7. /\ client' \in [Requests -> Client] /\ inbox' \in Seq(Message)
          /\ \A q \in Requests : client'[q].turn = cs[q].turn
          /\ ClientFacts'
      BY <1>1, <2>3, <3>1, <3>2, <3>3, <3>4, <3>5, <3>6, SendsFacts
    <3>8. \A q \in Requests : client'[q].turn = client[q].turn
      BY <3>2, <3>7
    <3>9. QED
      BY <1>1, <3>7, <3>8, UiStep
  <2>7. QED
    BY <2>4, <2>5, <2>6
<1>5. QED
  BY <1>3, <1>4

(* A create request that creates nothing, or a look-up, of a sender that left. *)
LEMMA UnheardFacts ==
    ASSUME Inv, inbox # <<>>, inbox' = Tail(inbox), UNCHANGED <<client, turns>>,
           \A q \in Requests :
              \/ cmds'[q] = cmds[q]
              \/ q = Head(inbox).id /\ Head(inbox).op = "create" /\ ~Created(q)
                 /\ cmds'[q].state = "pending"
    PROVE  inbox' \in Seq(Message) /\ ClientFacts'
<1>1. /\ Head(inbox) = inbox[1] /\ Head(inbox) \in Message
      /\ 1 \in DOMAIN inbox /\ Len(inbox) \in Nat /\ DOMAIN inbox = 1 .. Len(inbox)
      /\ inbox' \in Seq(Message)
      /\ DOMAIN inbox' = 1 .. Len(inbox) - 1
      /\ \A i \in 1 .. Len(inbox) - 1 : inbox'[i] = inbox[i + 1]
  BY Served DEF Inv
<1>2. ASSUME NEW q \in Requests PROVE RequestFacts(client[q], q, inbox)'
  <2>1. RequestFacts(client[q], q, Tail(inbox)) /\ RequestFacts(client[q], q, inbox)
    BY TailFacts DEF Inv, ClientFacts
  <2>2. CASE cmds'[q] = cmds[q]
    BY <2>1, <2>2 DEF RequestFacts, Created
  <2>3. CASE q = Head(inbox).id /\ Head(inbox).op = "create" /\ ~Created(q)
             /\ cmds'[q].state = "pending"
    <3>1. Creates(inbox[1], q)
      BY <1>1, <2>3 DEF Creates
    <3>2. cmds[q].state # "rejected"
      BY <2>3 DEF Created
    <3>3. ~(client[q].told = "rejected" /\ ~client[q].cut)
      BY <1>1, <2>1, <3>1, <3>2 DEF RequestFacts
    <3>4. Created(q)'
      BY <2>3 DEF Created
    <3>5. QED
      BY <2>1, <3>3, <3>4 DEF RequestFacts
  <2>4. QED
    BY <2>2, <2>3
<1>3. ASSUME NEW i \in DOMAIN inbox' PROVE MessageFacts(client, inbox, i)'
  <2>1. MessageFacts(client, Tail(inbox), i) /\ Tail(inbox)[i].id \in Requests
    BY TailFacts
  <2>2. PICK q \in Requests : q = inbox'[i].id
    BY <2>1
  <2>3. CASE cmds'[q] = cmds[q]
    BY <2>1, <2>2, <2>3 DEF MessageFacts, Created
  <2>4. CASE q = Head(inbox).id /\ Head(inbox).op = "create"
    <3>1. Creates(inbox[1], q)
      BY <1>1, <2>4 DEF Creates
    <3>2. i + 1 \in DOMAIN inbox /\ inbox'[i] = inbox[i + 1] /\ i + 1 # 1
      BY <1>1
    <3>3. MessageFacts(client, inbox, i + 1)
      BY <3>2 DEF Inv, ClientFacts
    <3>4. ~(inbox'[i].waits /\ inbox'[i].op = "create" /\ ~client[q].cut)
      BY <1>1, <2>2, <3>1, <3>2, <3>3 DEF MessageFacts
    <3>5. QED
      BY <2>1, <2>2, <3>4 DEF MessageFacts
  <2>5. QED
    BY <2>3, <2>4
<1>4. QED
  BY <1>1, <1>2, <1>3 DEF ClientFacts

(* A command gets the number after all there are. *)
LEMMA NextNumber ==
    ASSUME Inv
    PROVE  LET k == Cardinality({r \in Requests : Created(r)})
           IN  /\ k \in Nat /\ NextSequence = k + 1
               /\ \A r \in Requests : cmds[r].seq \in 0 .. k
<1> DEFINE made == {r \in Requests : Created(r)}
           k == Cardinality(made)
           numbers == {0} \union {cmds[q].seq : q \in Requests}
<1>1. k \in Nat
  BY KindsAssumption, FS_Subset, FS_CardinalityType
<1>2. {cmds[r].seq : r \in Requests} \ {0} = 1 .. k
  BY DEF Inv, CommandFacts
<1> HIDE DEF k, made
<1>3. numbers = 0 .. k
  BY <1>1, <1>2
<1>4. Max(numbers) = k
  BY <1>1, <1>3 DEF Max
<1>5. NextSequence = k + 1
  BY <1>1, <1>4 DEF NextSequence
<1>6. \A r \in Requests : cmds[r].seq \in numbers
  OBVIOUS
<1>7. QED
  BY <1>1, <1>3, <1>5, <1>6 DEF k, made

(* A new command belongs to the turn in memory, which no other is younger than. *)
LEMMA CreateFacts ==
    ASSUME Inv, NEW r \in Requests, ~Created(r), NEW t, t = client[r].turn,
           t \in 1 .. Len(turns), active = t,
           cmds' = [cmds EXCEPT ![r] = [state |-> "pending", turn |-> t, seq |-> NextSequence]],
           UNCHANGED <<row, turns, up, active, worker, calls>>,
           \A q \in Requests : client'[q].turn = client[q].turn
    PROVE  /\ cmds' \in [Requests -> Command]
           /\ CommandFacts' /\ TurnFacts' /\ BatchFacts' /\ CallFacts' /\ VerdictsAreEarned'
<1> DEFINE made == {q \in Requests : Created(q)}
           k == Cardinality(made)
<1>1. k \in Nat /\ NextSequence = k + 1 /\ \A q \in Requests : cmds[q].seq \in 0 .. k
  BY NextNumber
<1>2. cmds \in [Requests -> Command] /\ Len(turns) \in Nat /\ active \in Nat
  BY DEF Inv, Typed
<1>3. /\ cmds'[r].state = "pending" /\ cmds'[r].turn = t /\ cmds'[r].seq = k + 1
      /\ cmds' \in [Requests -> Command]
      /\ \A q \in Requests \ {r} : cmds'[q] = cmds[q]
  BY <1>1, <1>2 DEF Command, CommandStates
<1>4. made' = made \union {r} /\ r \notin made
  BY <1>3 DEF Created
<1>5. Cardinality(made') = k + 1
  <2>1. IsFiniteSet(made)
    BY KindsAssumption, FS_Subset
  <2>2. QED
    BY <1>4, <2>1, FS_AddElement
<1>6. {cmds[q].seq : q \in Requests} \ {0} = 1 .. k
  BY DEF Inv, CommandFacts
<1>7. {cmds'[q].seq : q \in Requests} \ {0} = 1 .. Cardinality(made')
  <2> HIDE DEF k, made
  <2>1. cmds[r].seq = 0
    BY DEF Inv, CommandFacts, NoCommand
  <2>2. ASSUME NEW n \in 1 .. k + 1 PROVE n \in {cmds'[q].seq : q \in Requests} \ {0}
    <3>1. CASE n = k + 1
      BY <1>1, <1>3, <3>1
    <3>2. CASE n # k + 1
      <4>1. n \in {cmds[q].seq : q \in Requests} /\ n # 0
        BY <1>1, <1>6, <3>2
      <4>2. PICK q \in Requests : n = cmds[q].seq
        BY <4>1
      <4>3. QED
        BY <1>3, <2>1, <4>1, <4>2
    <3>3. QED
      BY <3>1, <3>2
  <2>3. ASSUME NEW n \in {cmds'[q].seq : q \in Requests} \ {0} PROVE n \in 1 .. k + 1
    <3>1. PICK q \in Requests : n = cmds'[q].seq /\ n # 0
      BY <2>3
    <3>2. QED
      BY <1>1, <1>3, <3>1
  <2>4. QED
    BY <1>5, <2>2, <2>3
<1> HIDE DEF k, made
<1>8. CommandFacts'
  <2>1. CommandFacts
    BY DEF Inv
  <2>2. ASSUME NEW q \in Requests
        PROVE  /\ ~Created(q)' => cmds'[q] = NoCommand
               /\ Created(q)' => /\ cmds'[q].seq # 0 /\ cmds'[q].turn = client'[q].turn
                                 /\ cmds'[q].turn \in 1 .. Len(turns')
    BY <1>1, <1>3, <2>1 DEF CommandFacts, Created
  <2>3. \A q \in Requests : Created(q) => cmds[q].turn <= t
    BY DEF Inv, TurnFacts
  <2>4. ASSUME NEW q \in Requests, NEW p \in Requests, Created(q)', Created(p)'
        PROVE  /\ cmds'[q].seq = cmds'[p].seq => q = p
               /\ cmds'[q].turn < cmds'[p].turn => cmds'[q].seq < cmds'[p].seq
    <3>1. CASE q = r /\ p = r
      BY <1>2, <1>3, <3>1
    <3>2. CASE q = r /\ p # r
      <4>1. Created(p) /\ cmds[p].turn <= t /\ cmds[p] \in Command /\ cmds'[p] = cmds[p]
        BY <1>2, <1>3, <2>3, <2>4, <3>2 DEF Created
      <4>2. QED
        BY <1>1, <1>2, <1>3, <3>2, <4>1 DEF Command
    <3>3. CASE q # r /\ p = r
      BY <1>1, <1>3, <3>3
    <3>4. CASE q # r /\ p # r
      BY <1>3, <2>1, <2>4, <3>4 DEF CommandFacts, Created
    <3>5. QED
      BY <3>1, <3>2, <3>3, <3>4
  <2>5. {cmds'[q].seq : q \in Requests} \ {0} = 1 .. Cardinality({q \in Requests : Created(q)'})
    BY <1>7 DEF made
  <2>6. QED
    BY <2>2, <2>4, <2>5 DEF CommandFacts
<1>9. TurnFacts'
  <2>1. TurnFacts /\ worker \in Worker
    BY DEF Inv, Typed
  <2>2. \A q \in Requests : Created(q)' => Created(q) \/ cmds'[q].turn = active
    BY <1>3 DEF Created
  <2>3. \A q \in Requests : Created(q) => cmds'[q] = cmds[q]
    BY <1>3
  <2>4. QED
    BY <1>2, <2>1, <2>2, <2>3 DEF TurnFacts, Worker
<1>10. worker.applied[r] = "no" /\ r \notin worker.batch
  BY DEF Inv, CallFacts, BatchFacts, Mine, Typed, Worker, Applied
<1>11. BatchFacts'
  <2>1. BatchFacts /\ worker.batch \subseteq Requests
    BY DEF Inv, Typed, Worker
  <2>2. \A q \in worker.batch : cmds'[q] = cmds[q] /\ q \in Requests
    BY <1>3, <1>10, <2>1
  <2>3. \A q \in worker.batch : cmds[q].seq < cmds'[r].seq
    BY <1>1, <1>3, <2>2
  <2>4. \A q \in worker.batch : (Mine(q) <=> Mine(q)') /\ (First(q) <=> First(q)')
    BY <2>2 DEF Mine, Created, First
  <2>5. QED
    BY <1>3, <2>1, <2>2, <2>3, <2>4 DEF BatchFacts, Mine, Created
<1>12. CallFacts'
  <2>1. \A i \in DOMAIN calls : /\ calls[i].id \in Requests /\ calls[i].id # r
                                /\ cmds'[calls[i].id] = cmds[calls[i].id]
    BY <1>3, CallRow DEF Inv, CallFacts, CallsAreExact, Created, Call
  <2>2. CallFacts /\ DOMAIN calls = 1 .. Len(calls) /\ Len(calls) \in Nat
    BY DEF Inv, Typed
  <2>3. CallsAreExact'
    BY <2>1, <2>2 DEF CallFacts, CallsAreExact
  <2>4. \A i \in DOMAIN calls : cmds[calls[i].id].seq < cmds'[r].seq
    BY <1>1, <1>3, <2>1
  <2>5. QED
    BY <1>3, <2>1, <2>2, <2>3, <2>4 DEF CallFacts, Mine, Created
<1>13. VerdictsAreEarned'
  BY <1>3 DEF Inv, VerdictsAreEarned
<1>14. QED
  BY <1>3, <1>8, <1>9, <1>11, <1>12, <1>13

(* A request to create a command is served, whoever still waits for it. *)
LEMMA ServeCreateStep ==
    ASSUME Inv, ServeCreate
    PROVE  Inv'
<1>1. /\ inbox # <<>> /\ Head(inbox).op = "create" /\ inbox' = Tail(inbox)
      /\ UNCHANGED <<row, turns, up, active, worker, calls, budget>>
  BY DEF ServeCreate, Serving
<1>2. /\ Head(inbox) = inbox[1] /\ Head(inbox) \in Message /\ 1 \in DOMAIN inbox
      /\ inbox' \in Seq(Message)
  BY <1>1, Served DEF Inv
<1>3. PICK r \in Requests : r = Head(inbox).id
  BY <1>2 DEF Message
<1> DEFINE t == client[r].turn
           Answer(outcome) == client' = IF Head(inbox).waits
                                        THEN [client EXCEPT ![r] = Told(client[r], outcome)]
                                        ELSE client
           new == [state |-> "pending", turn |-> t, seq |-> NextSequence]
<1>4. client \in [Requests -> Client] /\ cmds \in [Requests -> Command]
      /\ Len(turns) \in Nat /\ active \in 0 .. Len(turns)
  BY DEF Inv, Typed
<1>5. t \in 1 .. Len(turns)
  <2>1. MessageFacts(client, inbox, 1) /\ RequestFacts(client[r], r, inbox)
    BY <1>2 DEF Inv, ClientFacts
  <2>2. QED
    BY <1>2, <1>3, <1>4, <2>1 DEF MessageFacts, RequestFacts, Client
<1>6. \/ ~Bound(t) /\ Answer("rejected") /\ UNCHANGED cmds
      \/ cmds[r].state # "absent" /\ Answer(CommandResult(cmds[r].state)) /\ UNCHANGED cmds
      \/ cmds[r].state = "absent" /\ Answer("rejected") /\ UNCHANGED cmds
      \/ /\ Bound(t) /\ cmds[r].state = "absent"
         /\ cmds' = [cmds EXCEPT ![r] = new] /\ Answer("accepted")
  BY <1>3 DEF ServeCreate
<1>7. Head(inbox).waits => client[r].cut \/ ~Created(r)
  BY <1>1, <1>3, ServedLast
<1> HIDE DEF Answer, t
<1>8. ASSUME UNCHANGED cmds, NEW outcome \in {"accepted", "rejected", "uncertain"},
             Answer(outcome), outcome = "accepted" => Created(r),
             outcome = "rejected" => cmds[r].state = "rejected" \/ client[r].cut \/ ~Created(r)
                                     \/ ~Head(inbox).waits
      PROVE  Inv'
  <2>1. CASE Head(inbox).waits
    <3>1. client' = [client EXCEPT ![r] = Told(client[r], outcome)]
      BY <1>8, <2>1 DEF Answer
    <3>2. outcome = "accepted" => Created(r)'
      BY <1>8 DEF Created
    <3>3. outcome = "rejected" => cmds'[r].state = "rejected" \/ client[r].cut \/ ~Created(r)'
      BY <1>8, <2>1 DEF Created
    <3>4. /\ client' \in [Requests -> Client] /\ inbox' \in Seq(Message)
          /\ \A q \in Requests : client'[q].turn = client[q].turn
          /\ ClientFacts'
      BY <1>1, <1>3, <1>8, <2>1, <3>1, <3>2, <3>3, ToldFacts
    <3>5. QED
      BY <1>1, <1>8, <3>4, UiStep
  <2>2. CASE ~Head(inbox).waits
    <3>1. client' = client
      BY <1>8, <2>2 DEF Answer
    <3>2. ClientFacts'
      BY <1>1, <1>8, <3>1, UnheardFacts
    <3>3. QED
      BY <1>1, <1>2, <1>4, <1>8, <3>1, <3>2, UiStep
  <2>3. QED
    BY <2>1, <2>2
<1>9. CASE ~Bound(t) /\ Answer("rejected") /\ UNCHANGED cmds
  BY <1>7, <1>8, <1>9
<1>10. CASE cmds[r].state # "absent" /\ Answer(CommandResult(cmds[r].state)) /\ UNCHANGED cmds
  <2>1. PICK outcome \in {"accepted", "rejected", "uncertain"} :
            /\ outcome = CommandResult(cmds[r].state)
            /\ outcome = "rejected" => cmds[r].state = "rejected"
    BY <1>4, ResultWord DEF Command
  <2>2. QED
    BY <1>8, <1>10, <2>1 DEF Created
<1>11. CASE cmds[r].state = "absent" /\ Answer("rejected") /\ UNCHANGED cmds
  BY <1>8, <1>11 DEF Created
<1>12. CASE /\ Bound(t) /\ cmds[r].state = "absent"
            /\ cmds' = [cmds EXCEPT ![r] = new] /\ Answer("accepted")
  <2>1. ~Created(r) /\ active = t
    BY <1>12 DEF Created, Bound
  <2>2. cmds'[r].state = "pending" /\ \A q \in Requests \ {r} : cmds'[q] = cmds[q]
    BY <1>4, <1>12
  <2> HIDE DEF new
  <2>3. /\ client' \in [Requests -> Client] /\ ClientFacts'
        /\ \A q \in Requests : client'[q].turn = client[q].turn
    <3>1. CASE Head(inbox).waits
      <4>1. client' = [client EXCEPT ![r] = Told(client[r], "accepted")]
        BY <1>12, <3>1 DEF Answer
      <4>2. Created(r)'
        BY <2>2 DEF Created
      <4>3. QED
        BY <1>1, <1>3, <2>2, <3>1, <4>1, <4>2, ToldFacts
    <3>2. CASE ~Head(inbox).waits
      <4>1. client' = client
        BY <1>12, <3>2 DEF Answer
      <4>2. \A q \in Requests :
              \/ cmds'[q] = cmds[q]
              \/ q = Head(inbox).id /\ Head(inbox).op = "create" /\ ~Created(q)
                 /\ cmds'[q].state = "pending"
        BY <1>1, <1>3, <2>1, <2>2
      <4>3. ClientFacts'
        BY <1>1, <4>1, <4>2, UnheardFacts
      <4>4. QED
        BY <1>4, <4>1, <4>3
    <3>3. QED
      BY <3>1, <3>2
  <2>4. /\ cmds' \in [Requests -> Command]
        /\ CommandFacts' /\ TurnFacts' /\ BatchFacts' /\ CallFacts' /\ VerdictsAreEarned'
    <3>1. cmds' = [cmds EXCEPT ![r] = [state |-> "pending", turn |-> t, seq |-> NextSequence]]
      BY <1>12 DEF new
    <3>2. t = client[r].turn
      BY DEF t
    <3>3. QED
      BY <1>1, <1>5, <2>1, <2>3, <3>1, <3>2, CreateFacts
  <2>5. Typed'
    BY <1>1, <1>2, <2>3, <2>4 DEF Inv, Typed
  <2>6. QED
    BY <2>3, <2>4, <2>5 DEF Inv
<1>13. QED
  BY <1>6, <1>9, <1>10, <1>11, <1>12

-----------------------------------------------------------------------------
(* What every step of the worker and of the harness keeps. *)

(* A command that is open may move on; one that is closed stays what it is. *)
Settles ==
    /\ cmds' \in [Requests -> Command]
    /\ \A r \in Requests :
        /\ cmds'[r].turn = cmds[r].turn /\ cmds'[r].seq = cmds[r].seq
        /\ cmds[r].state \notin {"pending", "sent"} => cmds'[r] = cmds[r]
        /\ cmds[r].state \in {"pending", "sent"} => cmds'[r].state \notin {"absent"}
        /\ cmds[r].state = "sent" => cmds'[r].state # "pending"

(* Turns are added, and what is known of an ended one stays known. *)
TurnsGrow ==
    /\ turns' \in Seq(Turn) /\ Len(turns') <= MaxTurns /\ Len(turns) <= Len(turns')
    /\ \A t \in 1 .. Len(turns) :
        turns[t].status # "live" => turns'[t].status = turns[t].status

(* Nothing at all happens to the commands or the turns. *)
LEMMA NothingSettles ==
    ASSUME Inv
    PROVE  UNCHANGED cmds => Settles
  BY DEF Inv, Typed, Settles

(* The same of the turns. *)
LEMMA NoTurnsGrow ==
    ASSUME Inv
    PROVE  UNCHANGED turns => TurnsGrow
<1>1. turns \in Seq(Turn) /\ Len(turns) <= MaxTurns /\ Len(turns) \in Nat
  BY DEF Inv, Typed
<1>2. QED
  BY <1>1 DEF TurnsGrow

(* The numbering and the promises of the UI survive. *)
LEMMA SettledFacts ==
    ASSUME Inv, Settles, TurnsGrow,
           \A r \in Requests : client'[r].turn = client[r].turn
    PROVE  /\ CommandFacts'
           /\ UNCHANGED <<client, inbox>> => ClientFacts'
<1>1. \A r \in Requests :
        /\ Created(r)' <=> Created(r)
        /\ cmds'[r].turn = cmds[r].turn /\ cmds'[r].seq = cmds[r].seq
        /\ ~Created(r) => cmds'[r] = cmds[r]
        /\ cmds[r].state = "rejected" => cmds'[r].state = "rejected"
  BY DEF Settles, Created
<1>2. Len(turns) \in Nat /\ Len(turns') \in Nat /\ Len(turns) <= Len(turns')
      /\ cmds \in [Requests -> Command] /\ client \in [Requests -> Client]
  BY DEF Inv, Typed, TurnsGrow
<1>3. CommandFacts'
  <2>1. CommandFacts
    BY DEF Inv
  <2>2. \A r \in Requests :
            /\ ~Created(r)' => cmds'[r] = NoCommand
            /\ Created(r)' => /\ cmds'[r].seq # 0 /\ cmds'[r].turn = client'[r].turn
                              /\ cmds'[r].turn \in 1 .. Len(turns')
    BY <1>1, <1>2, <2>1 DEF CommandFacts
  <2>3. \A q, r \in Requests : Created(q)' /\ Created(r)' =>
            /\ cmds'[q].seq = cmds'[r].seq => q = r
            /\ cmds'[q].turn < cmds'[r].turn => cmds'[q].seq < cmds'[r].seq
    BY <1>1, <2>1 DEF CommandFacts
  <2>4. {cmds'[r].seq : r \in Requests} = {cmds[r].seq : r \in Requests}
    BY <1>1
  <2>5. {r \in Requests : Created(r)'} = {r \in Requests : Created(r)}
    BY <1>1
  <2>6. {cmds'[r].seq : r \in Requests} \ {0}
            = 1 .. Cardinality({r \in Requests : Created(r)'})
    BY <2>1, <2>4, <2>5 DEF CommandFacts
  <2>7. QED
    BY <2>2, <2>3, <2>6 DEF CommandFacts
<1>4. ASSUME UNCHANGED <<client, inbox>> PROVE ClientFacts'
  <2>1. ASSUME NEW r \in Requests PROVE RequestFacts(client[r], r, inbox)'
    <3>1. RequestFacts(client[r], r, inbox)
      BY DEF Inv, ClientFacts
    <3>2. QED
      BY <1>1, <1>2, <1>4, <3>1 DEF RequestFacts, Client
  <2>2. ASSUME NEW i \in DOMAIN inbox PROVE MessageFacts(client, inbox, i)'
    <3>1. MessageFacts(client, inbox, i) /\ inbox[i].id \in Requests
      BY MessageRow DEF Inv, ClientFacts, Message
    <3>2. QED
      BY <1>1, <1>4, <3>1 DEF MessageFacts
  <2>3. QED
    BY <1>4, <2>1, <2>2 DEF ClientFacts
<1>5. QED
  BY <1>3, <1>4

(* No call is made or forgotten. *)
LEMMA SettledCalls ==
    ASSUME Inv, Settles, UNCHANGED calls,
           \A r \in Requests : client'[r].turn = client[r].turn
    PROVE  /\ CallsAreExact'
           /\ \A i \in DOMAIN calls :
                /\ calls[i].id \in Requests /\ Created(calls[i].id)
                /\ cmds'[calls[i].id].seq = cmds[calls[i].id].seq
                /\ calls[i].turn = cmds[calls[i].id].turn
<1>1. CallsAreExact /\ DOMAIN calls = 1 .. Len(calls) /\ Len(calls) \in Nat
  BY DEF Inv, CallFacts, Typed
<1>2. \A i \in DOMAIN calls : calls[i].id \in Requests
  BY CallRow DEF Inv, Call
<1>3. ASSUME NEW i \in DOMAIN calls
      PROVE  /\ calls'[i].turn = client'[calls'[i].id].turn
             /\ cmds'[calls'[i].id].turn = calls'[i].turn
             /\ cmds'[calls'[i].id].state \notin {"absent", "pending"}
             /\ \A j \in 1 .. i - 1 : cmds'[calls'[j].id].seq < cmds'[calls'[i].id].seq
  <2>1. \A j \in 1 .. i - 1 : j \in DOMAIN calls
    BY <1>1
  <2>2. QED
    BY <1>1, <1>2, <2>1 DEF CallsAreExact, Settles
<1>4. QED
  BY <1>1, <1>2, <1>3 DEF CallsAreExact, Settles, Created

(* A verdict that was earned stays earned. *)
LEMMA SettledVerdicts ==
    ASSUME Inv, Settles, TurnsGrow, UNCHANGED calls,
           \A r \in Requests : cmds'[r].state # cmds[r].state =>
              /\ cmds'[r].state = "acknowledged" =>
                    IF r \in Steers THEN \E i \in DOMAIN calls : calls[i].id = r /\ calls[i].ok
                    ELSE turns'[cmds[r].turn].status = "interrupted"
              /\ cmds'[r].state = "rejected" =>
                    \/ \A i \in DOMAIN calls : calls[i].id = r => ~calls[i].ok
                    \/ r \in Interrupts /\ turns'[cmds[r].turn].status = "completed"
    PROVE  VerdictsAreEarned'
<1> SUFFICES ASSUME NEW r \in Requests
             PROVE  LET ok == \E i \in DOMAIN calls : calls[i].id = r /\ calls[i].ok
                        ended == turns'[cmds'[r].turn].status
                    IN  /\ cmds'[r].state = "acknowledged" =>
                              IF r \in Steers THEN ok ELSE ended = "interrupted"
                        /\ cmds'[r].state = "rejected" /\ ok =>
                              r \in Interrupts /\ ended = "completed"
  BY DEF VerdictsAreEarned
<1>1. cmds'[r].turn = cmds[r].turn
  BY DEF Settles
<1>2. CASE cmds'[r].state # cmds[r].state
  BY <1>1, <1>2
<1>3. CASE cmds'[r].state = cmds[r].state
  <2>1. cmds[r].state # "absent" => cmds[r].turn \in 1 .. Len(turns)
    BY DEF Inv, CommandFacts, Created
  <2>2. LET ok == \E i \in DOMAIN calls : calls[i].id = r /\ calls[i].ok
            ended == turns[cmds[r].turn].status
        IN  /\ cmds[r].state = "acknowledged" =>
                  IF r \in Steers THEN ok ELSE ended = "interrupted"
            /\ cmds[r].state = "rejected" /\ ok => r \in Interrupts /\ ended = "completed"
    BY DEF Inv, VerdictsAreEarned
  <2>3. QED
    BY <1>1, <1>3, <2>1, <2>2 DEF TurnsGrow
<1>4. QED
  BY <1>2, <1>3

(* A control thread that does nothing: what is left is where the turns are. *)
LEMMA RestingFacts ==
    ASSUME Inv, Settles, UNCHANGED calls,
           \A r \in Requests : client'[r].turn = client[r].turn,
           worker' \in Worker, worker'.loop = "off", worker'.batch = {},
           \A r \in Requests : worker'.applied[r] \in {"no", worker.applied[r]}
    PROVE  BatchFacts' /\ CallFacts'
<1>1. BatchFacts'
  BY DEF BatchFacts, Worker
<1>2. /\ CallsAreExact'
      /\ \A r \in Requests : Created(r) => Created(r)'
  BY SettledCalls DEF Settles, Created
<1>3. \A r \in Requests :
        LET ok == \E i \in DOMAIN calls : calls[i].id = r /\ calls[i].ok
        IN  /\ worker'.applied[r] # "no" => Created(r)'
            /\ worker'.applied[r] = "acknowledged" => r \in Steers /\ ok
            /\ worker'.applied[r] = "rejected" => ~ok
  BY <1>2 DEF Inv, CallFacts
<1>4. QED
  BY <1>1, <1>2, <1>3 DEF CallFacts

(* The columns of a worker that died, and of one that was started. *)
LEMMA DeadRow ==
    ASSUME worker \in Worker
    PROVE  /\ Dead(worker) \in Worker /\ ~Dead(worker).up /\ Dead(worker).main = "start"
           /\ Dead(worker).loop = "off" /\ Dead(worker).batch = {}
           /\ Dead(worker).late = worker.late
           /\ \A r \in Requests : Dead(worker).applied[r] = "no"
           /\ Fresh \in Worker /\ Fresh.up /\ Fresh.main = "start" /\ Fresh.late = 0
           /\ Fresh.loop = "off" /\ Fresh.batch = {}
           /\ \A r \in Requests : Fresh.applied[r] = "no"
<1> DEFINE Idle(w) == /\ w \in Worker /\ w.main = "start" /\ w.loop = "off" /\ w.batch = {}
                      /\ \A r \in Requests : w.applied[r] = "no"
           w1 == [Fresh EXCEPT !.up = FALSE]
           w2 == [w1 EXCEPT !.child = worker.child]
           w3 == [w2 EXCEPT !.late = worker.late]
           w4 == [w3 EXCEPT !.saved = worker.saved]
<1>1. Idle(Fresh) /\ Fresh.up /\ Fresh.late = 0
  <2>1. [r \in Requests |-> "no"] \in [Requests -> Applied]
    BY DEF Applied
  <2>2. QED
    BY <2>1 DEF Fresh, Worker
<1> HIDE DEF w1, w2, w3, w4
<1>2. Idle(w1) /\ ~w1.up
  BY <1>1 DEF w1, Worker
<1>3. Idle(w2) /\ ~w2.up
  BY <1>2 DEF w2, Worker
<1>4. Idle(w3) /\ ~w3.up /\ w3.late = worker.late
  BY <1>3 DEF w3, Worker
<1>5. Idle(w4) /\ ~w4.up /\ w4.late = worker.late
  BY <1>4 DEF w4, Worker
<1>6. Dead(worker) = w4
  BY DEF Dead, w1, w2, w3, w4
<1>7. QED
  BY <1>1, <1>5, <1>6

(* A step after which the control thread does nothing, and the main thread is   *)
(* dead or has yet to start a turn.                                             *)
LEMMA RestingStep ==
    ASSUME Inv, Settles, TurnsGrow, UNCHANGED <<client, inbox, calls>>,
           Len(turns') = Len(turns), up' \in BOOLEAN,
           row' \in [state : RowStates, attempt : 1 .. MaxAttempts],
           worker' \in Worker, worker'.loop = "off", worker'.batch = {},
           \A r \in Requests : worker'.applied[r] \in {"no", worker.applied[r]},
           \/ ~worker'.up
           \/ worker'.main = "start" /\ row'.state \in {"running", "done"},
           worker'.late # 0 => ~worker'.up /\ worker'.late = Len(turns),
           active' \in 0 .. Len(turns'),
           active' # 0 => \A r \in Requests : Created(r) => cmds[r].turn <= active',
           VerdictsAreEarned'
    PROVE  Inv'
<1>1. \A r \in Requests : client'[r].turn = client[r].turn
  OBVIOUS
<1>2. CommandFacts' /\ ClientFacts'
  BY <1>1, SettledFacts
<1>3. BatchFacts' /\ CallFacts'
  BY <1>1, RestingFacts
<1>4. Typed'
  BY DEF Inv, Typed, TurnsGrow, Settles
<1>5. TurnFacts'
  <2>1. \A r \in Requests : Created(r)' => Created(r) /\ cmds'[r].turn = cmds[r].turn
    BY DEF Settles, Created
  <2>2. QED
    BY <2>1 DEF TurnFacts
<1>6. QED
  BY <1>2, <1>3, <1>4, <1>5 DEF Inv

(* What is known of a worker that is not up. *)
LEMMA DownFacts ==
    ASSUME Inv
    PROVE  /\ worker \in Worker /\ Len(turns) \in Nat
           /\ row \in [state : RowStates, attempt : 1 .. MaxAttempts]
           /\ worker.late # 0 => ~worker.up /\ worker.late = Len(turns)
           /\ worker.loop \in {"off", "idle"} => worker.batch = {}
           /\ ~worker.up => worker.loop = "off" /\ worker.batch = {}
           /\ row.state \in {"exited", "retry", "attention", "cancelled"} => ~worker.up
           /\ active \in 0 .. Len(turns)
           /\ active # 0 => \A r \in Requests : Created(r) => cmds[r].turn <= active
           /\ \A r \in Requests : Created(r) => cmds[r].turn <= Len(turns)
  BY DEF Inv, Typed, TurnFacts, BatchFacts, CommandFacts

(* A worker dies, or is replaced, and no command is closed. *)
LEMMA WorkerGone ==
    ASSUME Inv, UNCHANGED <<turns, cmds, up, client, inbox, calls>>,
           row' \in [state : RowStates, attempt : 1 .. MaxAttempts],
           worker' \in Worker, worker'.loop = "off", worker'.batch = {},
           \A r \in Requests : worker'.applied[r] \in {"no", worker.applied[r]},
           \/ ~worker'.up
           \/ worker'.main = "start" /\ row'.state \in {"running", "done"},
           worker'.late # 0 => ~worker'.up /\ worker'.late = Len(turns),
           active' \in {0, active} \/ active' = Len(turns)
    PROVE  Inv'
<1>1. Settles /\ TurnsGrow
  BY NothingSettles, NoTurnsGrow
<1>2. /\ active' \in 0 .. Len(turns')
      /\ active' # 0 => \A r \in Requests : Created(r) => cmds[r].turn <= active'
  BY DownFacts
<1>3. VerdictsAreEarned'
  BY DEF Inv, VerdictsAreEarned
<1>4. up' \in BOOLEAN
  BY DEF Inv, Typed
<1>5. QED
  BY <1>1, <1>2, <1>3, <1>4, RestingStep

(* A result nobody takes: the worker ends. *)
LEMMA GiveUpStep ==
    ASSUME Inv, GiveUp
    PROVE  Inv'
<1>1. /\ worker' = [Dead(worker) EXCEPT !.saved = TRUE]
      /\ UNCHANGED <<row, turns, cmds, up, active, inbox, client, calls>> /\ worker.up
  BY DEF GiveUp
<1>2. worker \in Worker /\ worker.late = 0
      /\ row \in [state : RowStates, attempt : 1 .. MaxAttempts]
  BY <1>1, DownFacts
<1>3. Dead(worker) \in Worker
  BY <1>2, DeadRow
<1>4. /\ worker' \in Worker /\ ~worker'.up /\ worker'.loop = "off" /\ worker'.batch = {}
      /\ worker'.late = 0 /\ \A r \in Requests : worker'.applied[r] = "no"
  BY <1>1, <1>2, <1>3, DeadRow DEF Worker
<1>5. QED
  BY <1>1, <1>2, <1>4, WorkerGone

(* A worker is found dead, as a child or by its last sign of life. *)
LEMMA ExitsStep ==
    ASSUME Inv, Exits, active' \in {0, active}
    PROVE  Inv'
<1>1. /\ worker' = [Dead(worker) EXCEPT !.child = FALSE]
      /\ UNCHANGED <<turns, cmds, up, inbox, client, calls>>
      /\ \/ row' = row
         \/ \E s \in {"exited", "attention"} : row' = [row EXCEPT !.state = s]
  BY DEF Exits
<1>2. worker \in Worker /\ row \in [state : RowStates, attempt : 1 .. MaxAttempts]
      /\ (worker.late # 0 => worker.late = Len(turns))
  BY DownFacts
<1>3. Dead(worker) \in Worker
  BY <1>2, DeadRow
<1>4. /\ worker' \in Worker /\ ~worker'.up /\ worker'.loop = "off" /\ worker'.batch = {}
      /\ worker'.late = worker.late /\ \A r \in Requests : worker'.applied[r] = "no"
  BY <1>1, <1>2, <1>3, DeadRow DEF Worker
<1>5. row' \in [state : RowStates, attempt : 1 .. MaxAttempts]
  BY <1>1, <1>2 DEF RowStates
<1>6. QED
  BY <1>1, <1>2, <1>4, <1>5, WorkerGone

(* Both ways to find a worker dead: as a child, and by its row alone. *)
LEMMA ReapStep == ASSUME Inv, Reap \/ FindDead PROVE Inv'
  BY ExitsStep DEF Reap, FindDead

(* A cancellation stops the worker and closes no command. *)
LEMMA CancelWorkerStep ==
    ASSUME Inv, CancelWorker
    PROVE  Inv'
<1>1. /\ worker' = [Dead(worker) EXCEPT !.child = FALSE] /\ active' = 0
      /\ UNCHANGED <<turns, cmds, up, inbox, client, calls>>
      /\ row' = [row EXCEPT !.state = "cancelled"]
  BY DEF CancelWorker
<1>2. worker \in Worker /\ row \in [state : RowStates, attempt : 1 .. MaxAttempts]
      /\ (worker.late # 0 => worker.late = Len(turns))
  BY DownFacts
<1>3. Dead(worker) \in Worker
  BY <1>2, DeadRow
<1>4. /\ worker' \in Worker /\ ~worker'.up /\ worker'.loop = "off" /\ worker'.batch = {}
      /\ worker'.late = worker.late /\ \A r \in Requests : worker'.applied[r] = "no"
  BY <1>1, <1>2, <1>3, DeadRow DEF Worker
<1>5. row' \in [state : RowStates, attempt : 1 .. MaxAttempts]
  BY <1>1, <1>2 DEF RowStates
<1>6. QED
  BY <1>1, <1>2, <1>4, <1>5, WorkerGone

(* A retry starts a new process, which remembers nothing. *)
LEMMA RelaunchStep ==
    ASSUME Inv, Relaunch
    PROVE  Inv'
<1>1. /\ worker' = Fresh /\ UNCHANGED <<turns, cmds, up, active, inbox, client, calls>>
      /\ row' = [state |-> "running", attempt |-> row.attempt + 1]
      /\ row.attempt < MaxAttempts
  BY DEF Relaunch
<1>2. worker \in Worker /\ row \in [state : RowStates, attempt : 1 .. MaxAttempts]
  BY DownFacts
<1>3. row' \in [state : RowStates, attempt : 1 .. MaxAttempts] /\ row'.state = "running"
  BY <1>1, <1>2, BoundsAssumption DEF RowStates
<1>4. QED
  BY <1>1, <1>2, <1>3, DeadRow, WorkerGone

(* A result the dead worker kept is taken in. *)
LEMMA TakeRetainedStep ==
    ASSUME Inv, TakeRetained
    PROVE  Inv'
<1>1. /\ UNCHANGED <<turns, cmds, up, active, inbox, worker, client, calls>>
      /\ row.state = "attention" /\ row' = [row EXCEPT !.state = "done"]
  BY DEF TakeRetained
<1>2. /\ worker \in Worker /\ ~worker.up /\ worker.loop = "off" /\ worker.batch = {}
      /\ (worker.late # 0 => worker.late = Len(turns))
      /\ row \in [state : RowStates, attempt : 1 .. MaxAttempts]
  BY <1>1, DownFacts
<1>3. row' \in [state : RowStates, attempt : 1 .. MaxAttempts]
  BY <1>1, <1>2 DEF RowStates
<1>4. QED
  BY <1>1, <1>2, <1>3, WorkerGone

(* A binding that comes late names the last turn there is. *)
LEMMA ServeLateBindStep ==
    ASSUME Inv, ServeLateBind
    PROVE  Inv'
<1>1. /\ worker.late # 0 /\ active' \in {worker.late, active}
      /\ worker' = [worker EXCEPT !.late = 0]
      /\ UNCHANGED <<row, turns, cmds, up, inbox, client, calls>>
  BY DEF ServeLateBind
<1>2. /\ worker \in Worker /\ ~worker.up /\ worker.loop = "off" /\ worker.batch = {}
      /\ worker.late = Len(turns)
      /\ row \in [state : RowStates, attempt : 1 .. MaxAttempts]
  BY <1>1, DownFacts
<1>3. /\ worker' \in Worker /\ ~worker'.up /\ worker'.loop = "off" /\ worker'.batch = {}
      /\ worker'.late = 0 /\ worker'.applied = worker.applied
  BY <1>1, <1>2 DEF Worker
<1>4. QED
  BY <1>1, <1>2, <1>3, WorkerGone

(* The end of the last turn. *)
LEMMA EndedTurns ==
    ASSUME Inv, turns # <<>>, NEW s \in Statuses, Ended(s)
    PROVE  /\ turns' \in Seq(Turn) /\ Len(turns') = Len(turns) /\ Len(turns) \in Nat \ {0}
           /\ turns'[Len(turns)].status = s
           /\ \A t \in 1 .. Len(turns) : t # Len(turns) => turns'[t] = turns[t]
           /\ turns[Len(turns)].status = "live" => TurnsGrow
<1>1. turns \in Seq(Turn) /\ Len(turns) <= MaxTurns /\ Len(turns) \in Nat \ {0}
  BY DEF Inv, Typed
<1>2. turns' = [turns EXCEPT ![Len(turns)].status = s]
  BY DEF Ended
<1>3. turns[Len(turns)] \in Turn
  BY <1>1
<1>4. [turns[Len(turns)] EXCEPT !.status = s] \in Turn
      /\ [turns[Len(turns)] EXCEPT !.status = s].status = s
  BY <1>3 DEF Turn
<1>5. /\ turns' \in Seq(Turn) /\ Len(turns') = Len(turns)
      /\ turns'[Len(turns)] = [turns[Len(turns)] EXCEPT !.status = s]
      /\ \A t \in 1 .. Len(turns) : t # Len(turns) => turns'[t] = turns[t]
  BY <1>1, <1>2, <1>4, DOMAIN turns = 1 .. Len(turns)
<1>6. QED
  BY <1>1, <1>4, <1>5 DEF TurnsGrow

(* A step that leaves what the control thread works on alone. *)
LEMMA SameBatch ==
    ASSUME Inv, UNCHANGED <<cmds, client, calls, inbox>>, TurnsGrow,
           worker'.loop = worker.loop, worker'.batch = worker.batch,
           worker'.applied = worker.applied, worker'.bound = worker.bound
    PROVE  CommandFacts' /\ BatchFacts' /\ CallFacts' /\ VerdictsAreEarned' /\ ClientFacts'
<1>1. Settles
  BY NothingSettles
<1>2. CommandFacts' /\ ClientFacts'
  BY <1>1, SettledFacts
<1>3. BatchFacts'
  BY DEF Inv, BatchFacts, Mine, Created, First
<1>4. CallFacts'
  BY DEF Inv, CallFacts, CallsAreExact, Mine, Created
<1>5. VerdictsAreEarned'
  BY <1>1, SettledVerdicts
<1>6. QED
  BY <1>2, <1>3, <1>4, <1>5

(* A turn is started: nobody names it before it is bound. *)
LEMMA StartTurnStep ==
    ASSUME Inv, StartTurn
    PROVE  Inv'
<1> DEFINE new == [attempt |-> row.attempt, status |-> "live"]
<1>1. /\ turns' = Append(turns, new)
      /\ worker' = [worker EXCEPT !.main = "bind"] /\ worker.up /\ Len(turns) < MaxTurns
      /\ UNCHANGED <<row, cmds, up, active, inbox, client, calls>>
  BY DEF StartTurn
<1>2. /\ worker \in Worker /\ row \in [state : RowStates, attempt : 1 .. MaxAttempts]
      /\ turns \in Seq(Turn) /\ Len(turns) \in Nat /\ active \in 0 .. Len(turns)
      /\ MaxTurns \in Nat
  BY BoundsAssumption DEF Inv, Typed
<1>3. new \in Turn
  BY <1>2 DEF Turn, Statuses
<1> HIDE DEF new
<1>4. /\ turns' \in Seq(Turn) /\ Len(turns') = Len(turns) + 1 /\ turns'[Len(turns) + 1] = new
      /\ \A t \in 1 .. Len(turns) : turns'[t] = turns[t]
  BY <1>1, <1>2, <1>3
<1>5. TurnsGrow
  BY <1>1, <1>2, <1>4 DEF TurnsGrow
<1>6. /\ worker' \in Worker /\ worker'.main = "bind" /\ worker'.up = worker.up
      /\ worker'.loop = worker.loop /\ worker'.batch = worker.batch
      /\ worker'.applied = worker.applied /\ worker'.bound = worker.bound
      /\ worker'.late = worker.late
  BY <1>1, <1>2 DEF Worker
<1>7. Typed'
  BY <1>1, <1>2, <1>4, <1>5, <1>6 DEF Inv, Typed, TurnsGrow
<1>8. \A r \in Requests : Created(r) => cmds[r].turn \in 1 .. Len(turns)
  BY DEF Inv, CommandFacts
<1>9. worker.bound \in Nat /\ new.status = "live"
  BY <1>2 DEF Worker, new
<1>10. TurnFacts'
  <2>1. TurnFacts
    BY DEF Inv
  <2>2. \A r \in Requests : Created(r)' => Created(r) /\ cmds'[r] = cmds[r]
    BY <1>1 DEF Created
  <2>3. turns'[Len(turns')].status = "live"
    BY <1>4, <1>9
  <2>4. QED
    BY <1>1, <1>2, <1>4, <1>6, <1>8, <1>9, <2>1, <2>2, <2>3 DEF TurnFacts
<1>11. QED
  BY <1>1, <1>5, <1>6, <1>7, <1>10, SameBatch DEF Inv

(* A turn that ends without a result ends its worker. *)
LEMMA TurnEndsStep ==
    ASSUME Inv, TurnEnds
    PROVE  Inv'
<1>1. PICK s \in Endings :
        /\ Ended(s)
        /\ worker' = CASE s = "completed" -> [worker EXCEPT !.main = "finish"]
                       [] s = "invalid" -> [worker EXCEPT !.main = "start"]
                       [] OTHER -> Dead(worker)
  BY DEF TurnEnds
<1>2. /\ UNCHANGED <<row, cmds, up, active, inbox, client, calls>>
      /\ worker.up /\ worker.main = "turn"
  BY DEF TurnEnds
<1>3. /\ turns # <<>> /\ turns[Len(turns)].status = "live" /\ worker.bound = Len(turns)
      /\ active \in {0, Len(turns)} /\ worker.late = 0
      /\ row.state \notin {"exited", "retry", "attention", "cancelled"}
  BY <1>2 DEF Inv, TurnFacts
<1>4. s \in Statuses
  BY DEF Endings, Statuses
<1>5. /\ TurnsGrow /\ Len(turns') = Len(turns) /\ Len(turns) \in Nat \ {0}
      /\ turns'[Len(turns)].status = s /\ turns' \in Seq(Turn)
  BY <1>1, <1>3, <1>4, EndedTurns
<1>6. worker \in Worker /\ row \in [state : RowStates, attempt : 1 .. MaxAttempts]
  BY DownFacts
<1>7. CASE s \in {"completed", "invalid"}
  <2> DEFINE at == IF s = "completed" THEN "finish" ELSE "start"
  <2>1. worker' = [worker EXCEPT !.main = at]
    BY <1>1, <1>7
  <2>2. /\ worker' \in Worker /\ worker'.main = at /\ worker'.up = worker.up
        /\ worker'.loop = worker.loop /\ worker'.batch = worker.batch
        /\ worker'.applied = worker.applied /\ worker'.bound = worker.bound
        /\ worker'.late = worker.late
    BY <1>6, <2>1 DEF Worker
  <2>3. at \in {"finish", "start"} /\ (at = "finish" => s = "completed")
    OBVIOUS
  <2> HIDE DEF at
  <2>4. Typed'
    BY <1>2, <1>5, <2>2 DEF Inv, Typed, TurnsGrow
  <2>5. TurnFacts'
    <3>1. TurnFacts
      BY DEF Inv
    <3>2. \A r \in Requests : Created(r)' => Created(r) /\ cmds'[r] = cmds[r]
      BY <1>2 DEF Created
    <3>3. turns' # <<>>
      BY <1>5
    <3>4. QED
      BY <1>2, <1>3, <1>5, <2>2, <2>3, <3>1, <3>2, <3>3 DEF TurnFacts
  <2>6. QED
    BY <1>2, <1>5, <2>2, <2>4, <2>5, SameBatch DEF Inv
<1>8. CASE s \notin {"completed", "invalid"}
  <2>1. worker' = Dead(worker)
    BY <1>1, <1>8
  <2>2. /\ worker' \in Worker /\ ~worker'.up /\ worker'.loop = "off" /\ worker'.batch = {}
        /\ worker'.late = 0 /\ \A r \in Requests : worker'.applied[r] = "no"
    BY <1>3, <1>6, <2>1, DeadRow
  <2>3. Settles
    BY <1>2, NothingSettles
  <2>4. VerdictsAreEarned'
    BY <1>2, <1>5, <2>3, SettledVerdicts
  <2>5. /\ active' \in 0 .. Len(turns')
        /\ active' # 0 => \A r \in Requests : Created(r) => cmds[r].turn <= active'
    BY <1>2, <1>5, DownFacts
  <2>6. up' \in BOOLEAN
    BY <1>2 DEF Inv, Typed
  <2>7. QED
    BY <1>2, <1>5, <1>6, <2>2, <2>3, <2>4, <2>5, <2>6, RestingStep
<1>9. QED
  BY <1>7, <1>8

(* A turn is bound: no command names it yet, so none was called. *)
LEMMA BindTurnStep ==
    ASSUME Inv, BindTurn
    PROVE  Inv'
<1>1. /\ worker.up /\ worker.main = "bind" /\ worker.loop = "off"
      /\ UNCHANGED <<row, turns, cmds, up, inbox, client, calls>>
  BY DEF BindTurn
<1>2. /\ worker \in Worker /\ worker.late = 0 /\ worker.batch = {} /\ Len(turns) \in Nat
      /\ row \in [state : RowStates, attempt : 1 .. MaxAttempts]
      /\ row.state \notin {"exited", "retry", "attention", "cancelled"}
      /\ active \in 0 .. Len(turns)
  BY <1>1, DownFacts
<1>3. /\ active < Len(turns) /\ turns[Len(turns)].status = "live"
      /\ \A r \in Requests : Created(r) => cmds[r].turn < Len(turns)
  BY <1>1 DEF Inv, TurnFacts
<1>4. CASE /\ active' = Len(turns)
           /\ worker' = [worker EXCEPT !.main = "turn", !.bound = Len(turns), !.loop = "idle"]
  <2> DEFINE w1 == [worker EXCEPT !.main = "turn"]
             w2 == [w1 EXCEPT !.bound = Len(turns)]
             w3 == [w2 EXCEPT !.loop = "idle"]
  <2>1. w1 \in Worker /\ w1.main = "turn" /\ w1.up /\ w1.late = 0 /\ w1.batch = {}
        /\ w1.applied = worker.applied
    BY <1>1, <1>2 DEF Worker
  <2> HIDE DEF w1
  <2>2. w2 \in Worker /\ w2.main = "turn" /\ w2.up /\ w2.late = 0 /\ w2.batch = {}
        /\ w2.applied = worker.applied /\ w2.bound = Len(turns)
    BY <1>2, <2>1 DEF Worker
  <2> HIDE DEF w2
  <2>3. w3 \in Worker /\ w3.main = "turn" /\ w3.up /\ w3.late = 0 /\ w3.batch = {}
        /\ w3.applied = worker.applied /\ w3.bound = Len(turns) /\ w3.loop = "idle"
    BY <2>2 DEF Worker
  <2>4. worker' = w3
    BY <1>4 DEF w1, w2
  <2> HIDE DEF w3
  <2>5. Settles /\ TurnsGrow
    BY <1>1, NothingSettles, NoTurnsGrow
  <2>6. CommandFacts' /\ ClientFacts' /\ VerdictsAreEarned'
    BY <1>1, <2>5, SettledFacts, SettledVerdicts
  <2>7. Typed'
    BY <1>1, <1>2, <1>4, <2>3, <2>4 DEF Inv, Typed
  <2>8. TurnFacts'
    <3>1. \A r \in Requests : Created(r)' => Created(r) /\ cmds'[r].turn <= Len(turns)
                                             /\ Len(turns') = Len(turns)
      BY <1>1, DownFacts DEF Created
    <3>2. turns' # <<>> /\ turns' = turns
      BY <1>1, <1>2, <1>3
    <3>3. QED
      BY <1>1, <1>2, <1>3, <1>4, <2>3, <2>4, <3>1, <3>2 DEF TurnFacts
  <2>9. BatchFacts'
    BY <2>3, <2>4 DEF BatchFacts
  <2>10. CallFacts'
    <3>1. \A i \in DOMAIN calls : calls[i].turn # Len(turns)
      BY <1>1, <1>3, <2>5, SettledCalls
    <3>2. CallsAreExact'
      BY <1>1, <2>5, SettledCalls
    <3>3. QED
      BY <1>1, <2>3, <2>4, <3>1, <3>2 DEF Inv, CallFacts, Created
  <2>11. QED
    BY <2>6, <2>7, <2>8, <2>9, <2>10 DEF Inv
<1>5. CASE worker' = [Dead(worker) EXCEPT !.late = Len(turns)] /\ active' = active
  <2>1. Dead(worker) \in Worker
    BY <1>2, DeadRow
  <2>2. /\ worker' \in Worker /\ ~worker'.up /\ worker'.loop = "off" /\ worker'.batch = {}
        /\ worker'.late = Len(turns) /\ \A r \in Requests : worker'.applied[r] = "no"
    BY <1>2, <1>5, <2>1, DeadRow DEF Worker
  <2>3. QED
    BY <1>1, <1>2, <1>5, <2>2, WorkerGone
<1>6. CASE worker' = Dead(worker) /\ active' = active
  BY <1>1, <1>2, <1>6, DeadRow, WorkerGone
<1>7. QED
  BY <1>4, <1>5, <1>6 DEF BindTurn

(* The control thread stops between two polls. *)
LEMMA LoopStopsStep ==
    ASSUME Inv, LoopStops
    PROVE  Inv'
<1>1. /\ worker.loop = "idle" /\ worker' = [worker EXCEPT !.loop = "off"]
      /\ UNCHANGED <<row, turns, cmds, up, active, inbox, client, calls>>
  BY DEF LoopStops
<1>2. worker \in Worker /\ worker.batch = {}
  BY <1>1, DownFacts
<1>3. /\ worker' \in Worker /\ worker'.up = worker.up /\ worker'.main = worker.main
      /\ worker'.bound = worker.bound /\ worker'.loop = "off" /\ worker'.batch = {}
      /\ worker'.applied = worker.applied /\ worker'.late = worker.late
  BY <1>1, <1>2 DEF Worker
<1>4. Settles /\ TurnsGrow
  BY <1>1, NothingSettles, NoTurnsGrow
<1>5. CommandFacts' /\ ClientFacts' /\ VerdictsAreEarned'
  BY <1>1, <1>4, SettledFacts, SettledVerdicts
<1>6. BatchFacts' /\ CallFacts'
  BY <1>1, <1>3, <1>4, RestingFacts
<1>7. Typed'
  BY <1>1, <1>3 DEF Inv, Typed
<1>8. TurnFacts'
  <2>1. TurnFacts
    BY DEF Inv
  <2>2. QED
    BY <1>1, <1>3, <2>1 DEF TurnFacts, Created
<1>9. QED
  BY <1>5, <1>6, <1>7, <1>8 DEF Inv

(* A control thread with a batch, or with none. *)
LEMMA BatchRow ==
    ASSUME NEW w \in Worker, NEW b \in SUBSET Requests
    PROVE  /\ Batch(w, b) \in Worker /\ Batch(w, b).batch = b
           /\ Batch(w, b).loop = IF b = {} THEN "idle" ELSE "apply"
           /\ Batch(w, b).up = w.up /\ Batch(w, b).main = w.main
           /\ Batch(w, b).bound = w.bound /\ Batch(w, b).applied = w.applied
           /\ Batch(w, b).late = w.late
<1> DEFINE l == IF b = {} THEN "idle" ELSE "apply"
           w1 == [w EXCEPT !.batch = b]
           w2 == [w1 EXCEPT !.loop = l]
<1>1. l \in {"idle", "apply"}
  OBVIOUS
<1> HIDE DEF l
<1>2. /\ w1 \in Worker /\ w1.batch = b /\ w1.up = w.up /\ w1.main = w.main
      /\ w1.bound = w.bound /\ w1.applied = w.applied /\ w1.late = w.late
  BY DEF Worker
<1> HIDE DEF w1
<1>3. /\ w2 \in Worker /\ w2.batch = b /\ w2.up = w.up /\ w2.main = w.main
      /\ w2.bound = w.bound /\ w2.applied = w.applied /\ w2.late = w.late /\ w2.loop = l
  BY <1>1, <1>2 DEF Worker
<1>4. Batch(w, b) = w2
  BY DEF Batch, w1, w2, l
<1>5. QED
  BY <1>3, <1>4 DEF l

(* The commands of a turn are handed out: the batch is all that is open. *)
LEMMA PollStep ==
    ASSUME Inv, Poll
    PROVE  Inv'
<1>1. /\ worker.up /\ worker.loop = "idle" /\ active' = worker.bound
      /\ cmds' = [r \in Requests |-> IF r \in OfTurn(worker.bound, {"pending"})
                                     THEN [cmds[r] EXCEPT !.state = "sent"] ELSE cmds[r]]
      /\ worker' \in {Batch(worker, Claimed(worker.bound)), worker}
      /\ UNCHANGED <<row, turns, up, inbox, client, calls>>
  BY DEF Poll
<1>2. /\ worker \in Worker /\ worker.batch = {} /\ worker.bound \in 1 .. Len(turns)
      /\ cmds \in [Requests -> Command] /\ Len(turns) \in Nat
      /\ \A r \in Requests : Created(r) => cmds[r].turn <= worker.bound
  BY <1>1, DownFacts DEF Inv, TurnFacts, Typed
<1>3. \A r \in Requests :
        /\ cmds'[r] \in Command /\ cmds'[r].turn = cmds[r].turn /\ cmds'[r].seq = cmds[r].seq
        /\ IF cmds[r].turn = worker.bound /\ cmds[r].state = "pending"
           THEN cmds'[r].state = "sent" ELSE cmds'[r] = cmds[r]
  BY <1>1, <1>2 DEF OfTurn, Command, CommandStates
<1>4. Settles
  BY <1>1, <1>3 DEF Settles
<1>5. TurnsGrow
  BY <1>1, NoTurnsGrow
<1>6. CommandFacts' /\ ClientFacts' /\ VerdictsAreEarned'
  BY <1>1, <1>3, <1>4, <1>5, SettledFacts, SettledVerdicts
<1>7. \A r \in Requests : Created(r)' <=> Created(r)
  BY <1>3 DEF Created
<1>8. /\ worker' \in Worker /\ worker'.up = worker.up /\ worker'.main = worker.main
      /\ worker'.bound = worker.bound /\ worker'.applied = worker.applied
      /\ worker'.late = worker.late /\ worker'.loop \in {"idle", "apply"}
      /\ (worker'.batch = {} \/ worker'.batch = Claimed(worker.bound))
      /\ (worker'.loop = "idle" => worker'.batch = {})
  <2>1. PICK b \in SUBSET Requests : b = Claimed(worker.bound)
    BY DEF Claimed, OfTurn
  <2>2. worker' = Batch(worker, b) \/ worker' = worker
    BY <1>1, <2>1
  <2>3. CASE worker' = Batch(worker, b)
    <3>1. /\ worker' \in Worker /\ worker'.batch = b /\ worker'.up = worker.up
          /\ worker'.loop = (IF b = {} THEN "idle" ELSE "apply")
          /\ worker'.main = worker.main /\ worker'.bound = worker.bound
          /\ worker'.applied = worker.applied /\ worker'.late = worker.late
      BY <1>2, <2>3, BatchRow
    <3>2. QED
      BY <2>1, <3>1
  <2>4. CASE worker' = worker
    BY <1>1, <1>2, <2>4
  <2>5. QED
    BY <2>2, <2>3, <2>4
<1>9. Typed'
  BY <1>1, <1>2, <1>4, <1>8 DEF Inv, Typed, Settles
<1>10. TurnFacts'
  <2>1. TurnFacts
    BY DEF Inv
  <2>2. worker.bound \in Nat
    BY <1>2
  <2>3. QED
    BY <1>1, <1>2, <1>3, <1>7, <1>8, <2>1, <2>2 DEF TurnFacts
<1>11. BatchFacts'
  <2>1. \A r \in worker'.batch : r \in Requests /\ cmds[r].turn = worker.bound
                                 /\ cmds'[r].state = "sent"
    BY <1>3, <1>8 DEF Claimed, OfTurn
  <2>2. \A q \in worker'.batch, r \in Requests \ worker'.batch :
            ~(cmds'[r].turn = worker.bound /\ cmds'[r].state \in {"pending", "sent"})
    BY <1>3, <1>8 DEF Claimed, OfTurn
  <2>3. QED
    BY <1>3, <1>8, <2>1, <2>2 DEF BatchFacts, Mine, Created
<1>12. CallFacts'
  <2>1. /\ CallsAreExact'
        /\ \A i \in DOMAIN calls : calls[i].id \in Requests
                                   /\ cmds'[calls[i].id].seq = cmds[calls[i].id].seq
    BY <1>1, <1>4, SettledCalls
  <2>2. \A r \in Requests : Mine(r)' /\ cmds'[r].state \in {"pending", "sent"} =>
                            Mine(r) /\ cmds[r].state \in {"pending", "sent"}
    BY <1>3, <1>7, <1>8 DEF Mine
  <2>3. QED
    BY <1>1, <1>3, <1>7, <1>8, <2>1, <2>2 DEF Inv, CallFacts
<1>13. QED
  BY <1>6, <1>9, <1>10, <1>11, <1>12 DEF Inv

(* Of a batch, one command comes first, and no two have the same number. *)
LEMMA FirstFacts ==
    ASSUME Inv, NEW r \in Requests, First(r)
    PROVE  /\ r \in worker.batch /\ Mine(r)
           /\ \A q \in worker.batch : q # r => cmds[r].seq < cmds[q].seq
           /\ \A q \in Requests : First(q) => q = r
<1>1. /\ worker.batch \subseteq Requests /\ r \in worker.batch
      /\ \A q \in worker.batch : Mine(q) /\ cmds[r].seq <= cmds[q].seq
  BY DEF Inv, Typed, Worker, BatchFacts, First
<1>2. \A q \in Requests : cmds[q].seq \in Nat
  BY DEF Inv, Typed, Command
<1>3. \A q \in worker.batch : cmds[q].seq = cmds[r].seq => q = r
  BY <1>1 DEF Inv, CommandFacts, Mine
<1>4. \A q \in Requests : First(q) => q \in worker.batch /\ cmds[q].seq <= cmds[r].seq
  BY <1>1 DEF First
<1>5. QED
  BY <1>1, <1>2, <1>3, <1>4

(* A command handed out and not applied by this process was never called, and   *)
(* all that were are older.                                                     *)
LEMMA NotYetCalled ==
    ASSUME Inv, worker.loop # "off", NEW r \in Requests, Mine(r),
           cmds[r].state = "sent", worker.applied[r] = "no"
    PROVE  \A i \in DOMAIN calls : /\ calls[i].id \in Requests /\ calls[i].id # r
                                   /\ cmds[calls[i].id].seq < cmds[r].seq
<1> SUFFICES ASSUME NEW i \in DOMAIN calls
             PROVE  /\ calls[i].id \in Requests /\ calls[i].id # r
                    /\ cmds[calls[i].id].seq < cmds[r].seq
  OBVIOUS
<1>1. PICK q \in Requests : q = calls[i].id
  BY CallRow DEF Inv, Call
<1>2. Created(q) /\ cmds[q].turn = calls[i].turn
  BY <1>1 DEF Inv, CallFacts, CallsAreExact, Created
<1>3. CASE calls[i].turn = worker.bound
  BY <1>1, <1>3 DEF Inv, CallFacts
<1>4. CASE calls[i].turn # worker.bound
  <2>1. cmds[q].turn <= worker.bound /\ cmds[q].turn \in Nat /\ worker.bound \in Nat
    BY <1>2 DEF Inv, Typed, Command, Worker, TurnFacts
  <2>2. cmds[q].turn < cmds[r].turn
    BY <1>2, <1>4, <2>1 DEF Mine
  <2>3. cmds[q].seq < cmds[r].seq
    BY <1>2, <2>2 DEF Inv, CommandFacts, Mine
  <2>4. QED
    BY <1>1, <1>2, <1>4, <2>3 DEF Mine
<1>5. QED
  BY <1>3, <1>4

(* A command is applied: the handle is called if this process did not before. *)
LEMMA ApplyStep ==
    ASSUME Inv, NEW r \in Requests, Apply(r)
    PROVE  Inv'
<1> DEFINE n == Len(calls)
<1>1. /\ worker.up /\ worker.loop = "apply" /\ First(r)
      /\ UNCHANGED <<row, turns, cmds, up, active, inbox, client>>
  BY Zenon DEF Apply
<1>2. PICK v \in {"acknowledged", "rejected", "sent"} :
        /\ worker' = [worker EXCEPT !.applied[r] = v, !.loop = "handled"]
        /\ \/ worker.applied[r] = v /\ UNCHANGED calls
           \/ /\ worker.applied[r] = "no"
              /\ \E ok \in BOOLEAN :
                    /\ calls' = Append(calls, [id |-> r, turn |-> worker.bound, ok |-> ok])
                    /\ v = IF ~ok THEN "rejected"
                           ELSE IF r \in Steers THEN "acknowledged" ELSE "sent"
  <2>1. worker.applied[r] \in {"no", "acknowledged", "rejected", "sent"}
    BY DEF Inv, Typed, Worker, Applied
  <2>2. CASE worker.applied[r] # "no"
    BY <2>1, <2>2 DEF Apply, Prior
  <2>3. CASE worker.applied[r] = "no"
    <3>1. PICK ok \in BOOLEAN :
            /\ calls' = Append(calls, [id |-> r, turn |-> worker.bound, ok |-> ok])
            /\ worker' = [worker EXCEPT
                 !.applied[r] = IF ~ok THEN "rejected"
                                ELSE IF r \in Steers THEN "acknowledged" ELSE "sent",
                 !.loop = "handled"]
      BY <2>3, Zenon DEF Apply, Prior
    <3>2. PICK v \in {"acknowledged", "rejected", "sent"} :
            v = IF ~ok THEN "rejected" ELSE IF r \in Steers THEN "acknowledged" ELSE "sent"
      OBVIOUS
    <3>3. QED
      BY <2>3, <3>1, <3>2
  <2>4. QED
    BY <2>2, <2>3
<1>3. /\ worker \in Worker /\ calls \in Seq(Call) /\ n \in Nat /\ DOMAIN calls = 1 .. n
      /\ worker.bound \in Nat
  BY DEF Inv, Typed, Worker
<1> DEFINE w1 == [worker EXCEPT !.applied[r] = v]
<1>4. /\ w1 \in Worker /\ w1.applied[r] = v
      /\ \A q \in Requests \ {r} : w1.applied[q] = worker.applied[q]
      /\ w1.up = worker.up /\ w1.main = worker.main /\ w1.bound = worker.bound
      /\ w1.batch = worker.batch /\ w1.late = worker.late
  BY <1>3 DEF Worker, Applied
<1>5. worker' = [w1 EXCEPT !.loop = "handled"]
  BY <1>2
<1> HIDE DEF w1, n
<1>6. /\ worker' \in Worker /\ worker'.applied = w1.applied /\ worker'.loop = "handled"
      /\ worker'.up = w1.up /\ worker'.main = w1.main /\ worker'.bound = w1.bound
      /\ worker'.batch = w1.batch /\ worker'.late = w1.late
  BY <1>4, <1>5 DEF Worker
<1>7. /\ worker'.applied[r] = v /\ v # "no"
      /\ \A q \in Requests \ {r} : worker'.applied[q] = worker.applied[q]
      /\ worker'.up = worker.up /\ worker'.main = worker.main /\ worker'.bound = worker.bound
      /\ worker'.batch = worker.batch /\ worker'.late = worker.late
  BY <1>4, <1>6
<1>8. /\ r \in worker.batch /\ Mine(r)
      /\ \A q \in worker.batch : q # r => cmds[r].seq < cmds[q].seq
      /\ \A q \in Requests : First(q) => q = r
  BY <1>1, FirstFacts
<1>9. \A q \in Requests : /\ Created(q)' <=> Created(q)
                          /\ Mine(q)' <=> Mine(q)
                          /\ First(q)' <=> First(q)
  BY <1>1, <1>7 DEF Created, Mine, First
<1>10. CommandFacts' /\ ClientFacts'
  <2>1. Settles /\ TurnsGrow
    BY <1>1, NothingSettles, NoTurnsGrow
  <2>2. QED
    BY <1>1, <2>1, SettledFacts
<1>11. TurnFacts'
  <2>1. TurnFacts
    BY DEF Inv
  <2>2. QED
    BY <1>1, <1>6, <1>7, <1>9, <2>1 DEF TurnFacts
<1>12. BatchFacts'
  <2>1. BatchFacts /\ worker.batch \subseteq Requests
    BY <1>3 DEF Inv, Worker
  <2>2. \A q \in Requests : worker'.applied[q] = "no" => worker.applied[q] = "no" /\ q # r
    BY <1>7
  <2>3. \A q \in worker.batch : First(q)' => worker'.applied[q] # "no"
    BY <1>7, <1>8, <1>9, <2>1
  <2>4. QED
    BY <1>1, <1>6, <1>7, <1>9, <2>1, <2>2, <2>3 DEF BatchFacts
<1>13. calls' \in Seq(Call) /\ CallFacts' /\ VerdictsAreEarned'
  <2>1. CASE worker.applied[r] = v /\ UNCHANGED calls
    <3>1. \A q \in Requests : worker'.applied[q] = worker.applied[q]
      BY <1>7, <2>1
    <3>2. \A i \in DOMAIN calls : calls[i].id \in Requests
      BY CallRow DEF Inv, Call
    <3>3. CallsAreExact'
      BY <1>1, <2>1 DEF Inv, CallFacts, CallsAreExact
    <3>4. CallFacts'
      BY <1>1, <1>7, <1>9, <2>1, <3>1, <3>2, <3>3 DEF Inv, CallFacts
    <3>5. VerdictsAreEarned'
      BY <1>1, <2>1 DEF Inv, VerdictsAreEarned
    <3>6. QED
      BY <1>3, <2>1, <3>4, <3>5
  <2>2. ASSUME worker.applied[r] = "no", NEW ok \in BOOLEAN,
               calls' = Append(calls, [id |-> r, turn |-> worker.bound, ok |-> ok]),
               v = IF ~ok THEN "rejected" ELSE IF r \in Steers THEN "acknowledged" ELSE "sent"
        PROVE  calls' \in Seq(Call) /\ CallFacts' /\ VerdictsAreEarned'
    <3> DEFINE c == [id |-> r, turn |-> worker.bound, ok |-> ok]
    <3>1. c \in Call /\ c.id = r /\ c.turn = worker.bound /\ c.ok = ok
      BY <1>3 DEF Call
    <3>2. calls' = Append(calls, c)
      BY <2>2
    <3> HIDE DEF c
    <3>3. /\ calls' \in Seq(Call) /\ DOMAIN calls' = 1 .. n + 1 /\ calls'[n + 1] = c
          /\ \A i \in 1 .. n : calls'[i] = calls[i]
      BY <1>3, <3>1, <3>2 DEF n
    <3>4. cmds[r].state = "sent"
      BY <1>8, <2>2 DEF Inv, BatchFacts
    <3>5. \A i \in 1 .. n : /\ calls[i].id \in Requests /\ calls[i].id # r
                            /\ cmds[calls[i].id].seq < cmds[r].seq
      BY <1>1, <1>3, <1>8, <2>2, <3>4, NotYetCalled
    <3>6. CallsAreExact'
      <4>1. ASSUME NEW i \in 1 .. n + 1
            PROVE  /\ calls'[i].turn = client[calls'[i].id].turn
                   /\ cmds[calls'[i].id].turn = calls'[i].turn
                   /\ cmds[calls'[i].id].state \notin {"absent", "pending"}
                   /\ \A j \in 1 .. i - 1 : cmds[calls'[j].id].seq < cmds[calls'[i].id].seq
        <5>1. CASE i = n + 1
          <6>1. cmds[r].turn = worker.bound /\ cmds[r].turn = client[r].turn
            BY <1>8 DEF Mine, Inv, CommandFacts
          <6>2. \A j \in 1 .. i - 1 : cmds[calls'[j].id].seq < cmds[r].seq
            BY <1>3, <3>3, <3>5, <5>1
          <6>3. QED
            BY <3>1, <3>3, <3>4, <5>1, <6>1, <6>2
        <5>2. CASE i # n + 1
          <6>1. i \in 1 .. n /\ \A j \in 1 .. i - 1 : j \in 1 .. n
            BY <1>3, <5>2
          <6>2. QED
            BY ZenonT(30), <1>3, <3>3, <6>1 DEF Inv, CallFacts, CallsAreExact
        <5>3. QED
          BY <5>1, <5>2
      <4>2. QED
        BY <1>1, <3>3, <4>1 DEF CallsAreExact
    <3>7. ASSUME NEW i \in 1 .. n + 1, calls'[i].turn = worker.bound
          PROVE  /\ worker'.applied[calls'[i].id] # "no"
                 /\ \A q \in Requests :
                      Mine(q) /\ cmds[q].state \in {"pending", "sent"}
                              /\ worker'.applied[q] = "no" =>
                          cmds[calls'[i].id].seq < cmds[q].seq
      <4>1. CASE i = n + 1
        <5>1. ASSUME NEW q \in Requests, Mine(q), cmds[q].state \in {"pending", "sent"},
                     worker'.applied[q] = "no"
              PROVE  cmds[r].seq < cmds[q].seq
          <6>1. q # r /\ worker.applied[q] = "no"
            BY <1>7, <5>1
          <6>2. CASE q \in worker.batch
            BY <1>8, <6>1, <6>2
          <6>3. CASE q \notin worker.batch
            BY <1>8, <5>1, <6>1, <6>3 DEF Inv, BatchFacts
          <6>4. QED
            BY <6>2, <6>3
        <5>2. QED
          BY <1>7, <3>1, <3>3, <4>1, <5>1
      <4>2. CASE i # n + 1
        <5>1. i \in 1 .. n /\ calls'[i] = calls[i]
          BY <1>3, <3>3, <4>2
        <5>2. calls[i].id \in Requests /\ calls[i].id # r
          BY <3>5, <5>1
        <5>3. /\ worker.applied[calls[i].id] # "no"
              /\ \A q \in Requests :
                   Mine(q) /\ cmds[q].state \in {"pending", "sent"}
                           /\ worker.applied[q] = "no" =>
                       cmds[calls[i].id].seq < cmds[q].seq
          BY <1>1, <1>3, <3>7, <5>1 DEF Inv, CallFacts
        <5>4. QED
          BY <1>7, <5>1, <5>2, <5>3
      <4>3. QED
        BY <4>1, <4>2
    <3>8. ASSUME NEW q \in Requests, q # r
          PROVE  (\E i \in DOMAIN calls' : calls'[i].id = q /\ calls'[i].ok)
                    <=> (\E i \in DOMAIN calls : calls[i].id = q /\ calls[i].ok)
      <4>1. \A i \in 1 .. n + 1 : calls'[i].id = q => i \in 1 .. n /\ calls'[i] = calls[i]
        BY <1>3, <3>1, <3>3, <3>8
      <4>2. \A i \in 1 .. n : i \in 1 .. n + 1 /\ calls'[i] = calls[i]
        BY <1>3, <3>3
      <4>3. QED
        BY <1>3, <3>3, <4>1, <4>2
    <3>9. (\E i \in DOMAIN calls' : calls'[i].id = r /\ calls'[i].ok) <=> ok
      <4>1. \A i \in 1 .. n + 1 : calls'[i].id = r => calls'[i] = c
        BY <1>3, <3>3, <3>5
      <4>2. n + 1 \in 1 .. n + 1
        BY <1>3
      <4>3. QED
        BY <3>1, <3>3, <4>1, <4>2
    <3>10. ASSUME NEW q \in Requests
           PROVE  LET did == \E i \in DOMAIN calls' : calls'[i].id = q /\ calls'[i].ok
                  IN  /\ worker'.applied[q] # "no" => Created(q)'
                      /\ worker'.applied[q] = "acknowledged" => q \in Steers /\ did
                      /\ worker'.applied[q] = "rejected" => ~did
      <4>1. CASE q = r
        BY <1>7, <1>8, <1>9, <2>2, <3>9, <4>1 DEF Mine
      <4>2. CASE q # r
        BY <1>7, <1>9, <3>8, <4>2 DEF Inv, CallFacts
      <4>3. QED
        BY <4>1, <4>2
    <3>11. CallFacts'
      BY <1>1, <1>7, <1>9, <3>3, <3>6, <3>7, <3>10 DEF CallFacts
    <3>12. VerdictsAreEarned'
      <4>1. ASSUME NEW q \in Requests
            PROVE  LET did == \E i \in DOMAIN calls' : calls'[i].id = q /\ calls'[i].ok
                       ended == turns[cmds[q].turn].status
                   IN  /\ cmds[q].state = "acknowledged" =>
                             IF q \in Steers THEN did ELSE ended = "interrupted"
                       /\ cmds[q].state = "rejected" /\ did =>
                             q \in Interrupts /\ ended = "completed"
        <5>1. CASE q = r
          BY <3>4, <5>1
        <5>2. CASE q # r
          BY <3>8, <5>2 DEF Inv, VerdictsAreEarned
        <5>3. QED
          BY <5>1, <5>2
      <4>2. QED
        BY <1>1, <4>1 DEF VerdictsAreEarned
    <3>13. QED
      BY <3>3, <3>11, <3>12
  <2>3. QED
    BY <1>2, <2>1, <2>2
<1>14. Typed'
  BY <1>1, <1>6, <1>13 DEF Inv, Typed
<1>15. QED
  BY <1>10, <1>11, <1>12, <1>13, <1>14 DEF Inv

(* What became of a command is handed in, once; the answer is not looked at. *)
LEMMA AcknowledgeStep ==
    ASSUME Inv, NEW r \in Requests, Acknowledge(r)
    PROVE  Inv'
<1> DEFINE v == worker.applied[r]
           next == Batch(worker, worker.batch \ {r})
           over == [worker EXCEPT !.loop = "off", !.batch = {}]
<1>1. /\ worker.up /\ worker.loop = "handled" /\ First(r)
      /\ UNCHANGED <<row, turns, up, active, inbox, client, calls>>
  BY DEF Acknowledge
<1>2. /\ worker' \in {next, over}
      /\ \/ UNCHANGED cmds
         \/ v # "sent" /\ cmds[r].state = "sent" /\ cmds' = [cmds EXCEPT ![r].state = v]
  BY DEF Acknowledge
<1>3. worker \in Worker /\ cmds \in [Requests -> Command] /\ Len(turns) \in Nat
  BY DEF Inv, Typed
<1>4. r \in worker.batch /\ Mine(r) /\ v \in {"sent", "acknowledged", "rejected"}
  BY <1>1, <1>3, FirstFacts DEF Inv, BatchFacts, Worker, Applied
<1> HIDE DEF v
<1>5. /\ \A q \in Requests \ {r} : cmds'[q] = cmds[q]
      /\ cmds'[r] \in Command /\ cmds'[r].turn = cmds[r].turn /\ cmds'[r].seq = cmds[r].seq
      /\ \/ cmds'[r] = cmds[r]
         \/ v # "sent" /\ cmds[r].state = "sent" /\ cmds'[r].state = v
      /\ cmds' \in [Requests -> Command]
  BY <1>2, <1>3, <1>4 DEF Command, CommandStates
<1>6. Settles /\ TurnsGrow
  <2>1. Settles
    BY <1>4, <1>5 DEF Settles
  <2>2. QED
    BY <1>1, <2>1, NoTurnsGrow
<1>7. CommandFacts' /\ ClientFacts'
  BY <1>1, <1>6, SettledFacts
<1>8. VerdictsAreEarned'
  <2>1. /\ v = "acknowledged" =>
              r \in Steers /\ \E i \in DOMAIN calls : calls[i].id = r /\ calls[i].ok
        /\ v = "rejected" => \A i \in DOMAIN calls : calls[i].id = r => ~calls[i].ok
    BY DEF Inv, CallFacts, v
  <2>2. \A q \in Requests : cmds'[q].state # cmds[q].state => q = r /\ cmds'[q].state = v
    BY <1>5
  <2>3. QED
    BY <1>1, <1>6, <2>1, <2>2, SettledVerdicts
<1>9. \A q \in Requests : /\ Created(q)' <=> Created(q)
                          /\ cmds'[q].turn = cmds[q].turn /\ cmds'[q].seq = cmds[q].seq
  BY <1>5, <1>6 DEF Settles, Created
<1>10. CASE worker' = next
  <2> DEFINE b == worker.batch \ {r}
  <2>1. /\ worker' \in Worker /\ worker'.batch = b /\ worker'.up = worker.up
        /\ worker'.loop = (IF b = {} THEN "idle" ELSE "apply")
        /\ worker'.main = worker.main /\ worker'.bound = worker.bound
        /\ worker'.applied = worker.applied /\ worker'.late = worker.late
    <3>1. b \in SUBSET Requests
      BY <1>3 DEF Worker
    <3>2. QED
      BY <1>3, <1>10, <3>1, BatchRow
  <2>2. worker'.loop \in {"idle", "apply"} /\ (worker'.loop = "idle" => b = {})
    BY <2>1
  <2>3. \A q \in Requests : Mine(q)' <=> Mine(q)
    BY <1>9, <2>1 DEF Mine
  <2>4. TurnFacts'
    <3>1. TurnFacts
      BY DEF Inv
    <3>2. QED
      BY <1>1, <1>9, <2>1, <2>2, <3>1 DEF TurnFacts
  <2>5. BatchFacts'
    <3>1. BatchFacts /\ worker.batch \subseteq Requests
      BY <1>3 DEF Inv, Worker
    <3>2. \A q \in b : q \in worker.batch /\ q \in Requests /\ cmds'[q] = cmds[q]
      BY <1>5, <3>1
    <3>3. ASSUME NEW q \in b, NEW p \in Requests \ b, Mine(p),
                 cmds'[p].state \in {"pending", "sent"}, worker.applied[p] = "no"
          PROVE  cmds[q].seq < cmds[p].seq
      <4>1. p # r
        BY <1>4, <3>3 DEF v
      <4>2. p \notin worker.batch /\ cmds'[p] = cmds[p]
        BY <1>5, <3>3, <4>1
      <4>3. QED
        BY <3>1, <3>2, <3>3, <4>2 DEF BatchFacts
    <3>4. QED
      BY <1>9, <2>1, <2>2, <2>3, <3>1, <3>2, <3>3 DEF BatchFacts
  <2>6. CallFacts'
    <3>1. /\ CallsAreExact'
          /\ \A i \in DOMAIN calls : calls[i].id \in Requests
                                     /\ cmds'[calls[i].id].seq = cmds[calls[i].id].seq
      BY <1>1, <1>6, SettledCalls
    <3>2. \A q \in Requests : cmds'[q].state \in {"pending", "sent"} =>
                              cmds[q].state \in {"pending", "sent"}
      BY <1>5
    <3>3. QED
      BY <1>1, <1>9, <2>1, <2>3, <3>1, <3>2 DEF Inv, CallFacts
  <2>7. Typed'
    BY <1>1, <1>6, <2>1 DEF Inv, Typed, Settles
  <2>8. QED
    BY <1>7, <1>8, <2>4, <2>5, <2>6, <2>7 DEF Inv
<1>11. CASE worker' = over
  <2> DEFINE w1 == [worker EXCEPT !.loop = "off"]
  <2>1. /\ w1 \in Worker /\ w1.loop = "off" /\ w1.up = worker.up /\ w1.main = worker.main
        /\ w1.bound = worker.bound /\ w1.applied = worker.applied /\ w1.late = worker.late
    BY <1>3 DEF Worker
  <2>2. worker' = [w1 EXCEPT !.batch = {}]
    BY <1>11
  <2> HIDE DEF w1
  <2>3. /\ worker' \in Worker /\ worker'.loop = "off" /\ worker'.batch = {}
        /\ worker'.up = w1.up /\ worker'.main = w1.main
        /\ worker'.bound = w1.bound /\ worker'.applied = w1.applied /\ worker'.late = w1.late
    BY <2>1, <2>2 DEF Worker
  <2>4. /\ worker'.up = worker.up /\ worker'.main = worker.main
        /\ worker'.bound = worker.bound /\ worker'.applied = worker.applied
        /\ worker'.late = worker.late
    BY <2>1, <2>3
  <2>5. BatchFacts' /\ CallFacts'
    BY <1>1, <1>6, <2>3, <2>4, RestingFacts
  <2>6. TurnFacts'
    <3>1. TurnFacts
      BY DEF Inv
    <3>2. QED
      BY <1>1, <1>9, <2>3, <2>4, <3>1 DEF TurnFacts
  <2>7. Typed'
    BY <1>1, <1>6, <2>3 DEF Inv, Typed, Settles
  <2>8. QED
    BY <1>7, <1>8, <2>5, <2>6, <2>7 DEF Inv
<1>12. QED
  BY <1>2, <1>10, <1>11

-----------------------------------------------------------------------------
(* The ends of turns, workers and harnesses. *)

(* What the end of a turn, or of its worker, makes of the open commands. *)
LEMMA ClosedRows ==
    ASSUME Inv, NEW t, NEW verdict \in {"acknowledged", "rejected"},
           cmds' \in {cmds, EndOf(t, verdict), Unresolved(EndOf(t, verdict)), Unresolved(cmds)}
    PROVE  /\ Settles
           /\ \A r \in Requests : cmds'[r].state # cmds[r].state =>
                \/ cmds'[r].state = "unresolved"
                \/ /\ cmds' \in {EndOf(t, verdict), Unresolved(EndOf(t, verdict))}
                   /\ r \in Interrupts /\ cmds[r].turn = t /\ cmds'[r].state = verdict
<1> DEFINE ended == EndOf(t, verdict)
<1>1. cmds \in [Requests -> Command]
  BY DEF Inv, Typed
<1>2. /\ ended \in [Requests -> Command]
      /\ \A r \in Requests :
          /\ ended[r].turn = cmds[r].turn /\ ended[r].seq = cmds[r].seq
          /\ \/ ended[r] = cmds[r]
             \/ /\ r \in Interrupts /\ cmds[r].turn = t /\ cmds[r].state = "sent"
                /\ ended[r].state = verdict
  BY <1>1 DEF EndOf, OfTurn, Command, CommandStates
<1> HIDE DEF ended
<1>3. ASSUME NEW cs \in [Requests -> Command]
      PROVE  /\ Unresolved(cs) \in [Requests -> Command]
             /\ \A r \in Requests :
                  /\ Unresolved(cs)[r].turn = cs[r].turn /\ Unresolved(cs)[r].seq = cs[r].seq
                  /\ IF cs[r].state \in {"pending", "sent"}
                     THEN Unresolved(cs)[r].state = "unresolved"
                     ELSE Unresolved(cs)[r] = cs[r]
  BY <1>3 DEF Unresolved, Command, CommandStates
<1>4. CASE cmds' = cmds
  BY <1>1, <1>4 DEF Settles
<1>5. CASE cmds' = ended
  BY <1>1, <1>2, <1>5 DEF Settles, ended
<1>6. CASE cmds' = Unresolved(ended)
  <2>1. /\ cmds' \in [Requests -> Command]
        /\ \A r \in Requests :
             /\ cmds'[r].turn = ended[r].turn /\ cmds'[r].seq = ended[r].seq
             /\ IF ended[r].state \in {"pending", "sent"}
                THEN cmds'[r].state = "unresolved" ELSE cmds'[r] = ended[r]
    BY <1>2, <1>3, <1>6
  <2>2. QED
    BY <1>1, <1>2, <1>6, <2>1 DEF Settles, ended
<1>7. CASE cmds' = Unresolved(cmds)
  <2>1. /\ cmds' \in [Requests -> Command]
        /\ \A r \in Requests :
             /\ cmds'[r].turn = cmds[r].turn /\ cmds'[r].seq = cmds[r].seq
             /\ IF cmds[r].state \in {"pending", "sent"}
                THEN cmds'[r].state = "unresolved" ELSE cmds'[r] = cmds[r]
    BY <1>1, <1>3, <1>7
  <2>2. QED
    BY <1>1, <2>1 DEF Settles
<1>8. QED
  BY <1>4, <1>5, <1>6, <1>7 DEF ended

(* The verdict on an interrupt is what the end of its turn proves. *)
LEMMA ClosedVerdicts ==
    ASSUME Inv, NEW t, NEW verdict \in {"acknowledged", "rejected"}, TurnsGrow, UNCHANGED calls,
           \/ cmds' \in {cmds, Unresolved(cmds)}
           \/ /\ cmds' \in {EndOf(t, verdict), Unresolved(EndOf(t, verdict))}
              /\ turns'[t].status = IF verdict = "rejected" THEN "completed" ELSE "interrupted"
    PROVE  Settles /\ VerdictsAreEarned'
<1>1. cmds' \in {cmds, EndOf(t, verdict), Unresolved(EndOf(t, verdict)), Unresolved(cmds)}
  OBVIOUS
<1>2. /\ Settles
      /\ \A r \in Requests : cmds'[r].state # cmds[r].state =>
                \/ cmds'[r].state = "unresolved"
                \/ /\ cmds' \in {EndOf(t, verdict), Unresolved(EndOf(t, verdict))}
                   /\ r \in Interrupts /\ cmds[r].turn = t /\ cmds'[r].state = verdict
  BY <1>1, ClosedRows
<1>3. CASE turns'[t].status = IF verdict = "rejected" THEN "completed" ELSE "interrupted"
  <2>1. \A r \in Interrupts : r \notin Steers
    BY KindsAssumption
  <2>2. QED
    BY <1>2, <1>3, <2>1, SettledVerdicts
<1>4. CASE cmds' \in {cmds, Unresolved(cmds)}
  <2>1. cmds \in [Requests -> Command]
    BY DEF Inv, Typed
  <2>2. \A r \in Requests : cmds'[r].state # cmds[r].state => cmds'[r].state = "unresolved"
    BY <1>4, <2>1 DEF Unresolved, Command
  <2>3. QED
    BY <1>2, <2>2, SettledVerdicts
<1>5. QED
  BY <1>3, <1>4

(* A result that is handed in: its turn completed. *)
LEMMA SubmittedFacts ==
    ASSUME Inv, Submitted
    PROVE  /\ worker.up /\ worker.main = "finish" /\ worker.loop = "off" /\ worker.late = 0
           /\ worker.batch = {} /\ worker.bound = Len(turns) /\ turns # <<>>
           /\ turns[Len(turns)].status = "completed" /\ active \in {0, Len(turns)}
           /\ worker \in Worker /\ Len(turns) \in Nat
           /\ row' \in [state : RowStates, attempt : 1 .. MaxAttempts] /\ row'.state = "done"
<1>1. /\ worker.up /\ worker.main = "finish" /\ worker.loop = "off"
      /\ row' = [row EXCEPT !.state = "done"]
  BY DEF Submitted
<1>2. worker \in Worker /\ Len(turns) \in Nat /\ worker.batch = {} /\ worker.late = 0
      /\ row \in [state : RowStates, attempt : 1 .. MaxAttempts]
  BY <1>1, DownFacts
<1>3. row' \in [state : RowStates, attempt : 1 .. MaxAttempts] /\ row'.state = "done"
  BY <1>1, <1>2 DEF RowStates
<1>4. QED
  BY <1>1, <1>2, <1>3 DEF Inv, TurnFacts

(* The result of a worker closes the commands of the turn in memory. *)
LEMMA SubmitStep ==
    ASSUME Inv, Submit
    PROVE  Inv'
<1>1. /\ Submitted /\ active' = 0 /\ worker' \in {Dead(worker), worker}
      /\ cmds' = IF active # 0 THEN Unresolved(EndOf(active, "rejected")) ELSE cmds
      /\ UNCHANGED <<turns, up, inbox, client, calls>>
  BY DEF Submit
<1>2. /\ worker.up /\ worker.main = "finish" /\ worker.loop = "off" /\ worker.late = 0
      /\ worker.batch = {} /\ worker.bound = Len(turns) /\ turns # <<>>
      /\ turns[Len(turns)].status = "completed" /\ active \in {0, Len(turns)}
      /\ worker \in Worker /\ Len(turns) \in Nat
      /\ row' \in [state : RowStates, attempt : 1 .. MaxAttempts] /\ row'.state = "done"
  BY <1>1, SubmittedFacts
<1>3. TurnsGrow
  BY <1>1, NoTurnsGrow
<1>4. Settles /\ VerdictsAreEarned'
  <2>1. \/ cmds' \in {cmds, Unresolved(cmds)}
        \/ /\ cmds' \in {EndOf(active, "rejected"), Unresolved(EndOf(active, "rejected"))}
           /\ turns'[active].status = "completed"
    BY <1>1, <1>2
  <2>2. QED
    BY <1>1, <1>3, <2>1, ClosedVerdicts
<1>5. up' \in BOOLEAN
  BY <1>1 DEF Inv, Typed
<1>6. CASE worker' = Dead(worker)
  <2>1. /\ worker' \in Worker /\ ~worker'.up /\ worker'.loop = "off" /\ worker'.batch = {}
        /\ worker'.late = 0 /\ \A r \in Requests : worker'.applied[r] = "no"
    BY <1>2, <1>6, DeadRow
  <2>2. QED
    BY <1>1, <1>2, <1>3, <1>4, <1>5, <2>1, RestingStep
<1>7. CASE worker' = worker
  <2>1. CommandFacts' /\ ClientFacts'
    BY <1>1, <1>3, <1>4, SettledFacts
  <2>2. BatchFacts' /\ CallFacts'
    BY <1>1, <1>2, <1>4, <1>7, RestingFacts
  <2>3. Typed'
    BY <1>1, <1>2, <1>4, <1>5, <1>7 DEF Inv, Typed, Settles
  <2>4. TurnFacts'
    BY <1>1, <1>2, <1>7 DEF TurnFacts
  <2>5. QED
    BY <1>4, <2>1, <2>2, <2>3, <2>4 DEF Inv
<1>8. QED
  BY <1>1, <1>6, <1>7

(* The inspection closes the commands by what the last turn proves. *)
LEMMA InspectExitedStep ==
    ASSUME Inv, InspectExited
    PROVE  Inv'
<1>1. row.state = "exited" /\ UNCHANGED <<up, active, inbox, worker, client, calls>>
  BY DEF InspectExited
<1>2. /\ worker \in Worker /\ ~worker.up /\ worker.loop = "off" /\ worker.batch = {}
      /\ (worker.late # 0 => worker.late = Len(turns))
      /\ row \in [state : RowStates, attempt : 1 .. MaxAttempts] /\ Len(turns) \in Nat
      /\ active \in 0 .. Len(turns)
      /\ (active # 0 => \A r \in Requests : Created(r) => cmds[r].turn <= active)
  BY <1>1, DownFacts
<1>3. PICK s \in {"none", "live", "completed", "invalid", "interrupted"} :
        /\ Inspected(s) /\ TurnsGrow /\ Len(turns') = Len(turns)
        /\ s \in {"completed", "interrupted"} => turns'[Len(turns)].status = s
  <2>1. CASE Inspected("none") /\ UNCHANGED turns
    BY <2>1, NoTurnsGrow
  <2>2. CASE turns # <<>> /\ Inspected(Last(turns).status) /\ UNCHANGED turns
    <3>1. turns \in Seq(Turn)
      BY DEF Inv, Typed
    <3>2. Last(turns) = turns[Len(turns)] /\ turns[Len(turns)] \in Turn
      BY <2>2, <3>1 DEF Last
    <3>3. PICK s \in Statuses : s = Last(turns).status
      BY <3>2 DEF Turn
    <3>4. s \in {"none", "live", "completed", "invalid", "interrupted"}
      BY DEF Statuses
    <3>5. QED
      BY <2>2, <3>2, <3>3, <3>4, NoTurnsGrow
  <2>3. CASE turns # <<>> /\ Last(turns).status = "live"
             /\ \E s \in Endings : Ended(s) /\ Inspected(s)
    <3>1. PICK s \in Endings : Ended(s) /\ Inspected(s)
      BY <2>3
    <3>2. s \in Statuses /\ s \in {"completed", "invalid", "interrupted"}
      BY DEF Endings, Statuses
    <3>3. /\ Len(turns') = Len(turns) /\ turns'[Len(turns)].status = s
          /\ (turns[Len(turns)].status = "live" => TurnsGrow)
      BY <2>3, <3>1, <3>2, EndedTurns
    <3>4. turns[Len(turns)].status = "live"
      BY <2>3 DEF Last
    <3>5. QED
      BY <3>1, <3>2, <3>3, <3>4
  <2>4. QED
    BY <2>1, <2>2, <2>3 DEF InspectExited
<1>4. row' \in [state : RowStates, attempt : 1 .. MaxAttempts]
  <2>1. \E e \in {"done", "attention", "retry", "exited"} : row' = [row EXCEPT !.state = e]
    BY <1>3 DEF Inspected, Becomes
  <2>2. QED
    BY <1>2, <2>1 DEF RowStates
<1>5. Settles /\ VerdictsAreEarned'
  <2>1. CASE s = "completed" /\ cmds' = Unresolved(EndOf(Len(turns), "rejected"))
    BY <1>1, <1>3, <2>1, ClosedVerdicts
  <2>2. CASE s = "interrupted" /\ cmds' = Unresolved(EndOf(Len(turns), "acknowledged"))
    <3>1. turns'[Len(turns)].status
            = IF "acknowledged" = "rejected" THEN "completed" ELSE "interrupted"
      BY <1>3, <2>2
    <3>2. QED
      BY <1>1, <1>3, <2>2, <3>1, ClosedVerdicts
  <2>3. CASE cmds' = Unresolved(cmds)
    BY <1>1, <1>3, <2>3, ClosedVerdicts
  <2>4. QED
    BY <1>3, <2>1, <2>2, <2>3 DEF Inspected
<1>6. up' \in BOOLEAN
  BY <1>1 DEF Inv, Typed
<1>7. QED
  BY <1>1, <1>2, <1>3, <1>4, <1>5, <1>6, RestingStep

(* The harness dies: what it remembered and had not served is gone.  The worker *)
(* may be in the middle of a batch only if no command is closed.                *)
LEMMA DownStep ==
    ASSUME Inv, Down, UNCHANGED <<turns, calls>>, Settles, VerdictsAreEarned',
           row' \in [state : RowStates, attempt : 1 .. MaxAttempts],
           row' = row \/ row'.state = "done",
           UNCHANGED cmds \/ worker.loop = "off"
    PROVE  Inv'
<1>1. /\ up' = FALSE /\ active' = 0 /\ inbox' = <<>>
      /\ client' = [r \in Requests |->
            IF r \in Waiting THEN Told(client[r], "uncertain") ELSE client[r]]
      /\ worker' = [worker EXCEPT !.child = FALSE, !.late = 0]
  BY DEF Down
<1>2. /\ worker \in Worker /\ client \in [Requests -> Client] /\ Len(turns) \in Nat
      /\ (worker.loop \in {"off", "idle"} => worker.batch = {})
  BY DownFacts DEF Inv, Typed
<1> DEFINE w1 == [worker EXCEPT !.child = FALSE]
<1>3. /\ w1 \in Worker /\ w1.up = worker.up /\ w1.main = worker.main
      /\ w1.bound = worker.bound /\ w1.loop = worker.loop /\ w1.batch = worker.batch
      /\ w1.applied = worker.applied
  BY <1>2 DEF Worker
<1>4. worker' = [w1 EXCEPT !.late = 0]
  BY <1>1
<1> HIDE DEF w1
<1>5. /\ worker' \in Worker /\ worker'.up = w1.up /\ worker'.main = w1.main
      /\ worker'.bound = w1.bound /\ worker'.loop = w1.loop /\ worker'.batch = w1.batch
      /\ worker'.applied = w1.applied /\ worker'.late = 0
  BY <1>3, <1>4 DEF Worker
<1>6. /\ worker'.up = worker.up /\ worker'.main = worker.main
      /\ worker'.bound = worker.bound /\ worker'.loop = worker.loop
      /\ worker'.batch = worker.batch /\ worker'.applied = worker.applied
  BY <1>3, <1>5
<1>7. ASSUME NEW r \in Requests
      PROVE  /\ client'[r] \in Client /\ client'[r].turn = client[r].turn
             /\ client'[r].cut = client[r].cut /\ client'[r].told = client[r].told
             /\ client'[r].turn = 0 => client'[r] = NoClient
             /\ client'[r].at = "idle" /\ client'[r].turn # 0 =>
                    client'[r].cut \/ client'[r].uncertain
             /\ client'[r].told # "nothing" => client'[r].at = "gone"
  <2>1. RequestFacts(client[r], r, inbox) /\ client[r] \in Client
    BY <1>2 DEF Inv, ClientFacts
  <2>2. CASE r \in Waiting
    <3>1. client'[r] = Told(client[r], "uncertain") /\ client[r].at \notin {"idle", "gone"}
      BY <1>1, <2>2 DEF Waiting
    <3>2. /\ client'[r] \in Client /\ client'[r].turn = client[r].turn
          /\ client'[r].cut = client[r].cut /\ client'[r].told = client[r].told
          /\ client'[r].at = "idle" /\ client'[r].uncertain
      BY <2>1, <3>1, ToldRow
    <3>3. client[r].turn # 0
      BY <2>1, <3>1 DEF RequestFacts, NoClient
    <3>4. client[r].told = "nothing"
      BY <2>1, <3>1 DEF RequestFacts
    <3>5. QED
      BY <3>2, <3>3, <3>4
  <2>3. CASE r \notin Waiting
    <3>1. client'[r] = client[r]
      BY <1>1, <2>3
    <3>2. QED
      BY <2>1, <3>1 DEF RequestFacts
  <2>4. QED
    BY <2>2, <2>3
<1>8. client' \in [Requests -> Client] /\ \A r \in Requests : client'[r].turn = client[r].turn
  <2>1. \A r \in Requests : client'[r] \in Client /\ client'[r].turn = client[r].turn
    BY <1>7
  <2>2. QED
    BY <1>1, <2>1
<1>9. TurnsGrow
  BY NoTurnsGrow
<1>10. CommandFacts'
  BY <1>8, <1>9, SettledFacts
<1>11. \A r \in Requests : /\ Created(r)' <=> Created(r)
                           /\ cmds'[r].turn = cmds[r].turn /\ cmds'[r].seq = cmds[r].seq
                           /\ cmds[r].state = "rejected" => cmds'[r].state = "rejected"
  BY DEF Settles, Created
<1>12. ClientFacts'
  <2>1. ASSUME NEW r \in Requests PROVE RequestFacts(client[r], r, inbox)'
    <3>1. RequestFacts(client[r], r, inbox)
      BY DEF Inv, ClientFacts
    <3>2. client[r].told = "accepted" => Created(r)'
      BY <1>11, <3>1 DEF RequestFacts
    <3>3. client[r].told = "rejected" /\ ~client[r].cut =>
              cmds'[r].state = "rejected" \/ ~Created(r)'
      BY <1>11, <3>1 DEF RequestFacts
    <3>4. client[r].turn <= Len(turns')
      BY <3>1 DEF RequestFacts
    <3>5. DOMAIN inbox' = {}
      BY <1>1
    <3>6. QED
      BY <1>7, <3>2, <3>3, <3>4, <3>5 DEF RequestFacts
  <2>2. DOMAIN inbox' = {}
    BY <1>1
  <2>3. QED
    BY <2>1, <2>2 DEF ClientFacts
<1>13. TurnFacts'
  <2>1. TurnFacts
    BY DEF Inv
  <2>2. active' = 0 /\ turns' = turns /\ worker'.late = 0
    BY <1>1, <1>5
  <2>3. row'.state \in {"exited", "retry", "attention", "cancelled"} => row' = row
    OBVIOUS
  <2>4. ASSUME worker'.loop # "off"
        PROVE  /\ worker'.up /\ worker'.bound \in 1 .. Len(turns')
               /\ \A r \in Requests : Created(r)' => cmds'[r].turn <= worker'.bound
               /\ worker'.main = "bind" => worker'.bound < Len(turns')
    BY <1>6, <1>11, <2>1, <2>2, <2>4 DEF TurnFacts
  <2>5. ASSUME worker'.up, worker'.main = "bind"
        PROVE  /\ active' < Len(turns') /\ turns'[Len(turns')].status = "live"
               /\ \A r \in Requests : Created(r)' => cmds'[r].turn < Len(turns')
    <3>1. /\ active < Len(turns) /\ turns[Len(turns)].status = "live"
          /\ \A r \in Requests : Created(r) => cmds[r].turn < Len(turns)
      BY <1>6, <2>1, <2>5 DEF TurnFacts
    <3>2. Len(turns) \in Nat /\ active \in 0 .. Len(turns)
      BY DownFacts
    <3>3. 0 < Len(turns)
      BY <3>1, <3>2
    <3>4. QED
      BY <1>11, <2>2, <3>1, <3>3
  <2>6. ASSUME worker'.up, worker'.main \in {"turn", "finish"}
        PROVE  /\ worker'.bound = Len(turns') /\ turns' # <<>>
               /\ turns'[Len(turns')].status
                    = IF worker'.main = "turn" THEN "live" ELSE "completed"
    BY <1>6, <2>1, <2>2, <2>6 DEF TurnFacts
  <2>7. row'.state \in {"exited", "retry", "attention", "cancelled"} => ~worker'.up
    BY <1>6, <2>1, <2>3 DEF TurnFacts
  <2>8. QED
    BY <2>2, <2>4, <2>5, <2>6, <2>7 DEF TurnFacts
<1>14. BatchFacts' /\ CallFacts'
  <2>1. CASE worker.loop = "off"
    BY <1>2, <1>5, <1>6, <1>8, <2>1, RestingFacts
  <2>2. CASE UNCHANGED cmds
    <3>1. \A r \in Requests : Mine(r)' <=> Mine(r)
      BY <1>6, <1>11 DEF Mine
    <3>2. BatchFacts'
      <4>1. BatchFacts /\ worker.batch \subseteq Requests
        BY <1>2 DEF Inv, Worker
      <4>2. \A r \in worker.batch : First(r)' <=> First(r)
        BY <1>6, <2>2 DEF First
      <4>3. QED
        BY <1>6, <2>2, <3>1, <4>1, <4>2 DEF BatchFacts
    <3>3. CallsAreExact' /\ \A i \in DOMAIN calls : calls[i].id \in Requests
      BY <1>8, SettledCalls
    <3>4. CallFacts'
      BY <1>6, <1>11, <2>2, <3>1, <3>3 DEF Inv, CallFacts
    <3>5. QED
      BY <3>2, <3>4
  <2>3. QED
    BY <2>1, <2>2
<1>15. Typed'
  <2>1. <<>> \in Seq(Message)
    OBVIOUS
  <2>2. /\ up' = FALSE /\ active' = 0 /\ inbox' = <<>>
        /\ turns' = turns /\ calls' = calls /\ cmds' \in [Requests -> Command]
    BY <1>1 DEF Settles
  <2>3. /\ turns \in Seq(Turn) /\ Len(turns) <= MaxTurns /\ Len(turns) \in Nat
        /\ calls \in Seq(Call)
    BY DEF Inv, Typed
  <2>4. active' \in 0 .. Len(turns') /\ Len(turns') <= MaxTurns /\ turns' \in Seq(Turn)
    BY <2>2, <2>3
  <2>5. up' \in BOOLEAN /\ inbox' \in Seq(Message) /\ calls' \in Seq(Call)
    BY <2>1, <2>2, <2>3
  <2>6. QED
    BY <1>5, <1>8, <2>2, <2>4, <2>5 DEF Typed
<1>16. QED
  BY <1>10, <1>12, <1>13, <1>14, <1>15 DEF Inv

(* Between two steps of the harness, nothing else is touched. *)
LEMMA CrashStep ==
    ASSUME Inv, Crash
    PROVE  Inv'
<1>1. Down /\ UNCHANGED <<row, turns, cmds, calls>>
  BY DEF Crash
<1>2. Settles
  BY <1>1, NothingSettles
<1>3. VerdictsAreEarned'
  BY <1>1 DEF Inv, VerdictsAreEarned
<1>4. row' \in [state : RowStates, attempt : 1 .. MaxAttempts]
  BY <1>1, DownFacts
<1>5. QED
  BY <1>1, <1>2, <1>3, <1>4, DownStep

(* In the middle of taking a result, some of its commands are closed. *)
LEMMA CrashInSubmitStep ==
    ASSUME Inv, CrashInSubmit
    PROVE  Inv'
<1>1. /\ Submitted /\ Down /\ active # 0 /\ UNCHANGED <<turns, calls>>
      /\ cmds' \in {cmds, EndOf(active, "rejected")}
  BY DEF CrashInSubmit
<1>2. /\ worker.loop = "off" /\ turns[Len(turns)].status = "completed"
      /\ active \in {0, Len(turns)}
      /\ row' \in [state : RowStates, attempt : 1 .. MaxAttempts] /\ row'.state = "done"
  BY <1>1, SubmittedFacts
<1>3. TurnsGrow
  BY <1>1, NoTurnsGrow
<1>4. Settles /\ VerdictsAreEarned'
  <2>1. \/ cmds' \in {cmds, Unresolved(cmds)}
        \/ /\ cmds' \in {EndOf(active, "rejected"), Unresolved(EndOf(active, "rejected"))}
           /\ turns'[active].status = "completed"
    BY <1>1, <1>2
  <2>2. QED
    BY <1>1, <1>3, <2>1, ClosedVerdicts
<1>5. QED
  BY <1>1, <1>2, <1>4, DownStep

(* A restart finds what is on the disk. *)
LEMMA RestartStep ==
    ASSUME Inv, Restart
    PROVE  Inv'
<1>1. up' = TRUE /\ UNCHANGED <<row, turns, cmds, active, inbox, worker, client, calls>>
  BY DEF Restart
<1>2. TurnsGrow
  BY <1>1, NoTurnsGrow
<1>3. CommandFacts' /\ BatchFacts' /\ CallFacts' /\ VerdictsAreEarned' /\ ClientFacts'
  BY <1>1, <1>2, SameBatch
<1>4. Typed'
  BY <1>1 DEF Inv, Typed
<1>5. TurnFacts'
  <2>1. TurnFacts
    BY DEF Inv
  <2>2. QED
    BY <1>1, <2>1 DEF TurnFacts, Created
<1>6. QED
  BY <1>3, <1>4, <1>5 DEF Inv

-----------------------------------------------------------------------------
(* The theorems. *)

(* Nothing is asked for, handed out or called yet. *)
LEMMA InitInv == Init => Inv
<1> SUFFICES ASSUME Init PROVE Inv
  OBVIOUS
<1>1. /\ row = [state |-> "running", attempt |-> 1] /\ turns = <<>> /\ up = TRUE /\ active = 0
      /\ cmds = [r \in Requests |-> NoCommand] /\ client = [r \in Requests |-> NoClient]
      /\ inbox = <<>> /\ calls = <<>> /\ worker = Fresh
  BY DEF Init
<1>2. /\ Fresh \in Worker /\ Fresh.up /\ Fresh.main = "start" /\ Fresh.late = 0
      /\ Fresh.loop = "off" /\ Fresh.batch = {} /\ \A r \in Requests : Fresh.applied[r] = "no"
  <2>1. [r \in Requests |-> "no"] \in [Requests -> Applied]
    BY DEF Applied
  <2>2. QED
    BY <2>1 DEF Fresh, Worker
<1>3. \A r \in Requests : ~Created(r) /\ cmds[r] = NoCommand /\ client[r] = NoClient
  BY <1>1 DEF Created, NoCommand
<1>4. Typed
  <2>1. row \in [state : RowStates, attempt : 1 .. MaxAttempts]
    BY <1>1, BoundsAssumption DEF RowStates
  <2>2. <<>> \in Seq(Turn) /\ <<>> \in Seq(Message) /\ <<>> \in Seq(Call) /\ Len(<<>>) = 0
    OBVIOUS
  <2>3. NoCommand \in Command
    BY DEF NoCommand, Command, CommandStates
  <2>4. NoClient \in Client
    BY DEF NoClient, Client, Phases
  <2>5. QED
    BY <1>1, <1>2, <2>1, <2>2, <2>3, <2>4, BoundsAssumption DEF Typed
<1>5. CommandFacts
  <2>1. {r \in Requests : Created(r)} = {}
    BY <1>3
  <2>2. Cardinality({r \in Requests : Created(r)}) = 0
    BY <2>1, FS_EmptySet
  <2>3. {cmds[r].seq : r \in Requests} \ {0} = {}
    BY <1>3 DEF NoCommand
  <2>4. 1 .. 0 = {}
    OBVIOUS
  <2>5. QED
    BY <1>3, <2>2, <2>3, <2>4 DEF CommandFacts
<1>6. TurnFacts
  BY <1>1, <1>2 DEF TurnFacts
<1>7. BatchFacts
  BY <1>1, <1>2 DEF BatchFacts
<1>8. CallsAreExact /\ CallFacts
  BY <1>1, <1>2 DEF CallFacts, CallsAreExact
<1>9. VerdictsAreEarned
  BY <1>3 DEF VerdictsAreEarned, NoCommand
<1>10. ClientFacts
  BY <1>1, <1>3 DEF ClientFacts, RequestFacts, NoClient
<1>11. QED
  BY <1>4, <1>5, <1>6, <1>7, <1>8, <1>9, <1>10 DEF Inv

(* A step that changes nothing. *)
LEMMA StutterStep == ASSUME Inv, UNCHANGED vars PROVE Inv'
<1>1. UNCHANGED <<row, turns, cmds, up, active, inbox, worker, client, calls>>
  BY DEF vars
<1>2. Typed'
  BY <1>1 DEF Inv, Typed
<1>3. CommandFacts' /\ BatchFacts' /\ CallFacts' /\ VerdictsAreEarned' /\ ClientFacts'
  BY <1>1, NoTurnsGrow, SameBatch
<1>4. TurnFacts'
  <2>1. TurnFacts
    BY DEF Inv
  <2>2. QED
    BY <1>1, <2>1 DEF TurnFacts, Created
<1>5. QED
  BY <1>2, <1>3, <1>4 DEF Inv

(* Every step keeps the invariant. *)
LEMMA NextInv == Inv /\ [Next]_vars => Inv'
<1> SUFFICES ASSUME Inv, [Next]_vars PROVE Inv'
  OBVIOUS
<1>1. ASSUME NEW r \in Requests,
             Begin(r) \/ Again(r) \/ TimesOut(r) \/ Apply(r) \/ Acknowledge(r)
      PROVE  Inv'
  BY <1>1, BeginStep, AgainStep, TimesOutStep, ApplyStep, AcknowledgeStep
<1>2. CASE StartTurn \/ TurnEnds \/ BindTurn \/ ServeLateBind \/ LoopStops \/ Poll
  BY <1>2, StartTurnStep, TurnEndsStep, BindTurnStep, ServeLateBindStep, LoopStopsStep, PollStep
<1>3. CASE ServeCreate \/ ServeStatus
  BY <1>3, ServeCreateStep, ServeStatusStep
<1>4. CASE Submit \/ GiveUp \/ Reap \/ FindDead \/ InspectExited
  BY <1>4, SubmitStep, GiveUpStep, ReapStep, InspectExitedStep
<1>5. CASE TakeRetained \/ CancelWorker \/ Relaunch
  BY <1>5, TakeRetainedStep, CancelWorkerStep, RelaunchStep
<1>6. CASE Crash \/ CrashInSubmit \/ Restart
  BY <1>6, CrashStep, CrashInSubmitStep, RestartStep
<1>7. CASE UNCHANGED vars
  BY <1>7, StutterStep
<1>8. QED
  BY <1>1, <1>2, <1>3, <1>4, <1>5, <1>6, <1>7 DEF Next

(* The inductive invariant: of every path by which a request of the user, its  *)
(* reply, a poll or an acknowledgement can be lost.                            *)
THEOREM CommandsInvariant == Spec => []Inv
<1>1. Init => Inv
  BY InitInv
<1>2. Inv /\ [Next]_vars => Inv'
  BY NextInv
<1>3. QED
  BY <1>1, <1>2, PTL DEF Spec

(* Types, and the schema validator's contiguous submission sequences: every    *)
(* command gets the number after all there are, whatever was closed since.     *)
THEOREM TypeCorrect == Spec => []TypeOK
<1>1. Inv => TypeOK
  <2> SUFFICES ASSUME Inv PROVE TypeOK
    OBVIOUS
  <2> DEFINE made == {r \in Requests : Created(r)}
             k == Cardinality(made)
  <2>1. k \in Nat /\ \A r \in Requests : cmds[r].seq \in 0 .. k
    BY NextNumber
  <2>2. Cardinality(Requests) \in Nat /\ k <= Cardinality(Requests)
    BY KindsAssumption, FS_Subset, FS_CardinalityType
  <2>3. {cmds[r].seq : r \in Requests} \ {0} = 1 .. k
    BY DEF Inv, CommandFacts
  <2> HIDE DEF made, k
  <2>4. cmds \in [Requests -> Command] /\ Len(turns) \in Nat /\ Len(turns) <= MaxTurns
        /\ MaxTurns \in Nat
    BY BoundsAssumption DEF Inv, Typed
  <2>5. ASSUME NEW r \in Requests
        PROVE  /\ cmds[r] \in [state : CommandStates, turn : 0 .. MaxTurns,
                               seq : 0 .. Cardinality(Requests)]
               /\ (cmds[r].state = "absent") = (cmds[r] = NoCommand)
    <3>1. cmds[r] \in Command
      BY <2>4
    <3>2. cmds[r].seq \in 0 .. Cardinality(Requests)
      BY <2>1, <2>2
    <3>3. cmds[r].state = "absent" => cmds[r] = NoCommand
      BY DEF Inv, CommandFacts, Created
    <3>4. cmds[r] = NoCommand => cmds[r].state = "absent" /\ cmds[r].turn = 0
      BY DEF NoCommand
    <3>5. cmds[r].state # "absent" => cmds[r].turn \in 1 .. Len(turns)
      BY DEF Inv, CommandFacts, Created
    <3>6. cmds[r].turn \in 0 .. MaxTurns
      BY <2>4, <3>3, <3>4, <3>5
    <3>7. QED
      BY <3>1, <3>2, <3>3, <3>4, <3>6 DEF Command
  <2>6. {"absent", "pending", "sent"} \union Closed = CommandStates
    BY DEF Closed, CommandStates
  <2>7. cmds \in [Requests -> [state : {"absent", "pending", "sent"} \union Closed,
                               turn : 0 .. MaxTurns, seq : 0 .. Cardinality(Requests)]]
    BY <2>4, <2>5, <2>6
  <2>8. made = {r \in Requests : cmds[r].state # "absent"}
    BY DEF made, Created
  <2>9. {cmds[r].seq : r \in Requests} \ {0}
            = 1 .. Cardinality({r \in Requests : cmds[r].state # "absent"})
    BY <2>3, <2>8 DEF k
  <2>10. /\ row \in [state : RowStates, attempt : 1 .. MaxAttempts]
         /\ turns \in Seq(Turn) /\ active \in 0 .. Len(turns)
    BY DEF Inv, Typed
  <2>11. QED
    BY <2>5, <2>7, <2>9, <2>10 DEF TypeOK, RowStates, Turn, Statuses
<1>2. QED
  BY <1>1, CommandsInvariant, PTL

(* The SDK handle is called at most once for a request, on the turn the user   *)
(* named, for a command that was handed out, in the order of submission,        *)
(* whatever polls, acknowledgements and harnesses are lost.                     *)
THEOREM CallsExact == Spec => []CallsAreExact
<1>1. Inv => CallsAreExact
  BY DEF Inv, CallFacts
<1>2. QED
  BY <1>1, CommandsInvariant, PTL

(* A closed command says what happened: what was acknowledged was taken by the  *)
(* handle or ended its turn, and what was rejected after a successful call did  *)
(* not.                                                                         *)
THEOREM VerdictsEarned == Spec => []VerdictsAreEarned
<1>1. Inv => VerdictsAreEarned
  BY DEF Inv
<1>2. QED
  BY <1>1, CommandsInvariant, PTL

(* What the UI told stays true: it never calls a lost reply a refusal, and      *)
(* never an absent command accepted.                                            *)
THEOREM UiTellsTheTruth == Spec => []ToldIsTrue
<1>1. Inv => ToldIsTrue
  BY DEF Inv, ClientFacts, RequestFacts, ToldIsTrue, Created
<1>2. QED
  BY <1>1, CommandsInvariant, PTL

=============================================================================
