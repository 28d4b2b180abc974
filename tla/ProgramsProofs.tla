--------------------------- MODULE ProgramsProofs ---------------------------
(***************************************************************************)
(* Proofs about Programs, for any milestones, dependencies, reviewers,      *)
(* faults and bounds.                                                      *)
(*                                                                         *)
(* The inductive invariant Inv has a part per table of the ledger (the     *)
(* program row, the milestones, the dispatches, the decisions with their   *)
(* outbox), a part that relates the ledger to Git, and a part for the      *)
(* position of the harness thread inside an outbox.  Every transaction is  *)
(* an operator, so for each there is a lemma: it keeps the tables in       *)
(* order, and leaves what the refinement sees alone (Quiet) or changes it  *)
(* in one named way.                                                       *)
(***************************************************************************)
EXTENDS Programs, FiniteSetTheorems, TLAPS

----------------------------------------------------------------------------
(* The tables *)

\* The ledger has its four tables and nothing else.
IsDb(d) ==
    d = [prog |-> d.prog, node |-> d.node, work |-> d.work, dec |-> d.dec]

ProgOk(p) == p \in [state : ProgramStates, rev : Nat, head : Nat]

IsNode(n) ==
    n = [st |-> n.st, subj |-> n.subj, blk |-> n.blk, last |-> n.last,
         reviews |-> n.reviews, promoted |-> n.promoted,
         outcome |-> n.outcome, closed |-> n.closed,
         invalid |-> n.invalid, integ |-> n.integ]

IntegRows == [state : {"none", "pending", "applied", "conflict"},
              s : Subjects \union {0}, base : Nat]

\* A milestone is ACCEPTED exactly when its subject is promoted, and only a
\* promoted subject of a Git milestone has an integration row.
NodeOk(m, n) ==
    /\ IsNode(n)
    /\ n.st \in States /\ n.subj \in Subjects \union {0}
    /\ n.promoted \subseteq Subjects /\ n.integ \in IntegRows
    /\ n.st = "ACCEPTED" => n.subj \in n.promoted
    /\ n.promoted # {} => n.st = "ACCEPTED"
    /\ n.closed \subseteq n.promoted
    /\ n.integ.state # "none" => Mode[m] = "git" /\ n.integ.s \in n.promoted
    /\ \A r \in n.reviews : r.s \in Subjects /\ r.role \in Roles[m]

NodesOk(N) ==
    /\ N = [m \in Milestones |-> N[m]]
    /\ \A m \in Milestones : NodeOk(m, N[m])

DispatchRows == [ph : {"claimed", "queued", "recorded", "cancelled"},
                 s : Subjects \union {0}]

\* A reviewer looks at a subject.
WorkOk(W) ==
    /\ W = [m \in Milestones |-> W[m]]
    /\ \A m \in Milestones :
          /\ W[m] \in [WorkRoles(m) -> Seq(DispatchRows)]
          /\ \A r \in Roles[m] : \A g \in DOMAIN W[m][r] :
                W[m][r][g].s \in Subjects

\* What the milestone m owes its dependents has happened.
Delivered(N, m) ==
    IF Mode[m] = "git" THEN N[m].integ.state = "applied"
    ELSE N[m].promoted # {}

AppliedOf(N) == {m \in Milestones : N[m].integ.state = "applied"}

\* A stored action: its targets were eligible when it was committed, and an
\* integration expects a trunk head that was reached.
ActionFact(N, a) ==
    /\ a.ms \subseteq Milestones /\ a.s \in Subjects \union {0}
    /\ a.kind \notin {"attention", "acknowledge"} => a.ms # {}
    /\ \A m \in a.ms : \A x \in Deps[m] : Delivered(N, x)
    /\ a.kind \in {"review", "promote", "integrate"} => a.s \in Subjects
    /\ a.kind = "review" => a.roles \subseteq Roles[On(a)]
    /\ a.kind = "integrate" =>
          /\ Mode[On(a)] = "git" /\ a.s \in N[On(a)].promoted
          /\ a.base \in 0..Cardinality(AppliedOf(N))

IsDec(x) ==
    x = [rev |-> x.rev, st |-> x.st, gen |-> x.gen, out |-> x.out,
         bundle |-> x.bundle, eff |-> x.eff]

PendingOf(x) == {i \in DOMAIN x.eff : x.eff[i] = "pending"}

\* The effects are applied in order, so those left are the last ones.
DecOk(x) ==
    /\ IsDec(x)
    /\ x.eff \in Seq({"pending", "applied", "failed"})
    /\ x.out = "none" =>
          /\ x.st \notin {"action_committed", "acknowledged"}
          /\ x.eff = <<>>
    /\ x.out # "none" =>
          /\ Len(x.bundle) \in {1, 2} /\ DOMAIN x.bundle = 1..Len(x.bundle)
          /\ Len(x.eff) = Len(Effects(x.bundle))
          /\ x.st \in {"action_committed", "acknowledged",
                       "human_attention_required"}
          /\ x.out = IF \/ x.st = "acknowledged"
                        \/ /\ x.st = "human_attention_required"
                           /\ PendingOf(x) = {}
                     THEN "acknowledged" ELSE "committed"
    /\ x.st = "acknowledged" => PendingOf(x) = {}
    /\ \E j \in 0..Len(x.eff) : PendingOf(x) = (j + 1)..Len(x.eff)
    /\ (\E i \in DOMAIN x.eff : x.eff[i] = "failed") =>
          x.st = "human_attention_required"

EventKey(kind, of) == [kind |-> kind, of |-> of]
FailureKey(x) == EventKey("effect-failed", <<x.rev>>)

DecsOk(C, N) ==
    /\ C = [k \in DOMAIN C |-> C[k]]
    /\ \A k \in DOMAIN C :
          /\ DecOk(C[k])
          /\ C[k].out # "none" =>
                \A i \in DOMAIN C[k].bundle : ActionFact(N, C[k].bundle[i])
          /\ (\E i \in DOMAIN C[k].eff : C[k].eff[i] = "failed") =>
                FailureKey(C[k]) \in DOMAIN C

DbOk(d) ==
    /\ IsDb(d) /\ ProgOk(d.prog)
    /\ NodesOk(d.node) /\ WorkOk(d.work) /\ DecsOk(d.dec, d.node)

----------------------------------------------------------------------------
(* Git and the thread *)

GitMilestones == {m \in Milestones : Mode[m] = "git"}

\* Up to the head h of the ledger a commit of the program stands where its
\* integration row says.  Beyond it there is at most one, the next, whose row is
\* not applied.
Placed(row, h, s, i) ==
    /\ row.state # "none" /\ row.s = s
    /\ i <= h => row.state = "applied" /\ i = row.base + 1
    /\ i > h => row.state # "applied" /\ i = h + 1

TrunkOk(N, h, t) ==
    /\ t \in Seq((GitMilestones \X Subjects) \union {Foreign})
    /\ h <= Len(t)
    /\ h = Cardinality(AppliedOf(N))
    /\ {t[i] : i \in 1..h} = {<<m, N[m].integ.s>> : m \in AppliedOf(N)}
    /\ \A m \in AppliedOf(N) :
          /\ N[m].integ.base < h
          /\ t[N[m].integ.base + 1] = <<m, N[m].integ.s>>
    /\ \A i \in 1..Len(t), m \in GitMilestones, s \in Subjects :
          t[i] = <<m, s>> => Placed(N[m].integ, h, s, i)

\* The actions of a bundle are about the current subjects.
Current(N, bundle) ==
    \A i \in DOMAIN bundle : \A m \in bundle[i].ms :
        bundle[i].kind # "start" => bundle[i].s = N[m].subj

Inside == {"apply", "effect", "claimed", "done", "git"}
AtEffect == {"effect", "claimed", "done", "git"}

\* The dispatch a launch is about to enqueue, and the commit an integration is
\* about to record.
ClaimedFact(d, e) ==
    LET list == d.work[e.m][e.role]
        g == IF e.kind = "start" THEN 1 ELSE Len(list)
    IN  e.kind \in Launches /\ g \in DOMAIN list /\ list[g].ph = "claimed"

CommitFact(d, t, e) ==
    LET row == d.node[e.m].integ
    IN  /\ e.kind = "integrate" /\ row.state = "pending" /\ row.s = e.s
        /\ e.base < Len(t) /\ t[e.base + 1] = <<e.m, e.s>>

HarnessOk ==
    /\ harness = [at |-> harness.at, key |-> harness.key]
    /\ harness.at \in Inside \union {"idle", "down"}
    /\ harness.at \in Inside =>
          Busy \in DOMAIN db.dec /\ db.dec[Busy].out # "none"
    /\ harness.at \in AtEffect =>
          Pending(db, Busy) # {} /\ Current(db.node, Bundle)
    /\ harness.at = "claimed" => ClaimedFact(db, Effect)
    /\ harness.at = "git" => CommitFact(db, git, Effect)

Inv == DbOk(db) /\ TrunkOk(db.node, db.prog.head, git) /\ HarnessOk

----------------------------------------------------------------------------
(* Completion and executors *)

\* An executor at work is the last one, and its milestone waits for it.
OneAtWork(d) ==
    \A m \in Milestones : \A g \in DOMAIN d.work[m]["executor"] :
        d.work[m]["executor"][g].ph \in {"claimed", "queued"} =>
            /\ g = Len(d.work[m]["executor"])
            /\ d.node[m].st = "STARTING"

Completed(d) == d.prog.state = "completed" => AllClosed(d)

\* The candidate of an integrated milestone is not adopted while its executor,
\* once started, may still report, nor again when the program is completed.
AdoptsInTime ==
    \A m \in Milestones :
        /\ Mode[m] = "already"
        /\ IF Inherits(db.node[m]) THEN db.prog.state = "completed"
           ELSE db.node[m].st = "STARTING"
        => ~AdoptCandidate(m)

Orderly == OneAtWork(db) /\ Completed(db)

----------------------------------------------------------------------------
(* Constants *)

(* What the constants are.                                                *)
LEMMA Bounds ==
    /\ MaxExec \in Nat /\ MaxExec >= 1
    /\ 1 \in Subjects /\ 0 \notin Subjects /\ Subjects \subseteq Nat
  BY ProgramConstants DEF Subjects

(* Every milestone declares reviewers, and executors are not among them.  *)
LEMMA RolesKnown ==
    ASSUME NEW m \in Milestones
    PROVE  /\ Roles[m] \subseteq {"code", "visual", "architecture"}
           /\ Roles[m] # {} /\ "executor" \notin Roles[m]
           /\ "executor" \in WorkRoles(m) /\ Roles[m] \subseteq WorkRoles(m)
  BY ProgramConstants DEF WorkRoles

(* Modes and dependencies of a milestone.                                 *)
LEMMA ModeKnown ==
    ASSUME NEW m \in Milestones
    PROVE  Mode[m] \in {"git", "already", "evidence"} /\ Deps[m] \subseteq Milestones
  BY ProgramConstants

----------------------------------------------------------------------------
(* What transactions keep *)

\* Nothing the dependents of a milestone count on is taken back.
Later(N, P) ==
    \A m \in Milestones :
        /\ N[m].promoted \subseteq P[m].promoted
        /\ N[m].integ.state = "applied" => P[m].integ.state = "applied"

\* Reviews, promotions and integrations stay as they are.
Quiet(N, P) ==
    \A m \in Milestones :
        /\ P[m].reviews = N[m].reviews
        /\ P[m].promoted = N[m].promoted
        /\ P[m].integ = N[m].integ

(* What stays is not taken back.                                          *)
LEMMA QuietIsLater ==
    ASSUME NEW N, NEW P, Quiet(N, P)
    PROVE  Later(N, P)
  BY DEF Quiet, Later

(* Two steps that leave something alone.                                  *)
LEMMA QuietTwice ==
    ASSUME NEW N, NEW P, NEW Q, Quiet(N, P), Quiet(P, Q)
    PROVE  Quiet(N, Q)
  BY DEF Quiet

(* Two steps that take nothing back.                                      *)
LEMMA LaterTwice ==
    ASSUME NEW N, NEW P, NEW Q, Later(N, P), Later(P, Q)
    PROVE  Later(N, Q)
  BY DEF Later

(* There are finitely many applied integrations.                           *)
LEMMA AppliedFinite ==
    ASSUME NEW N
    PROVE  IsFiniteSet(AppliedOf(N)) /\ Cardinality(AppliedOf(N)) \in Nat
  <1>1. AppliedOf(N) \subseteq Milestones /\ IsFiniteSet(Milestones)
    BY ProgramConstants DEF AppliedOf
  <1>2. IsFiniteSet(AppliedOf(N))
    BY <1>1, FS_Subset
  <1> QED BY <1>2, FS_CardinalityType

(* What is applied stays applied.                                          *)
LEMMA AppliedMore ==
    ASSUME NEW N, NEW P, Later(N, P)
    PROVE  /\ Cardinality(AppliedOf(N)) <= Cardinality(AppliedOf(P))
           /\ Cardinality(AppliedOf(N)) \in Nat /\ Cardinality(AppliedOf(P)) \in Nat
  <1>1. AppliedOf(N) \subseteq AppliedOf(P)
    BY DEF Later, AppliedOf
  <1> QED BY <1>1, AppliedFinite, FS_Subset

(* A stored action stays justified while milestones move on.               *)
LEMMA ActionFactStays ==
    ASSUME NEW N, NEW P, Later(N, P), NEW a, ActionFact(N, a)
    PROVE  ActionFact(P, a)
  <1>1. \A x \in Milestones : Delivered(N, x) => Delivered(P, x)
    BY DEF Later, Delivered
  <1>2. \A m \in a.ms : Deps[m] \subseteq Milestones
    BY ModeKnown DEF ActionFact
  <1>3. a.kind = "integrate" => On(a) \in Milestones
    BY DEF ActionFact, On
  <1>4. a.kind = "integrate" => a.s \in P[On(a)].promoted
    BY <1>3 DEF ActionFact, Later
  <1>5. a.kind = "integrate" => a.base \in 0..Cardinality(AppliedOf(P))
    BY AppliedMore DEF ActionFact
  <1> QED
    BY <1>1, <1>2, <1>4, <1>5 DEF ActionFact

(* Decisions stay in order while milestones move on.                       *)
LEMMA DecsStay ==
    ASSUME NEW C, NEW N, NEW P, Later(N, P), DecsOk(C, N)
    PROVE  DecsOk(C, P)
  BY ActionFactStays DEF DecsOk

(* One milestone gets a new row.                                           *)
LEMMA NodeChange ==
    ASSUME NEW N, NodesOk(N), NEW m \in Milestones, NEW n, NodeOk(m, n),
           NEW P, P = [x \in Milestones |-> P[x]], P[m] = n,
           \A x \in Milestones \ {m} : P[x] = N[x]
    PROVE  /\ NodesOk(P)
           /\ /\ N[m].promoted \subseteq n.promoted
              /\ N[m].integ.state = "applied" => n.integ.state = "applied"
              => Later(N, P)
           /\ /\ n.promoted = N[m].promoted /\ n.integ = N[m].integ
              /\ n.reviews = N[m].reviews
              => Quiet(N, P)
  <1>1. NodesOk(P)
    BY DEF NodesOk
  <1> QED
    BY <1>1 DEF Later, Quiet

(* The program row changes.                                                *)
LEMMA ProgChange ==
    ASSUME NEW d, DbOk(d), NEW e, IsDb(e), ProgOk(e.prog),
           e.node = d.node, e.work = d.work, e.dec = d.dec
    PROVE  DbOk(e)
  BY DEF DbOk

(* SetProgram changes state and revision of the program.                   *)
LEMMA SetProgramCols ==
    ASSUME NEW d, DbOk(d), NEW st \in ProgramStates, NEW bump \in BOOLEAN
    PROVE  LET e == SetProgram(d, st, bump)
           IN  /\ DbOk(e)
               /\ e.prog.state = st /\ e.prog.head = d.prog.head
               /\ e.node = d.node /\ e.work = d.work /\ e.dec = d.dec
  <1> DEFINE e == SetProgram(d, st, bump)
             rev == IF bump THEN d.prog.rev + 1 ELSE d.prog.rev
             p == [d.prog EXCEPT !.state = st, !.rev = rev]
  <1>1. IsDb(d) /\ ProgOk(d.prog)
    BY DEF DbOk
  <1>2. e = [d EXCEPT !.prog = p]
    BY <1>1 DEF SetProgram, IsDb, ProgOk
  <1>3. IsDb(e) /\ e.prog = p /\ e.node = d.node /\ e.work = d.work /\ e.dec = d.dec
    <2> HIDE DEF p
    <2> QED BY <1>1, <1>2 DEF IsDb
  <1>4. ProgOk(p) /\ p.state = st /\ p.head = d.prog.head
    <2>1. rev \in Nat
      BY <1>1 DEF ProgOk
    <2> HIDE DEF rev
    <2> QED BY <1>1, <2>1 DEF ProgOk
  <1> QED
    BY <1>3, <1>4, ProgChange

(* The same, with a new revision and without.                              *)
LEMMA ProgramUp ==
    ASSUME NEW d, DbOk(d), NEW st \in ProgramStates
    PROVE  LET e == SetProgram(d, st, TRUE)
           IN  /\ DbOk(e)
               /\ e.prog.state = st /\ e.prog.head = d.prog.head
               /\ e.node = d.node /\ e.work = d.work /\ e.dec = d.dec
  BY SetProgramCols

(* The state changes, the revision does not.                              *)
LEMMA ProgramKeep ==
    ASSUME NEW d, DbOk(d), NEW st \in ProgramStates
    PROVE  LET e == SetProgram(d, st, FALSE)
           IN  /\ DbOk(e)
               /\ e.prog.state = st /\ e.prog.head = d.prog.head
               /\ e.node = d.node /\ e.work = d.work /\ e.dec = d.dec
  BY SetProgramCols

(* A decision that is there stays; a new one awaits its claim.             *)
LEMMA EnsureCols ==
    ASSUME NEW d, DbOk(d), NEW kind, NEW of
    PROVE  LET e == Ensure(d, kind, of)
           IN  /\ DbOk(e)
               /\ e.prog = d.prog /\ e.node = d.node /\ e.work = d.work
               /\ EventKey(kind, of) \in DOMAIN e.dec
               /\ DOMAIN d.dec \subseteq DOMAIN e.dec
               /\ \A k \in DOMAIN d.dec : e.dec[k] = d.dec[k]
  <1> DEFINE e == Ensure(d, kind, of)
             key == EventKey(kind, of)
             new == NewDecision(d)
             C == [j \in DOMAIN d.dec \union {key} |->
                      IF j = key THEN new ELSE d.dec[j]]
  <1>1. CASE key \in DOMAIN d.dec
    BY <1>1 DEF Ensure, EventKey
  <1>2. CASE key \notin DOMAIN d.dec
    <2>1. e = [d EXCEPT !.dec = C]
      BY <1>2 DEF Ensure, EventKey
    <2>2. /\ IsDb(e) /\ e.dec = C
          /\ e.prog = d.prog /\ e.node = d.node /\ e.work = d.work
      <3> HIDE DEF C
      <3> QED BY <2>1 DEF IsDb, DbOk
    <2>3. DOMAIN C = DOMAIN d.dec \union {key}
      OBVIOUS
    <2>4. \A k \in DOMAIN d.dec : C[k] = d.dec[k]
      BY <1>2
    <2>5. C[key] = new
      OBVIOUS
    <2>6. DecOk(new) /\ new.out = "none" /\ new.eff = <<>>
      <3>1. /\ IsDec(new) /\ new.eff = <<>> /\ new.out = "none"
            /\ new.st = "awaiting_claim"
        BY DEF NewDecision, IsDec
      <3>2. PendingOf(new) = {} /\ Len(new.eff) = 0 /\ DOMAIN new.eff = {}
        BY <3>1 DEF PendingOf
      <3>3. \E j \in 0..Len(new.eff) : PendingOf(new) = (j + 1)..Len(new.eff)
        BY <3>2
      <3> HIDE DEF new
      <3> QED BY <3>1, <3>2, <3>3 DEF DecOk
    <2>7. DecsOk(C, d.node)
      <3>1. C = [k \in DOMAIN C |-> C[k]]
        BY <2>3
      <3> HIDE DEF C, new, key
      <3> QED
        BY <2>3, <2>4, <2>5, <2>6, <3>1 DEF DecsOk, DbOk
    <2> HIDE DEF C, new
    <2> QED
      BY <2>2, <2>3, <2>4, <2>7 DEF DbOk
  <1> QED
    BY <1>1, <1>2

----------------------------------------------------------------------------
(* Rows of milestones *)

(* A milestone that waits for reviews or a repair has promoted nothing.    *)
LEMMA StateRow ==
    ASSUME NEW m, NEW n, NodeOk(m, n), NEW st \in States,
           n.st # "ACCEPTED", st # "ACCEPTED",
           NEW p, p = [n EXCEPT !.st = st]
    PROVE  /\ NodeOk(m, p) /\ p.st = st
           /\ p.promoted = n.promoted /\ p.integ = n.integ /\ p.reviews = n.reviews
           /\ p.subj = n.subj /\ p.blk = n.blk /\ p.closed = n.closed
  BY DEF NodeOk, IsNode

(* A cleared or set blocker changes nothing else.                          *)
LEMMA BlockerRow ==
    ASSUME NEW m, NEW n, NodeOk(m, n), NEW b, NEW p, p = [n EXCEPT !.blk = b]
    PROVE  /\ NodeOk(m, p) /\ p.st = n.st /\ p.blk = b
           /\ p.promoted = n.promoted /\ p.integ = n.integ /\ p.reviews = n.reviews
           /\ p.subj = n.subj /\ p.closed = n.closed
  BY DEF NodeOk, IsNode

(* What an executor's result may make of a milestone's state.              *)
LEMMA TargetKnown ==
    ASSUME NEW m, NEW status, NEW cand
    PROVE  Target(m, status, cand) \in
              {"FAILED", "COMPLETED", "BLOCKED", "NEEDS_DECISION", "REPAIR_REQUIRED"}
  BY DEF Target

(* The columns a result writes.                                            *)
LEMMA RecordedRow ==
    ASSUME NEW n, IsNode(n), NEW s, NEW status, NEW blk,
           NEW p, p = Recorded(n, s, status, blk)
    PROVE  /\ IsNode(p) /\ p.subj = s /\ p.st = n.st
           /\ p.promoted = n.promoted /\ p.integ = n.integ /\ p.reviews = n.reviews
           /\ p.closed = n.closed
  <1> DEFINE b == IF Normalized(status, blk) # "none" THEN Normalized(status, blk)
                  ELSE IF s # n.subj THEN "none" ELSE n.blk
  <1>1. p = [n EXCEPT !.subj = s, !.last = status, !.blk = b]
    BY DEF Recorded
  <1> HIDE DEF b
  <1> QED
    BY <1>1 DEF IsNode

(* A late result finds an accepted milestone only with the accepted        *)
(* candidate, and leaves its state alone.                                  *)
LEMMA CommitRow ==
    ASSUME NEW m, NEW n, NodeOk(m, n), NEW g \in Subjects, NEW status,
           NEW cand \in BOOLEAN, NEW blk,
           n.subj \notin {0, IF cand THEN g ELSE 0} =>
              n.st \in Launched \union {"REPAIR_REQUIRED", "BLOCKED", "NEEDS_DECISION"},
           NEW p, p = CommitNode(n, m, g, status, cand, blk)
    PROVE  /\ NodeOk(m, p)
           /\ p.promoted = n.promoted /\ p.integ = n.integ /\ p.reviews = n.reviews
           /\ p.st = "STARTING" => n.st = "STARTING"
  <1> DEFINE s == IF cand THEN g ELSE n.subj
             q == Recorded(n, s, status, blk)
             st == IF n.st \in Launched THEN Target(m, status, cand) ELSE n.st
  <1>1. IsNode(n) /\ n.st \in States
    BY DEF NodeOk
  <1>2. /\ IsNode(q) /\ q.subj = s /\ q.st = n.st
        /\ q.promoted = n.promoted /\ q.integ = n.integ /\ q.reviews = n.reviews
        /\ q.closed = n.closed
    BY <1>1, RecordedRow
  <1>3. p = [q EXCEPT !.st = st]
    BY <1>2 DEF CommitNode
  <1>4. /\ IsNode(p) /\ p.st = st /\ p.subj = s
        /\ p.promoted = n.promoted /\ p.integ = n.integ /\ p.reviews = n.reviews
        /\ p.closed = n.closed
    <2> HIDE DEF q, st, s
    <2> QED BY <1>2, <1>3 DEF IsNode
  <1>5. /\ st \in States
        /\ st = "STARTING" => n.st = "STARTING"
        /\ st = "ACCEPTED" <=> n.st = "ACCEPTED"
    BY <1>1, TargetKnown DEF States, Launched
  <1>6. s \in Subjects \union {0}
    BY DEF NodeOk
  <1>7. n.st = "ACCEPTED" => s = n.subj
    BY Bounds DEF NodeOk, Launched
  <1> HIDE DEF s, st, q
  <1> QED
    BY <1>4, <1>5, <1>6, <1>7 DEF NodeOk

(* An evidence result is refused once its milestone is accepted.           *)
LEMMA EvidenceRow ==
    ASSUME NEW m, NEW n, NodeOk(m, n), NEW g \in Subjects, NEW status, NEW blk,
           n.st # "ACCEPTED",
           NEW p, p = EvidenceNode(n, m, g, status, blk)
    PROVE  /\ NodeOk(m, p)
           /\ p.promoted = n.promoted /\ p.integ = n.integ /\ p.reviews = n.reviews
           /\ p.st = "STARTING" => n.st = "STARTING"
  <1> DEFINE q == Recorded(n, g, status, blk)
             st == IF n.st \in Launched \union {"REPAIR_REQUIRED"}
                   THEN Target(m, status, TRUE) ELSE n.st
             o == q.outcome \union {g}
  <1>1. IsNode(n) /\ n.st \in States
    BY DEF NodeOk
  <1>2. /\ IsNode(q) /\ q.subj = g /\ q.st = n.st
        /\ q.promoted = n.promoted /\ q.integ = n.integ /\ q.reviews = n.reviews
        /\ q.closed = n.closed
    BY <1>1, RecordedRow
  <1>3. p = [q EXCEPT !.st = st, !.outcome = o]
    BY <1>2 DEF EvidenceNode, IsNode
  <1>4. /\ IsNode(p) /\ p.st = st /\ p.subj = g
        /\ p.promoted = n.promoted /\ p.integ = n.integ /\ p.reviews = n.reviews
        /\ p.closed = n.closed
    <2> HIDE DEF q, st, o
    <2> QED BY <1>2, <1>3 DEF IsNode
  <1>5. st \in States /\ st # "ACCEPTED" /\ (st = "STARTING" => n.st = "STARTING")
    BY <1>1, TargetKnown DEF States, Launched
  <1> HIDE DEF st, q
  <1> QED
    BY <1>4, <1>5 DEF NodeOk

(* A review is one of a declared role, on a subject.                       *)
LEMMA ReviewRow ==
    ASSUME NEW m, NEW n, NodeOk(m, n), NEW x, x.s \in Subjects, x.role \in Roles[m],
           NEW p, p = [n EXCEPT !.reviews = @ \union {x}]
    PROVE  /\ NodeOk(m, p) /\ p.reviews = n.reviews \union {x}
           /\ p.promoted = n.promoted /\ p.integ = n.integ /\ p.st = n.st
           /\ p.subj = n.subj /\ p.blk = n.blk /\ p.closed = n.closed
  BY DEF NodeOk, IsNode

(* A promotion accepts the milestone's subject.                            *)
LEMMA PromotedRow ==
    ASSUME NEW m, NEW n, NodeOk(m, n), NEW s \in Subjects, n.subj = s,
           NEW C \in {n.closed, n.closed \union {s}},
           NEW p, p = [n EXCEPT !.promoted = @ \union {s}, !.closed = C,
                                !.st = "ACCEPTED"]
    PROVE  /\ NodeOk(m, p) /\ p.promoted = n.promoted \union {s} /\ p.closed = C
           /\ p.integ = n.integ /\ p.reviews = n.reviews /\ p.st = "ACCEPTED"
           /\ p.subj = n.subj /\ p.blk = n.blk
  BY DEF NodeOk, IsNode, States

----------------------------------------------------------------------------
(* Transactions on one table *)

\* d with a new row of one table
WithNode(d, m, n) == [d EXCEPT !.node = [@ EXCEPT ![m] = n]]
WithDec(d, k, x) == [d EXCEPT !.dec = [@ EXCEPT ![k] = x]]
WithWork(d, m, r, list) ==
    [d EXCEPT !.work = [d.work EXCEPT ![m] = [d.work[m] EXCEPT ![r] = list]]]

(* A new row of a milestone leaves the other tables in order.              *)
LEMMA NodeStep ==
    ASSUME NEW d, DbOk(d), NEW m \in Milestones, NEW n, NodeOk(m, n),
           d.node[m].promoted \subseteq n.promoted,
           d.node[m].integ.state = "applied" => n.integ.state = "applied",
           NEW e, e = WithNode(d, m, n)
    PROVE  /\ DbOk(e) /\ e.node[m] = n
           /\ \A x \in Milestones \ {m} : e.node[x] = d.node[x]
           /\ Later(d.node, e.node)
           /\ e.prog = d.prog /\ e.work = d.work /\ e.dec = d.dec
           /\ /\ n.promoted = d.node[m].promoted /\ n.integ = d.node[m].integ
              /\ n.reviews = d.node[m].reviews
              => Quiet(d.node, e.node)
  <1> DEFINE P == [d.node EXCEPT ![m] = n]
  <1>1. /\ IsDb(d) /\ ProgOk(d.prog) /\ NodesOk(d.node) /\ WorkOk(d.work)
        /\ DecsOk(d.dec, d.node)
    BY DEF DbOk
  <1>2. /\ NodesOk(P) /\ P[m] = n
        /\ \A x \in Milestones \ {m} : P[x] = d.node[x]
        /\ Later(d.node, P)
        /\ /\ n.promoted = d.node[m].promoted /\ n.integ = d.node[m].integ
           /\ n.reviews = d.node[m].reviews
           => Quiet(d.node, P)
    <2>1. /\ P = [x \in Milestones |-> P[x]] /\ P[m] = n
          /\ \A x \in Milestones \ {m} : P[x] = d.node[x]
      BY <1>1 DEF NodesOk
    <2> HIDE DEF P
    <2> QED BY <1>1, <2>1, NodeChange
  <1>3. /\ IsDb(e) /\ e.node = P
        /\ e.prog = d.prog /\ e.work = d.work /\ e.dec = d.dec
    <2> HIDE DEF P
    <2>1. e = [d EXCEPT !.node = P]
      BY DEF P, WithNode
    <2> QED BY <1>1, <2>1 DEF IsDb
  <1>4. DecsOk(d.dec, P)
    <2> HIDE DEF P
    <2> QED BY <1>1, <1>2, DecsStay
  <1> HIDE DEF P
  <1> QED
    BY <1>1, <1>2, <1>3, <1>4 DEF DbOk

\* A row that may stand among the decisions of d.
Answered(d, x) ==
    /\ DecOk(x)
    /\ x.out # "none" => \A i \in DOMAIN x.bundle : ActionFact(d.node, x.bundle[i])
    /\ (\E i \in DOMAIN x.eff : x.eff[i] = "failed") => FailureKey(x) \in DOMAIN d.dec

(* One decision gets a new row.                                            *)
LEMMA DecStep ==
    ASSUME NEW d, DbOk(d), NEW k \in DOMAIN d.dec, NEW x, Answered(d, x),
           NEW e, e = WithDec(d, k, x)
    PROVE  /\ DbOk(e) /\ DOMAIN e.dec = DOMAIN d.dec /\ e.dec[k] = x
           /\ \A j \in DOMAIN d.dec \ {k} : e.dec[j] = d.dec[j]
           /\ e.prog = d.prog /\ e.node = d.node /\ e.work = d.work
  <1> DEFINE C == [d.dec EXCEPT ![k] = x]
  <1>1. IsDb(e) /\ e.dec = C /\ e.prog = d.prog /\ e.node = d.node /\ e.work = d.work
    <2> HIDE DEF C
    <2>1. e = [d EXCEPT !.dec = C]
      BY DEF C, WithDec
    <2> QED BY <2>1 DEF DbOk, IsDb
  <1>2. /\ DOMAIN C = DOMAIN d.dec /\ C[k] = x
        /\ \A j \in DOMAIN d.dec \ {k} : C[j] = d.dec[j]
        /\ C = [j \in DOMAIN C |-> C[j]]
    OBVIOUS
  <1>3. DecsOk(C, d.node)
    <2> HIDE DEF C
    <2> QED BY <1>2 DEF DecsOk, DbOk, Answered
  <1> HIDE DEF C
  <1> QED
    BY <1>1, <1>2, <1>3 DEF DbOk

\* No other list of dispatches changes.
OnlyList(W, V, m, r) ==
    \A x \in Milestones : \A q \in WorkRoles(x) :
        x # m \/ q # r => V[x][q] = W[x][q]

\* The dispatches of a reviewer name subjects.
ListFits(m, r, list) ==
    /\ list \in Seq(DispatchRows)
    /\ r \in Roles[m] => \A g \in DOMAIN list : list[g].s \in Subjects

(* One list of dispatches changes.                                         *)
LEMMA WorkStep ==
    ASSUME NEW d, DbOk(d), NEW m \in Milestones, NEW r \in WorkRoles(m),
           NEW list, ListFits(m, r, list), NEW e, e = WithWork(d, m, r, list)
    PROVE  /\ DbOk(e) /\ e.work[m][r] = list
           /\ OnlyList(d.work, e.work, m, r)
           /\ e.prog = d.prog /\ e.node = d.node /\ e.dec = d.dec
  <1> DEFINE L == [d.work[m] EXCEPT ![r] = list]
             W == [d.work EXCEPT ![m] = L]
  <1> USE DEF ListFits
  <1>1. IsDb(d) /\ WorkOk(d.work)
    BY DEF DbOk
  <1>2. IsDb(e) /\ e.work = W /\ e.prog = d.prog /\ e.node = d.node /\ e.dec = d.dec
    <2> HIDE DEF W
    <2>1. e = [d EXCEPT !.work = W]
      BY DEF W, L, WithWork
    <2> QED BY <1>1, <2>1 DEF IsDb
  <1>3. /\ L \in [WorkRoles(m) -> Seq(DispatchRows)] /\ L[r] = list
        /\ \A q \in WorkRoles(m) \ {r} : L[q] = d.work[m][q]
    BY <1>1 DEF WorkOk
  <1>4. /\ W = [x \in Milestones |-> W[x]] /\ W[m] = L
        /\ \A x \in Milestones \ {m} : W[x] = d.work[x]
    <2> HIDE DEF L
    <2> QED BY <1>1 DEF WorkOk
  <1>5. WorkOk(W)
    <2> HIDE DEF L, W
    <2>1. \A x \in Milestones : W[x] \in [WorkRoles(x) -> Seq(DispatchRows)]
      BY <1>1, <1>3, <1>4 DEF WorkOk
    <2>2. ASSUME NEW x \in Milestones, NEW q \in Roles[x], NEW g \in DOMAIN W[x][q]
          PROVE  W[x][q][g].s \in Subjects
      <3>1. CASE x = m /\ q = r
        BY <1>3, <1>4, <2>2, <3>1
      <3>2. CASE x # m \/ q # r
        <4>1. W[x][q] = d.work[x][q]
          BY <1>3, <1>4, <3>2, RolesKnown
        <4> QED BY <1>1, <2>2, <4>1 DEF WorkOk
      <3> QED BY <3>1, <3>2
    <2> QED BY <1>4, <2>1, <2>2 DEF WorkOk
  <1> HIDE DEF L, W
  <1> QED
    BY <1>2, <1>3, <1>4, <1>5 DEF DbOk, OnlyList

(* SetState, for a milestone nothing is promoted of.                       *)
LEMMA StateStep ==
    ASSUME NEW d, DbOk(d), NEW m \in Milestones, NEW st \in States,
           d.node[m].st # "ACCEPTED", st # "ACCEPTED",
           NEW e, e = SetState(d, m, st)
    PROVE  /\ DbOk(e) /\ Quiet(d.node, e.node)
           /\ e.prog = d.prog /\ e.work = d.work /\ e.dec = d.dec
           /\ e.node[m].st = st
           /\ \A x \in Milestones \ {m} : e.node[x].st = d.node[x].st
           /\ \A x \in Milestones : /\ e.node[x].subj = d.node[x].subj
                                    /\ Closed(d, x) => Closed(e, x)
  <1> DEFINE n == [d.node[m] EXCEPT !.st = st]
  <1>1. e = WithNode(d, m, n)
    BY DEF SetState, WithNode
  <1>2. NodeOk(m, d.node[m])
    BY DEF DbOk, NodesOk
  <1> HIDE DEF n
  <1>3. /\ NodeOk(m, n) /\ n.st = st
        /\ n.promoted = d.node[m].promoted /\ n.integ = d.node[m].integ
        /\ n.reviews = d.node[m].reviews /\ n.subj = d.node[m].subj
        /\ n.blk = d.node[m].blk /\ n.closed = d.node[m].closed
    BY <1>2, StateRow DEF n
  <1>4. /\ DbOk(e) /\ e.node[m] = n /\ Quiet(d.node, e.node)
        /\ \A x \in Milestones \ {m} : e.node[x] = d.node[x]
        /\ e.prog = d.prog /\ e.work = d.work /\ e.dec = d.dec
    BY <1>1, <1>3, NodeStep
  <1> QED
    BY <1>3, <1>4 DEF Closed

(* start_program starts a registered program and opens a decision.         *)
LEMMA StartProgramStep ==
    ASSUME NEW d, DbOk(d), NEW n, NEW e, e = StartProgram(d, n)
    PROVE  /\ DbOk(e) /\ e.prog.head = d.prog.head
           /\ e.prog.state = "completed" => d.prog.state = "completed"
           /\ e.node = d.node /\ e.work = d.work
  <1> DEFINE f == IF d.prog.state = "registered" THEN SetProgram(d, "running", TRUE)
                  ELSE d
  <1>1. /\ DbOk(f) /\ f.prog.head = d.prog.head
        /\ f.prog.state = "completed" => d.prog.state = "completed"
        /\ f.node = d.node /\ f.work = d.work
    <2>1. CASE d.prog.state = "registered"
      <3> DEFINE h == SetProgram(d, "running", TRUE)
      <3>1. /\ DbOk(h) /\ h.prog.state = "running" /\ h.prog.head = d.prog.head
            /\ h.node = d.node /\ h.work = d.work
        BY ProgramUp DEF ProgramStates
      <3>2. f = h
        BY <2>1
      <3> HIDE DEF f, h
      <3> QED BY <3>1, <3>2
    <2>2. CASE d.prog.state # "registered"
      BY <2>2
    <2> QED BY <2>1, <2>2
  <1>2. e = Ensure(f, "start", <<n>>)
    BY DEF StartProgram
  <1> HIDE DEF f
  <1> QED
    BY <1>1, <1>2, EnsureCols

(* record_program_attention never reports a program completed.             *)
LEMMA AttentionStep ==
    ASSUME NEW d, DbOk(d), NEW kind, NEW of, NEW e, e = Attention(d, kind, of)
    PROVE  /\ DbOk(e) /\ e.prog.head = d.prog.head
           /\ e.prog.state = "completed" => d.prog.state = "completed"
           /\ e.node = d.node /\ e.work = d.work
  <1> DEFINE f == IF d.prog.state \in {"completed", "failed", "external_blocked"}
                  THEN d ELSE SetProgram(d, "needs_decision", FALSE)
  <1>1. /\ DbOk(f) /\ f.prog.head = d.prog.head
        /\ f.prog.state = "completed" => d.prog.state = "completed"
        /\ f.node = d.node /\ f.work = d.work
    <2>1. CASE d.prog.state \notin {"completed", "failed", "external_blocked"}
      <3> DEFINE h == SetProgram(d, "needs_decision", FALSE)
      <3>1. /\ DbOk(h) /\ h.prog.state = "needs_decision"
            /\ h.prog.head = d.prog.head /\ h.node = d.node /\ h.work = d.work
        BY ProgramKeep DEF ProgramStates
      <3>2. f = h
        BY <2>1
      <3> HIDE DEF f, h
      <3> QED BY <3>1, <3>2
    <2>2. CASE d.prog.state \in {"completed", "failed", "external_blocked"}
      BY <2>2
    <2> QED BY <2>1, <2>2
  <1>2. e = Ensure(f, kind, of)
    BY DEF Attention
  <1> HIDE DEF f
  <1> QED
    BY <1>1, <1>2, EnsureCols

(* Refresh changes the program row only, and says completed when all is    *)
(* closed.                                                                 *)
LEMMA RefreshStep ==
    ASSUME NEW d, DbOk(d), NEW advance \in BOOLEAN, NEW e, e = Refresh(d, advance)
    PROVE  /\ DbOk(e) /\ e.prog.head = d.prog.head
           /\ e.prog.state = "completed" => d.prog.state = "completed" \/ AllClosed(d)
           /\ e.node = d.node /\ e.work = d.work /\ e.dec = d.dec
  <1>1. d.prog.state \in ProgramStates
    BY DEF DbOk, ProgOk
  <1>2. CASE AllClosed(d)
    <2>1. CASE d.prog.state = "completed"
      BY <1>2, <2>1 DEF Refresh
    <2>2. CASE d.prog.state # "completed"
      <3>1. e = SetProgram(d, "completed", advance) /\ "completed" \in ProgramStates
        BY <1>2, <2>2 DEF Refresh, ProgramStates
      <3> QED
        BY <1>2, <3>1, SetProgramCols
    <2> QED
      BY <2>1, <2>2
  <1>3. CASE ~AllClosed(d)
    <2> DEFINE st == IF d.prog.state = "registered" THEN "running" ELSE d.prog.state
    <2>1. e = SetProgram(d, st, advance)
      BY <1>3 DEF Refresh
    <2>2. st \in ProgramStates /\ (st = "completed" => d.prog.state = "completed")
      BY <1>1 DEF ProgramStates
    <2> HIDE DEF st
    <2> QED
      BY <2>1, <2>2, SetProgramCols
  <1> QED
    BY <1>2, <1>3

----------------------------------------------------------------------------
(* Transactions on milestones *)

(* The state of the program an unfinished result asks for.                 *)
LEMMA UnfinishedKnown ==
    ASSUME NEW m, NEW status, NEW cand
    PROVE  Unfinished(m, status, cand) \in
              {"running", "needs_decision", "external_blocked", "failed"}
  BY DEF Unfinished

(* An accepted result of an executor.                                      *)
LEMMA ExecutorResultStep ==
    ASSUME NEW d, DbOk(d), NEW m \in Milestones, NEW g \in Subjects, NEW status,
           NEW cand \in BOOLEAN, NEW blk, ExecutorResultOk(d, m, g, status, cand),
           NEW e, e = ExecutorResult(d, m, g, status, cand, blk)
    PROVE  /\ DbOk(e) /\ Quiet(d.node, e.node)
           /\ e.prog.head = d.prog.head /\ e.work = d.work
           /\ e.prog.state = "completed" => d.prog.state = "completed"
           /\ \A x \in Milestones \ {m} : e.node[x] = d.node[x]
  <1> DEFINE n == d.node[m]
             p == IF Mode[m] = "evidence" THEN EvidenceNode(n, m, g, status, blk)
                  ELSE CommitNode(n, m, g, status, cand, blk)
             f == WithNode(d, m, p)
             u == Unfinished(m, status, cand)
  <1>1. NodeOk(m, n)
    BY DEF DbOk, NodesOk
  <1>2. /\ NodeOk(m, p)
        /\ p.promoted = n.promoted /\ p.integ = n.integ /\ p.reviews = n.reviews
    <2>1. CASE Mode[m] = "evidence"
      <3>1. n.st # "ACCEPTED"
        BY <2>1, TargetKnown
           DEF ExecutorResultOk, EvidenceResultOk, Launched
      <3>2. p = EvidenceNode(n, m, g, status, blk)
        BY <2>1
      <3> HIDE DEF p, n
      <3> QED BY <1>1, <3>1, <3>2, EvidenceRow
    <2>2. CASE Mode[m] # "evidence"
      <3>1. n.subj \notin {0, IF cand THEN g ELSE 0} =>
              n.st \in Launched \union {"REPAIR_REQUIRED", "BLOCKED", "NEEDS_DECISION"}
        BY <2>2 DEF ExecutorResultOk, CommitResultOk
      <3>2. p = CommitNode(n, m, g, status, cand, blk)
        BY <2>2
      <3> HIDE DEF p, n
      <3> QED BY <1>1, <3>1, <3>2, CommitRow
    <2> QED BY <2>1, <2>2
  <1>3. e = IF Target(m, status, cand) = "COMPLETED"
            THEN Ensure(f, "implementation", <<m, g>>)
            ELSE Ensure(SetProgram(f, u, TRUE), "executor", <<m, g>>)
    BY DEF ExecutorResult, WithNode
  <1> HIDE DEF p
  <1>4. /\ DbOk(f) /\ Quiet(d.node, f.node) /\ f.prog = d.prog /\ f.work = d.work
        /\ \A x \in Milestones \ {m} : f.node[x] = d.node[x]
    BY <1>1, <1>2, NodeStep
  <1> HIDE DEF f, n
  <1>5. CASE Target(m, status, cand) = "COMPLETED"
    <2>1. e = Ensure(f, "implementation", <<m, g>>)
      BY <1>3, <1>5
    <2> QED BY <1>4, <2>1, EnsureCols
  <1>6. CASE Target(m, status, cand) # "COMPLETED"
    <2> DEFINE h == SetProgram(f, u, TRUE)
    <2>1. u \in ProgramStates /\ u # "completed"
      BY UnfinishedKnown DEF ProgramStates
    <2>2. /\ DbOk(h) /\ h.prog.state # "completed" /\ h.prog.head = f.prog.head
          /\ h.node = f.node /\ h.work = f.work
      <3> HIDE DEF u
      <3>1. LET j == SetProgram(f, u, TRUE)
            IN  /\ DbOk(j) /\ j.prog.state = u /\ j.prog.head = f.prog.head
                /\ j.node = f.node /\ j.work = f.work
        BY <1>4, <2>1, ProgramUp
      <3> QED BY <1>4, <2>1, <3>1
    <2>3. e = Ensure(h, "executor", <<m, g>>)
      BY <1>3, <1>6
    <2> HIDE DEF h
    <2> QED BY <1>4, <2>2, <2>3, EnsureCols
  <1> QED
    BY <1>5, <1>6

\* One review by a role of a subject is added to those of a milestone.
Reviewed(n, p, s, role) ==
    \E x : x.s = s /\ x.role = role /\ p.reviews = n.reviews \union {x}

(* A recorded review adds one verdict and may open a decision.             *)
LEMMA ReviewStep ==
    ASSUME NEW d, DbOk(d), NEW m \in Milestones, NEW s \in Subjects,
           NEW role \in Roles[m], NEW v, NEW e, e = Review(d, m, s, role, v)
    PROVE  /\ DbOk(e) /\ e.prog = d.prog /\ e.work = d.work
           /\ \A x \in Milestones :
                 /\ e.node[x].promoted = d.node[x].promoted
                 /\ e.node[x].integ = d.node[x].integ
                 /\ e.node[x].st = d.node[x].st
                 /\ x # m => e.node[x].reviews = d.node[x].reviews
                 /\ Closed(d, x) => Closed(e, x)
           /\ Reviewed(d.node[m], e.node[m], s, role)
  <1> DEFINE num == Cardinality({r \in ReviewsOf(d, m, s) : r.role = role}) + 1
             x == [s |-> s, role |-> role, v |-> v, n |-> num]
             p == [d.node[m] EXCEPT !.reviews = @ \union {x}]
             f == WithNode(d, m, p)
             ev == ReviewEvent(f, m, s)
  <1>1. NodeOk(m, d.node[m])
    BY DEF DbOk, NodesOk
  <1>2. x.s = s /\ x.role = role
    OBVIOUS
  <1>3. e = IF ev = <<>> THEN f ELSE Ensure(f, ev[1], ev[2])
    BY DEF Review, WithNode
  <1> HIDE DEF x
  <1>4. /\ NodeOk(m, p) /\ p.reviews = d.node[m].reviews \union {x}
        /\ p.promoted = d.node[m].promoted /\ p.integ = d.node[m].integ
        /\ p.st = d.node[m].st /\ p.subj = d.node[m].subj
        /\ p.blk = d.node[m].blk /\ p.closed = d.node[m].closed
    BY <1>1, <1>2, ReviewRow
  <1> HIDE DEF p
  <1>5. /\ DbOk(f) /\ f.node[m] = p /\ f.prog = d.prog /\ f.work = d.work
        /\ \A y \in Milestones \ {m} : f.node[y] = d.node[y]
    BY <1>4, NodeStep
  <1> HIDE DEF f
  <1>6. DbOk(e) /\ e.prog = f.prog /\ e.work = f.work /\ e.node = f.node
    <2>1. CASE ev = <<>>
      BY <1>3, <1>5, <2>1
    <2>2. CASE ev # <<>>
      <3> HIDE DEF ev
      <3>1. e = Ensure(f, ev[1], ev[2])
        BY <1>3, <2>2
      <3> QED BY <1>5, <3>1, EnsureCols
    <2> QED BY <2>1, <2>2
  <1>7. \A y \in Milestones : Closed(d, y) => Closed(e, y)
    BY <1>4, <1>5, <1>6 DEF Closed
  <1>8. Reviewed(d.node[m], e.node[m], s, role)
    BY <1>2, <1>4, <1>5, <1>6 DEF Reviewed
  <1> QED
    BY <1>4, <1>5, <1>6, <1>7, <1>8

(* Evidence that changed: a completed program is no longer completed.      *)
LEMMA InvalidateStep ==
    ASSUME NEW d, DbOk(d), NEW m \in Milestones, NEW e, e = Invalidate(d, m)
    PROVE  /\ DbOk(e) /\ Quiet(d.node, e.node)
           /\ e.prog.head = d.prog.head /\ e.work = d.work
           /\ e.prog.state = "completed" => e = d
           /\ \A x \in Milestones : /\ e.node[x].subj = d.node[x].subj
                                    /\ e.node[x].st = d.node[x].st
                                       \/ d.node[x].st # "STARTING"
           /\ DOMAIN d.dec \subseteq DOMAIN e.dec
           /\ \A k \in DOMAIN d.dec : e.dec[k] = d.dec[k]
  <1> DEFINE n == d.node[m]
             iv == n.invalid \union {n.subj}
             st == IF n.st \in {"RUNNING", "COMPLETED", "REVIEWING"}
                   THEN "BLOCKED" ELSE n.st
             p == [n EXCEPT !.invalid = iv, !.blk = "whole", !.st = st]
             f == WithNode(d, m, p)
             h == IF d.prog.state = "completed"
                  THEN SetProgram(f, "needs_decision", TRUE) ELSE f
  <1>1. NodeOk(m, n) /\ IsDb(d) /\ d.node = [x \in Milestones |-> d.node[x]]
    BY DEF DbOk, NodesOk
  <1>2. /\ st \in States /\ (st = n.st \/ n.st # "STARTING")
        /\ st = "ACCEPTED" <=> n.st = "ACCEPTED"
    BY <1>1 DEF NodeOk, States
  <1>3. /\ NodeOk(m, p) /\ p.promoted = n.promoted /\ p.integ = n.integ
        /\ p.reviews = n.reviews /\ p.subj = n.subj /\ p.st = st
    <2>1. p = [n EXCEPT !.invalid = iv, !.blk = "whole", !.st = st]
      OBVIOUS
    <2> HIDE DEF n, st, iv, p
    <2> QED BY <1>1, <1>2, <2>1 DEF NodeOk, IsNode
  <1>4. e = IF n.subj \in n.invalid THEN d ELSE Ensure(h, "invalidated", <<m, n.subj>>)
    <2>1. f = [d EXCEPT !.node[m].invalid = iv, !.node[m].blk = "whole",
                        !.node[m].st = st]
      <3> HIDE DEF iv, st
      <3> QED BY <1>1 DEF WithNode, IsDb, NodeOk, IsNode
    <2>2. e = LET g == [d EXCEPT !.node[m].invalid = iv, !.node[m].blk = "whole",
                                 !.node[m].st = st]
                  c == IF d.prog.state = "completed"
                       THEN SetProgram(g, "needs_decision", TRUE) ELSE g
              IN  IF n.subj \in n.invalid THEN d
                  ELSE Ensure(c, "invalidated", <<m, n.subj>>)
      BY DEF Invalidate
    <2> QED BY <2>1, <2>2
  <1> HIDE DEF p, st, iv
  <1>5. /\ DbOk(f) /\ f.node[m] = p /\ Quiet(d.node, f.node) /\ f.prog = d.prog
        /\ f.work = d.work /\ f.dec = d.dec
        /\ \A x \in Milestones \ {m} : f.node[x] = d.node[x]
    BY <1>1, <1>3, NodeStep
  <1> HIDE DEF f
  <1>6. /\ DbOk(h) /\ h.node = f.node /\ h.prog.head = d.prog.head
        /\ h.work = d.work /\ h.dec = d.dec /\ h.prog.state # "completed"
    <2>1. CASE d.prog.state = "completed"
      <3>1. "needs_decision" \in ProgramStates
        BY DEF ProgramStates
      <3>2. h = SetProgram(f, "needs_decision", TRUE)
        BY <2>1
      <3>3. LET g == SetProgram(f, "needs_decision", TRUE)
            IN  /\ DbOk(g) /\ g.prog.state = "needs_decision"
                /\ g.prog.head = f.prog.head
                /\ g.node = f.node /\ g.work = f.work /\ g.dec = f.dec
        BY <1>5, <3>1, ProgramUp
      <3> HIDE DEF h
      <3> QED BY <1>5, <3>2, <3>3
    <2>2. CASE d.prog.state # "completed"
      BY <1>5, <2>2
    <2> QED BY <2>1, <2>2
  <1> HIDE DEF h
  <1>7. CASE n.subj \in n.invalid
    BY <1>4, <1>7 DEF Quiet
  <1>8. CASE n.subj \notin n.invalid
    <2>1. e = Ensure(h, "invalidated", <<m, n.subj>>)
      BY <1>4, <1>8
    <2> HIDE DEF n
    <2>2. /\ DbOk(e) /\ e.node = f.node /\ e.prog.head = d.prog.head
          /\ e.work = d.work /\ e.prog.state # "completed"
          /\ DOMAIN d.dec \subseteq DOMAIN e.dec
          /\ \A k \in DOMAIN d.dec : e.dec[k] = d.dec[k]
      BY <1>6, <2>1, EnsureCols
    <2> QED
      BY <1>2, <1>3, <1>5, <2>2 DEF n
  <1> QED
    BY <1>7, <1>8

(* The row an adoption writes: its subject is promoted only if it was the   *)
(* subject before.                                                          *)
LEMMA AdoptedNode ==
    ASSUME NEW d, DbOk(d), NEW m \in Milestones, AdoptOk(d, m),
           Len(d.work[m]["executor"]) <= MaxExec
    PROVE  LET n == d.node[m]
               s == IF Mode[m] = "git" THEN Len(d.work[m]["executor"]) ELSE 1
               p == IF Mode[m] = "git" THEN Readopted(n, s)
                    ELSE IF Inherits(n)
                         THEN [Readopted(n, s) EXCEPT !.outcome = {1}]
                    ELSE [n EXCEPT !.subj = 1, !.st = "COMPLETED",
                                   !.blk = "none", !.outcome = {1}]
           IN  /\ NodeOk(m, p) /\ p.promoted = n.promoted /\ p.integ = n.integ
               /\ p.reviews = n.reviews
               /\ Mode[m] = "git" => n.promoted = {}
               /\ n.st = "STARTING" /\ (Mode[m] = "git" \/ Inherits(n)) =>
                      p.st = "STARTING"
  <1> DEFINE n == d.node[m]
             g == Len(d.work[m]["executor"])
             s == IF Mode[m] = "git" THEN g ELSE 1
             b == IF Inherits(n) THEN "current"
                  ELSE IF n.subj = s THEN n.blk ELSE "none"
             st == IF n.st \notin Parked THEN n.st
                   ELSE IF n.last = "external_blocked" THEN "BLOCKED"
                   ELSE "REPAIR_REQUIRED"
             old == [n EXCEPT !.subj = s, !.blk = b, !.st = st]
             new == [n EXCEPT !.subj = 1, !.st = "COMPLETED", !.blk = "none",
                              !.outcome = {1}]
  <1>1. NodeOk(m, n) /\ g \in Nat
    <2>1. d.work[m]["executor"] \in Seq(DispatchRows)
      BY RolesKnown DEF DbOk, WorkOk
    <2> QED BY <2>1 DEF DbOk, NodesOk
  <1>2. /\ st \in States
        /\ n.st = "STARTING" => st = "STARTING"
        /\ n.st = "ACCEPTED" <=> st = "ACCEPTED"
    BY <1>1 DEF NodeOk, States, Parked
  <1>3. Readopted(n, s) = old
    <2> HIDE DEF s
    <2> QED BY <1>1 DEF Readopted, NodeOk, IsNode
  <1> DEFINE q == [old EXCEPT !.outcome = {1}]
             Fits(p) == /\ NodeOk(m, p) /\ p.promoted = n.promoted
                        /\ p.integ = n.integ /\ p.reviews = n.reviews /\ p.st = st
  <1>4. ASSUME s \in Subjects, n.promoted = {} \/ n.subj = s
        PROVE  Fits(old) /\ Fits(q)
    <2>1. old = [n EXCEPT !.subj = s, !.blk = b, !.st = st]
      OBVIOUS
    <2> HIDE DEF n, s, b, st, old, q
    <2>2. /\ IsNode(old) /\ old.st = st /\ old.subj = s
          /\ old.promoted = n.promoted /\ old.integ = n.integ
          /\ old.reviews = n.reviews /\ old.closed = n.closed
      BY <1>1, <2>1 DEF NodeOk, IsNode
    <2>3. Fits(old)
      BY <1>1, <1>2, <1>4, <2>2 DEF NodeOk
    <2>4. /\ IsNode(q) /\ q.st = st /\ q.subj = s
          /\ q.promoted = n.promoted /\ q.integ = n.integ
          /\ q.reviews = n.reviews /\ q.closed = n.closed
      <3>1. q = [old EXCEPT !.outcome = {1}]
        BY DEF q
      <3> QED BY <2>2, <3>1 DEF IsNode
    <2>5. Fits(q)
      BY <1>1, <1>2, <1>4, <2>4 DEF NodeOk
    <2> QED BY <2>3, <2>5
  <1>5. CASE Mode[m] = "git"
    <2>1. /\ g \in Subjects /\ g \notin n.promoted
          /\ n.subj \notin {0, g} => n.st # "ACCEPTED"
      BY <1>1, <1>5, Bounds DEF AdoptOk, Subjects, Parked
    <2>2. n.promoted = {}
      <3> HIDE DEF n, g
      <3> QED BY <1>1, <2>1, Bounds DEF NodeOk
    <2>3. Fits(old)
      <3>1. s \in Subjects
        BY <1>5, <2>1
      <3> HIDE DEF n, old, s, st, Fits
      <3> QED BY <1>4, <2>2, <3>1
    <2>4. Readopted(n, g) = old
      BY <1>3, <1>5
    <2> HIDE DEF old, st
    <2> QED
      BY <1>2, <1>5, <2>2, <2>3, <2>4
  <1>6. CASE Mode[m] = "already" /\ Inherits(n)
    <2>1. /\ n.subj \notin {0, 1} => n.st # "ACCEPTED"
          /\ n.subj # 1 => 1 \notin n.promoted
      BY <1>6 DEF AdoptOk, Parked
    <2>2. n.promoted = {} \/ n.subj = 1
      <3> HIDE DEF n
      <3> QED BY <1>1, <2>1, Bounds DEF NodeOk
    <2>3. s = 1
      BY <1>6
    <2>4. Fits(q)
      <3>1. s \in Subjects
        BY <2>3, Bounds
      <3> HIDE DEF n, q, s, st, Fits
      <3> QED BY <1>4, <2>2, <2>3, <3>1
    <2>5. [Readopted(n, 1) EXCEPT !.outcome = {1}] = q
      BY <1>3, <2>3
    <2> HIDE DEF old, q, st
    <2> QED
      BY <1>2, <1>6, <2>2, <2>4, <2>5
  <1>7. CASE Mode[m] = "already" /\ ~Inherits(n)
    <2>1. n.subj = 0
      BY <1>7 DEF AdoptOk
    <2>2. /\ NodeOk(m, new) /\ new.promoted = n.promoted /\ new.integ = n.integ
          /\ new.reviews = n.reviews
      <3>1. new = [n EXCEPT !.subj = 1, !.st = "COMPLETED", !.blk = "none",
                            !.outcome = {1}]
        OBVIOUS
      <3> HIDE DEF n, new
      <3>2. n.promoted = {}
        BY <1>1, <2>1, Bounds DEF NodeOk
      <3>3. /\ IsNode(new) /\ new.st = "COMPLETED" /\ new.subj = 1
            /\ new.promoted = n.promoted /\ new.integ = n.integ
            /\ new.reviews = n.reviews /\ new.closed = n.closed
        BY <1>1, <3>1 DEF NodeOk, IsNode
      <3> QED BY <1>1, <3>2, <3>3, Bounds DEF NodeOk, States
    <2> HIDE DEF new
    <2> QED
      BY <1>7, <2>2 DEF new
  <1> QED
    BY <1>5, <1>6, <1>7, ModeKnown DEF AdoptOk

(* Adopting a candidate reviews, promotes and integrates nothing; a Git     *)
(* milestone it is adopted for is not closed.                              *)
LEMMA AdoptStep ==
    ASSUME NEW d, DbOk(d), NEW m \in Milestones, AdoptOk(d, m),
           Len(d.work[m]["executor"]) <= MaxExec, NEW e, e = Adopt(d, m)
    PROVE  /\ DbOk(e) /\ Quiet(d.node, e.node) /\ e.prog = d.prog
           /\ Mode[m] = "git" => ~Closed(d, m)
           /\ \A x \in Milestones \ {m} : e.node[x] = d.node[x]
           /\ d.node[m].st = "STARTING" /\ (Mode[m] = "git" \/ Inherits(d.node[m]))
              => e.node[m].st = "STARTING"
           /\ \A x \in Milestones : \A q \in WorkRoles(x) :
                 \/ e.work[x][q] = d.work[x][q]
                 \/ /\ x = m /\ d.work[x][q] = <<>> /\ Mode[m] = "already"
                    /\ e.work[x][q] = <<[ph |-> "recorded", s |-> 0]>>
  <1> DEFINE n == d.node[m]
             list == d.work[m]["executor"]
             s == IF Mode[m] = "git" THEN Len(list) ELSE 1
             p == IF Mode[m] = "git" THEN Readopted(n, s)
                  ELSE IF Inherits(n)
                       THEN [Readopted(n, s) EXCEPT !.outcome = {1}]
                  ELSE [n EXCEPT !.subj = 1, !.st = "COMPLETED",
                                 !.blk = "none", !.outcome = {1}]
             w == IF Mode[m] = "already" /\ list = <<>>
                  THEN <<[ph |-> "recorded", s |-> 0]>> ELSE list
             f == WithNode(d, m, p)
             h == WithWork(f, m, "executor", w)
  <1>1. /\ IsDb(d) /\ WorkOk(d.work) /\ list \in Seq(DispatchRows)
        /\ NodeOk(m, n)
    BY RolesKnown DEF DbOk, NodesOk, WorkOk
  <1>2. /\ NodeOk(m, p) /\ p.promoted = n.promoted /\ p.integ = n.integ
        /\ p.reviews = n.reviews
        /\ Mode[m] = "git" => n.promoted = {}
        /\ n.st = "STARTING" /\ (Mode[m] = "git" \/ Inherits(n)) =>
               p.st = "STARTING"
    BY AdoptedNode
  <1>3. Mode[m] = "git" => ~Closed(d, m)
    <2>1. Mode[m] = "git" => n.integ.state # "applied"
      BY <1>1, <1>2 DEF NodeOk
    <2> QED BY <2>1 DEF Closed
  <1>4. e = Ensure(h, "implementation", <<m, s>>)
    <2> HIDE DEF p, w, s
    <2>1. h = [d EXCEPT !.node[m] = p, !.work[m]["executor"] = w]
      BY <1>1 DEF WithNode, WithWork, IsDb
    <2> QED
      BY <2>1 DEF Adopt, p, w, s
  <1> HIDE DEF p, s
  <1>5. /\ DbOk(f) /\ f.node[m] = p /\ Quiet(d.node, f.node) /\ f.prog = d.prog
        /\ f.work = d.work /\ \A x \in Milestones \ {m} : f.node[x] = d.node[x]
    BY <1>1, <1>2, NodeStep
  <1> HIDE DEF f
  <1>6. w \in Seq(DispatchRows)
    <2>1. [ph |-> "recorded", s |-> 0] \in DispatchRows
      BY DEF DispatchRows
    <2> HIDE DEF list
    <2> QED BY <1>1, <2>1
  <1>7. /\ DbOk(h) /\ h.node = f.node /\ h.prog = f.prog
        /\ h.work[m]["executor"] = w
        /\ OnlyList(d.work, h.work, m, "executor")
    <2> HIDE DEF w
    <2>1. ListFits(m, "executor", w) /\ "executor" \in WorkRoles(m)
      BY <1>6, RolesKnown DEF ListFits
    <2> QED BY <1>5, <2>1, WorkStep
  <1> HIDE DEF h
  <1>8. DbOk(e) /\ e.node = h.node /\ e.prog = h.prog /\ e.work = h.work
    <2> HIDE DEF w
    <2> QED BY <1>4, <1>7, EnsureCols
  <1>9. \A x \in Milestones : \A q \in WorkRoles(x) :
            \/ e.work[x][q] = d.work[x][q]
            \/ /\ x = m /\ d.work[x][q] = <<>> /\ Mode[m] = "already"
               /\ e.work[x][q] = <<[ph |-> "recorded", s |-> 0]>>
    <2> SUFFICES ASSUME NEW x \in Milestones, NEW q \in WorkRoles(x)
                 PROVE  \/ e.work[x][q] = d.work[x][q]
                        \/ /\ x = m /\ d.work[x][q] = <<>> /\ Mode[m] = "already"
                           /\ e.work[x][q] = <<[ph |-> "recorded", s |-> 0]>>
      OBVIOUS
    <2>1. CASE x # m \/ q # "executor"
      BY <1>7, <1>8, <2>1 DEF OnlyList
    <2>2. CASE x = m /\ q = "executor"
      BY <1>7, <1>8, <2>2
    <2> QED BY <2>1, <2>2
  <1> HIDE DEF w
  <1> QED
    BY <1>2, <1>3, <1>5, <1>7, <1>8, <1>9

(* Closing the current subject of a milestone.                             *)
LEMMA CloseNodeStep ==
    ASSUME NEW d, DbOk(d), NEW m \in Milestones, NEW s \in Subjects,
           s = d.node[m].subj, NEW advance \in BOOLEAN,
           NEW e, e = CloseNode(d, m, s, advance)
    PROVE  /\ DbOk(e) /\ e.work = d.work /\ e.dec = d.dec
           /\ e.prog.head = d.prog.head
           /\ \A x \in Milestones \ {m} : e.node[x] = d.node[x]
           /\ e.node[m].promoted = d.node[m].promoted \union {s}
           /\ e.node[m].reviews = d.node[m].reviews
           /\ e.node[m].integ = d.node[m].integ
           /\ e.node[m].subj = d.node[m].subj
           /\ e.node[m].st # d.node[m].st => s \notin d.node[m].closed
           /\ \A x \in Milestones : Closed(d, x) => Closed(e, x)
           /\ e.prog.state = "completed" => d.prog.state = "completed" \/ AllClosed(e)
  <1> DEFINE n == d.node[m]
             C == n.closed \union {s}
             p == [n EXCEPT !.promoted = @ \union {s}, !.closed = C, !.st = "ACCEPTED"]
             f == WithNode(d, m, p)
  <1>1. NodeOk(m, n) /\ IsDb(d) /\ d.node = [x \in Milestones |-> d.node[x]]
    BY DEF DbOk, NodesOk
  <1>2. CASE s \in n.closed
    <2>1. e = d
      BY <1>2 DEF CloseNode
    <2>2. s \in n.promoted
      BY <1>1, <1>2 DEF NodeOk
    <2> QED BY <2>1, <2>2
  <1>3. CASE s \notin n.closed
    <2>1. /\ NodeOk(m, p) /\ p.promoted = n.promoted \union {s} /\ p.closed = C
          /\ p.integ = n.integ /\ p.reviews = n.reviews
          /\ p.subj = n.subj /\ p.blk = n.blk
      <3>1. p = [n EXCEPT !.promoted = @ \union {s}, !.closed = C, !.st = "ACCEPTED"]
        OBVIOUS
      <3>2. s = n.subj /\ C = n.closed \union {s}
        OBVIOUS
      <3> HIDE DEF n, p, C
      <3> QED BY <1>1, <3>1, <3>2 DEF NodeOk, IsNode, States
    <2>2. e = Refresh(f, advance)
      <3>1. f = [d EXCEPT !.node[m].promoted = @ \union {s},
                          !.node[m].closed = @ \union {s},
                          !.node[m].st = "ACCEPTED"]
        BY <1>1 DEF WithNode, IsDb, NodeOk, IsNode
      <3> HIDE DEF f
      <3> QED BY <1>3, <3>1 DEF CloseNode
    <2> HIDE DEF p
    <2>3. /\ DbOk(f) /\ f.node[m] = p /\ f.prog = d.prog /\ f.dec = d.dec
          /\ f.work = d.work /\ \A x \in Milestones \ {m} : f.node[x] = d.node[x]
      <3>1. n.promoted \subseteq p.promoted /\ p.integ = n.integ
        BY <2>1
      <3> QED BY <1>1, <2>1, <3>1, NodeStep
    <2> HIDE DEF f
    <2>4. /\ DbOk(e) /\ e.prog.head = f.prog.head
          /\ e.prog.state = "completed" => f.prog.state = "completed" \/ AllClosed(f)
          /\ e.node = f.node /\ e.work = f.work /\ e.dec = f.dec
      BY <2>2, <2>3, RefreshStep
    <2>5. AllClosed(f) => AllClosed(e)
      BY <2>4 DEF AllClosed, Closed
    <2>6. \A x \in Milestones : Closed(d, x) => Closed(e, x)
      <3> SUFFICES ASSUME NEW x \in Milestones, Closed(d, x) PROVE Closed(e, x)
        OBVIOUS
      <3>1. CASE x # m
        BY <2>3, <2>4, <3>1 DEF Closed
      <3>2. CASE x = m
        BY <2>1, <2>3, <2>4, <3>2 DEF Closed
      <3> QED BY <3>1, <3>2
    <2> QED
      BY <1>3, <2>1, <2>3, <2>4, <2>5, <2>6
  <1> QED
    BY <1>2, <1>3

----------------------------------------------------------------------------
(* Integration rows *)

(* A new integration row leaves the rest of the milestone alone.           *)
LEMMA IntegRow ==
    ASSUME NEW m, NEW n, NodeOk(m, n), NEW row \in IntegRows,
           row.state # "none" => Mode[m] = "git" /\ row.s \in n.promoted,
           NEW p, p = [n EXCEPT !.integ = row]
    PROVE  /\ NodeOk(m, p) /\ p.integ = row /\ p.promoted = n.promoted
           /\ p.reviews = n.reviews /\ p.st = n.st /\ p.subj = n.subj
           /\ p.blk = n.blk /\ p.closed = n.closed
  BY DEF NodeOk, IsNode

(* A pending integration moves to another state.                           *)
LEMMA IntegMove ==
    ASSUME NEW m, NEW n, NodeOk(m, n), n.integ.state = "pending",
           NEW st \in {"applied", "conflict"}, NEW p, p = [n EXCEPT !.integ.state = st]
    PROVE  /\ NodeOk(m, p)
           /\ p.integ.state = st /\ p.integ.s = n.integ.s /\ p.integ.base = n.integ.base
           /\ p.promoted = n.promoted /\ p.reviews = n.reviews /\ p.st = n.st
           /\ p.subj = n.subj /\ p.blk = n.blk /\ p.closed = n.closed
  <1> DEFINE row == [n.integ EXCEPT !.state = st]
  <1>1. p = [n EXCEPT !.integ = row]
    OBVIOUS
  <1>2. n.integ \in IntegRows
    BY DEF NodeOk
  <1>3. /\ row \in IntegRows /\ row.state = st /\ row.s = n.integ.s
        /\ row.base = n.integ.base
    BY <1>2 DEF IntegRows
  <1>4. row.state # "none" => Mode[m] = "git" /\ row.s \in n.promoted
    BY <1>3 DEF NodeOk
  <1> HIDE DEF row
  <1>5. /\ NodeOk(m, p) /\ p.integ = row /\ p.promoted = n.promoted
        /\ p.reviews = n.reviews /\ p.st = n.st /\ p.subj = n.subj
        /\ p.blk = n.blk /\ p.closed = n.closed
    BY <1>1, <1>3, <1>4 DEF NodeOk, IsNode
  <1> QED
    BY <1>3, <1>5

\* An integration row after somebody gave up an integration, or not.
GivenUp(row, new) ==
    \/ new = row
    \/ /\ row.state = "pending" /\ new.state = "conflict"
       /\ new.s = row.s /\ new.base = row.base

(* An integration that met a conflict asks for a decision.                 *)
LEMMA ConflictStep ==
    ASSUME NEW d, DbOk(d), NEW x, x.m \in Milestones,
           d.node[x.m].integ.state = "pending", NEW e, e = Conflict(d, x)
    PROVE  /\ DbOk(e) /\ e.work = d.work /\ e.dec = d.dec
           /\ e.prog.head = d.prog.head
           /\ e = d \/ e.prog.state = "needs_decision"
           /\ \A y \in Milestones :
                 /\ GivenUp(d.node[y].integ, e.node[y].integ)
                 /\ e.node[y].promoted = d.node[y].promoted
                 /\ e.node[y].reviews = d.node[y].reviews
                 /\ e.node[y].st = d.node[y].st
  <1> DEFINE m == x.m
             n == d.node[m]
             p == [n EXCEPT !.integ.state = "conflict"]
             f == WithNode(d, m, p)
  <1>1. NodeOk(m, n)
    BY DEF DbOk, NodesOk
  <1>2. CASE n.integ.base # x.base
    BY <1>2 DEF Conflict, GivenUp
  <1>3. CASE n.integ.base = x.base
    <2>1. e = SetProgram(f, "needs_decision", FALSE)
      BY <1>3 DEF Conflict, WithNode
    <2>2. /\ NodeOk(m, p) /\ p.integ.state = "conflict"
          /\ p.integ.s = n.integ.s /\ p.integ.base = n.integ.base
          /\ p.promoted = n.promoted /\ p.reviews = n.reviews
          /\ p.subj = n.subj /\ p.st = n.st
      BY <1>1, IntegMove
    <2> HIDE DEF p
    <2>3. /\ DbOk(f) /\ f.node[m] = p /\ f.prog = d.prog /\ f.work = d.work
          /\ f.dec = d.dec /\ \A y \in Milestones \ {m} : f.node[y] = d.node[y]
      BY <2>2, NodeStep
    <2>4. LET g == SetProgram(f, "needs_decision", FALSE)
          IN  /\ DbOk(g) /\ g.prog.state = "needs_decision" /\ g.prog.head = f.prog.head
              /\ g.node = f.node /\ g.work = f.work /\ g.dec = f.dec
      <3>1. "needs_decision" \in ProgramStates
        BY DEF ProgramStates
      <3> HIDE DEF f
      <3> QED BY <2>3, <3>1, ProgramKeep
    <2>5. GivenUp(n.integ, p.integ)
      BY <2>2 DEF GivenUp
    <2> HIDE DEF f, m
    <2>6. ASSUME NEW y \in Milestones
          PROVE  /\ GivenUp(d.node[y].integ, e.node[y].integ)
                 /\ e.node[y].promoted = d.node[y].promoted
                 /\ e.node[y].reviews = d.node[y].reviews
                 /\ e.node[y].st = d.node[y].st
      <3>1. CASE y = m
        BY <2>1, <2>2, <2>3, <2>4, <2>5, <3>1
      <3>2. CASE y # m
        BY <2>1, <2>3, <2>4, <3>2 DEF GivenUp
      <3> QED BY <3>1, <3>2
    <2> QED
      BY <2>1, <2>3, <2>4, <2>6
  <1> QED
    BY <1>2, <1>3

(* The receipt of an integration moves the head of the program.            *)
LEMMA AppliedStep ==
    ASSUME NEW d, DbOk(d), NEW m \in Milestones, NEW s,
           d.node[m].integ.state = "pending", NEW e, e = Applied(d, m, s)
    PROVE  /\ DbOk(e) /\ e.work = d.work
           /\ DOMAIN d.dec \subseteq DOMAIN e.dec
           /\ \A k \in DOMAIN d.dec : e.dec[k] = d.dec[k]
           /\ e.prog.head = d.node[m].integ.base + 1
           /\ e.prog.state = "completed" => d.prog.state = "completed" \/ AllClosed(e)
           /\ \A x \in Milestones \ {m} : e.node[x] = d.node[x]
           /\ e.node[m].integ.state = "applied"
           /\ e.node[m].integ.s = d.node[m].integ.s
           /\ e.node[m].integ.base = d.node[m].integ.base
           /\ e.node[m].promoted = d.node[m].promoted
           /\ e.node[m].reviews = d.node[m].reviews
           /\ e.node[m].subj = d.node[m].subj /\ e.node[m].st = d.node[m].st
           /\ \A x \in Milestones : Closed(d, x) => Closed(e, x)
  <1> DEFINE n == d.node[m]
             p == [n EXCEPT !.integ.state = "applied"]
             f == WithNode(d, m, p)
             head == n.integ.base + 1
             rev == d.prog.rev + 1
             q == [d.prog EXCEPT !.head = head, !.rev = rev]
             g == [f EXCEPT !.prog = q]
             h == Ensure(g, "integrated", <<m, s>>)
  <1>1. NodeOk(m, n) /\ IsDb(d) /\ ProgOk(d.prog)
        /\ d.node = [x \in Milestones |-> d.node[x]]
    BY DEF DbOk, NodesOk
  <1>2. head \in Nat /\ rev \in Nat
    BY <1>1 DEF NodeOk, IntegRows, ProgOk
  <1>3. /\ NodeOk(m, p) /\ p.integ.state = "applied"
        /\ p.integ.s = n.integ.s /\ p.integ.base = n.integ.base
        /\ p.promoted = n.promoted /\ p.reviews = n.reviews
        /\ p.subj = n.subj /\ p.st = n.st /\ p.blk = n.blk /\ p.closed = n.closed
    BY <1>1, IntegMove
  <1>4. e = Refresh(h, FALSE)
    <2>1. g = [d EXCEPT !.node[m].integ.state = "applied", !.prog.head = head,
                        !.prog.rev = @ + 1]
      <3>1. f = [d EXCEPT !.node[m].integ.state = "applied"]
        BY DEF WithNode
      <3> HIDE DEF head
      <3> QED BY <1>1, <3>1 DEF IsDb, ProgOk
    <2> HIDE DEF g
    <2> QED BY <2>1 DEF Applied
  <1> HIDE DEF p
  <1>5. /\ DbOk(f) /\ f.node[m] = p /\ f.prog = d.prog /\ f.work = d.work
        /\ f.dec = d.dec /\ \A x \in Milestones \ {m} : f.node[x] = d.node[x]
    BY <1>1, <1>3, NodeStep
  <1> HIDE DEF f
  <1>6. ProgOk(q) /\ q.head = head /\ q.state = d.prog.state
    <2> HIDE DEF head, rev
    <2> QED BY <1>1, <1>2 DEF ProgOk
  <1> HIDE DEF q
  <1>7. DbOk(g) /\ g.prog = q /\ g.node = f.node /\ g.work = d.work /\ g.dec = d.dec
    <2>1. /\ IsDb(g) /\ g.prog = q /\ g.node = f.node /\ g.work = f.work
          /\ g.dec = f.dec
      BY <1>5 DEF DbOk, IsDb
    <2> HIDE DEF g
    <2> QED BY <1>5, <1>6, <2>1, ProgChange
  <1> HIDE DEF g
  <1>8. /\ DbOk(h) /\ h.prog = g.prog /\ h.node = g.node /\ h.work = g.work
        /\ DOMAIN d.dec \subseteq DOMAIN h.dec
        /\ \A k \in DOMAIN d.dec : h.dec[k] = d.dec[k]
    BY <1>7, EnsureCols
  <1> HIDE DEF h
  <1>9. /\ DbOk(e) /\ e.prog.head = h.prog.head
        /\ e.prog.state = "completed" => h.prog.state = "completed" \/ AllClosed(h)
        /\ e.node = h.node /\ e.work = h.work /\ e.dec = h.dec
    BY <1>4, <1>8, RefreshStep
  <1>10. AllClosed(h) => AllClosed(e)
    BY <1>9 DEF AllClosed, Closed
  <1>11. e.node = f.node
    BY <1>7, <1>8, <1>9
  <1>12. \A x \in Milestones : Closed(d, x) => Closed(e, x)
    <2> SUFFICES ASSUME NEW x \in Milestones, Closed(d, x) PROVE Closed(e, x)
      OBVIOUS
    <2>1. CASE x = m
      BY <1>1, <1>3, <1>5, <1>11, <2>1 DEF Closed
    <2>2. CASE x # m
      BY <1>5, <1>11, <2>2 DEF Closed
    <2> QED BY <2>1, <2>2
  <1> QED
    BY <1>3, <1>5, <1>6, <1>7, <1>8, <1>9, <1>10, <1>11, <1>12

----------------------------------------------------------------------------
(* Rows of decisions *)

(* A decision nothing was committed for.                                   *)
LEMMA OpenDec ==
    ASSUME NEW x, IsDec(x), x.out = "none", x.eff = <<>>,
           x.st \notin {"action_committed", "acknowledged"}
    PROVE  DecOk(x)
  <1>1. PendingOf(x) = {} /\ Len(x.eff) = 0 /\ DOMAIN x.eff = {}
    BY DEF PendingOf
  <1>2. \E j \in 0..Len(x.eff) : PendingOf(x) = (j + 1)..Len(x.eff)
    BY <1>1
  <1> QED
    BY <1>1, <1>2 DEF DecOk

Handed(x, st, gen) == [x EXCEPT !.st = st, !.gen = gen]

(* An open decision may change hands.                                      *)
LEMMA OpenRow ==
    ASSUME NEW x, DecOk(x), x.out = "none", NEW gen, NEW st,
           st \notin {"action_committed", "acknowledged"},
           NEW y, y = Handed(x, st, gen)
    PROVE  DecOk(y) /\ y.out = "none" /\ y.eff = <<>> /\ y.rev = x.rev
  <1>1. IsDec(x) /\ x.eff = <<>>
    BY DEF DecOk
  <1>2. IsDec(y) /\ y.out = "none" /\ y.eff = <<>> /\ y.rev = x.rev /\ y.st = st
    BY <1>1 DEF IsDec, Handed
  <1> QED
    BY <1>2, OpenDec

(* Superseding what is stale, with a fresh decision in its place.          *)
LEMMA SupersedeStep ==
    ASSUME NEW d, DbOk(d), NEW e, e = SupersedeStale(d)
    PROVE  DbOk(e) /\ e.prog = d.prog /\ e.node = d.node /\ e.work = d.work
  <1> DEFINE C == [k \in DOMAIN d.dec |->
                      IF k \in Stale(d) THEN [d.dec[k] EXCEPT !.st = "superseded"]
                      ELSE d.dec[k]]
             f == [d EXCEPT !.dec = C]
  <1>1. e = IF d.prog.state \in {"completed", "failed"} THEN f
            ELSE Ensure(f, "coalesced", <<d.prog.rev>>)
    BY DEF SupersedeStale
  <1>2. DecsOk(C, d.node)
    <2>1. DecsOk(d.dec, d.node)
      BY DEF DbOk
    <2>2. ASSUME NEW k \in DOMAIN d.dec, k \in Stale(d)
          PROVE  DecOk(C[k]) /\ C[k].out = "none" /\ C[k].eff = <<>>
      <3> DEFINE x == d.dec[k]
                 y == [x EXCEPT !.st = "superseded"]
      <3>1. DecOk(x) /\ x.out = "none" /\ IsDec(x) /\ x.eff = <<>>
        BY <2>1, <2>2 DEF DecsOk, Stale, DecOk
      <3>2. IsDec(y) /\ y.out = "none" /\ y.eff = <<>> /\ y.st = "superseded"
        BY <3>1 DEF IsDec
      <3>3. C[k] = y
        BY <2>2
      <3> HIDE DEF x, y, C
      <3> QED BY <3>2, <3>3, OpenDec
    <2>3. \A k \in DOMAIN d.dec : k \notin Stale(d) => C[k] = d.dec[k]
      OBVIOUS
    <2>4. DOMAIN C = DOMAIN d.dec /\ C = [k \in DOMAIN C |-> C[k]]
      OBVIOUS
    <2> HIDE DEF C
    <2>5. ASSUME NEW k \in DOMAIN C
          PROVE  /\ DecOk(C[k])
                 /\ C[k].out # "none" =>
                       \A i \in DOMAIN C[k].bundle : ActionFact(d.node, C[k].bundle[i])
                 /\ (\E i \in DOMAIN C[k].eff : C[k].eff[i] = "failed") =>
                       FailureKey(C[k]) \in DOMAIN C
      <3>1. CASE k \in Stale(d)
        BY <2>2, <2>4, <3>1
      <3>2. CASE k \notin Stale(d)
        BY <2>1, <2>3, <2>4, <3>2 DEF DecsOk
      <3> QED BY <3>1, <3>2
    <2> QED
      BY <2>4, <2>5 DEF DecsOk
  <1>3. DbOk(f) /\ f.prog = d.prog /\ f.node = d.node /\ f.work = d.work
    <2> HIDE DEF C
    <2>1. /\ IsDb(f) /\ f.dec = C
          /\ f.prog = d.prog /\ f.node = d.node /\ f.work = d.work
      BY DEF DbOk, IsDb
    <2> QED BY <1>2, <2>1 DEF DbOk
  <1> HIDE DEF f
  <1> QED
    BY <1>1, <1>3, EnsureCols

\* f is a function.
IsFun(f) == f = [x \in DOMAIN f |-> f[x]]

(* Ensure, on rows that are being changed.                                 *)
LEMMA EnsureRaw ==
    ASSUME NEW d, IsDb(d), NEW kind, NEW of
    PROVE  LET e == Ensure(d, kind, of)
           IN  /\ IsDb(e)
               /\ e.prog = d.prog /\ e.node = d.node /\ e.work = d.work
               /\ DOMAIN e.dec = DOMAIN d.dec \union {EventKey(kind, of)}
               /\ \A k \in DOMAIN d.dec : e.dec[k] = d.dec[k]
               /\ EventKey(kind, of) \notin DOMAIN d.dec =>
                     e.dec[EventKey(kind, of)] = NewDecision(d)
               /\ \/ e.dec = d.dec
                  \/ IsFun(e.dec)
  <1> DEFINE e == Ensure(d, kind, of)
             key == EventKey(kind, of)
             new == NewDecision(d)
             C == [j \in DOMAIN d.dec \union {key} |->
                      IF j = key THEN new ELSE d.dec[j]]
  <1>1. CASE key \in DOMAIN d.dec
    BY <1>1 DEF Ensure, EventKey
  <1>2. CASE key \notin DOMAIN d.dec
    <2>1. e = [d EXCEPT !.dec = C]
      BY <1>2 DEF Ensure, EventKey
    <2>2. /\ IsDb(e) /\ e.dec = C
          /\ e.prog = d.prog /\ e.node = d.node /\ e.work = d.work
      <3> HIDE DEF C
      <3> QED BY <2>1 DEF IsDb
    <2>3. /\ DOMAIN C = DOMAIN d.dec \union {key}
          /\ \A k \in DOMAIN d.dec : C[k] = d.dec[k]
          /\ C[key] = new /\ IsFun(C)
      BY <1>2 DEF IsFun
    <2> HIDE DEF C, new
    <2> QED
      BY <2>2, <2>3 DEF new
  <1> QED
    BY <1>1, <1>2

\* y has the receipt of effect i of x.
Receipt(x, i, outcome, y) == y.eff = [x.eff EXCEPT ![i] = outcome]

(* What the receipt of effect i makes of a decision's row.                 *)
LEMMA ReceiptRow ==
    ASSUME NEW x, DecOk(x), x.out # "none", NEW i \in DOMAIN x.eff,
           PendingOf(x) = i..Len(x.eff),
           NEW outcome \in {"applied", "failed"}, NEW y, IsDec(y),
           y.bundle = x.bundle, Receipt(x, i, outcome, y),
           NEW st, st = IF outcome = "failed" THEN "human_attention_required" ELSE x.st,
           PendingOf(y) # {} => y.st = st /\ y.out = x.out,
           PendingOf(y) = {} =>
              /\ y.out = "acknowledged"
              /\ y.st = IF st = "human_attention_required" THEN st ELSE "acknowledged"
    PROVE  /\ DecOk(y) /\ y.out # "none" /\ Len(y.eff) = Len(x.eff)
           /\ PendingOf(y) = (i + 1)..Len(x.eff)
  <1>1. x.eff \in Seq({"pending", "applied", "failed"}) /\ Len(x.eff) \in Nat
    BY DEF DecOk
  <1>2. /\ y.eff \in Seq({"pending", "applied", "failed"})
        /\ Len(y.eff) = Len(x.eff) /\ DOMAIN y.eff = DOMAIN x.eff
        /\ \A j \in DOMAIN x.eff : y.eff[j] = IF j = i THEN outcome ELSE x.eff[j]
    BY <1>1 DEF Receipt
  <1>3. i \in 1..Len(x.eff) /\ DOMAIN x.eff = 1..Len(x.eff) /\ i \in Nat
    BY <1>1
  <1>4. PendingOf(y) = PendingOf(x) \ {i}
    <2>1. x.eff[i] = "pending"
      BY <1>3 DEF PendingOf
    <2> QED BY <1>2, <2>1 DEF PendingOf
  <1>5. PendingOf(y) = (i + 1)..Len(x.eff)
    BY <1>1, <1>3, <1>4
  <1>6. \E j \in 0..Len(y.eff) : PendingOf(y) = (j + 1)..Len(y.eff)
    BY <1>2, <1>3, <1>5
  <1>7. /\ x.st \in {"action_committed", "human_attention_required"}
        /\ x.out = "committed"
    <2>1. PendingOf(x) # {}
      BY <1>3
    <2> QED BY <2>1 DEF DecOk
  <1>8. (\E j \in DOMAIN y.eff : y.eff[j] = "failed") =>
           st = "human_attention_required"
    <2>1. CASE outcome = "failed"
      BY <2>1
    <2>2. CASE outcome = "applied"
      BY <1>2, <2>2 DEF DecOk
    <2> QED BY <2>1, <2>2
  <1>9. /\ Len(y.bundle) \in {1, 2} /\ DOMAIN y.bundle = 1..Len(y.bundle)
        /\ Len(y.eff) = Len(Effects(y.bundle))
    BY <1>2 DEF DecOk
  <1>10. CASE PendingOf(y) = {}
    BY <1>2, <1>5, <1>6, <1>8, <1>9, <1>10 DEF DecOk
  <1>11. CASE PendingOf(y) # {}
    BY <1>2, <1>5, <1>6, <1>7, <1>8, <1>9, <1>11 DEF DecOk
  <1> QED
    BY <1>10, <1>11

(* A row of the decisions changes, in whatever ledger.                     *)
LEMMA DecRaw ==
    ASSUME NEW d, IsDb(d), NEW k \in DOMAIN d.dec, NEW x,
           IsFun(d.dec),
           NEW e, e = WithDec(d, k, x)
    PROVE  /\ IsDb(e) /\ DOMAIN e.dec = DOMAIN d.dec /\ e.dec[k] = x
           /\ \A j \in DOMAIN d.dec \ {k} : e.dec[j] = d.dec[j]
           /\ IsFun(e.dec)
           /\ e.prog = d.prog /\ e.node = d.node /\ e.work = d.work
  <1> DEFINE C == [d.dec EXCEPT ![k] = x]
  <1>1. e = [d EXCEPT !.dec = C]
    BY DEF WithDec
  <1>2. /\ DOMAIN C = DOMAIN d.dec /\ C[k] = x
        /\ \A j \in DOMAIN d.dec \ {k} : C[j] = d.dec[j]
        /\ IsFun(C)
    BY DEF IsFun
  <1> HIDE DEF C
  <1>3. IsDb(e) /\ e.dec = C /\ e.prog = d.prog /\ e.node = d.node /\ e.work = d.work
    BY <1>1 DEF IsDb
  <1> QED
    BY <1>2, <1>3

(* The last receipt closes the action.                                     *)
LEMMA AckRaw ==
    ASSUME NEW d, IsDb(d), NEW k \in DOMAIN d.dec, IsDec(d.dec[k]),
           IsFun(d.dec), d.dec[k].out = "committed",
           NEW e, e = AckIfTerminal(d, k)
    PROVE  /\ IsDb(e) /\ DOMAIN e.dec = DOMAIN d.dec
           /\ \A j \in DOMAIN d.dec \ {k} : e.dec[j] = d.dec[j]
           /\ IsFun(e.dec)
           /\ e.prog = d.prog /\ e.node = d.node /\ e.work = d.work
           /\ IsDec(e.dec[k]) /\ e.dec[k].bundle = d.dec[k].bundle
           /\ e.dec[k].eff = d.dec[k].eff /\ e.dec[k].rev = d.dec[k].rev
           /\ PendingOf(d.dec[k]) # {} =>
                 e.dec[k].st = d.dec[k].st /\ e.dec[k].out = "committed"
           /\ PendingOf(d.dec[k]) = {} =>
                 /\ e.dec[k].out = "acknowledged"
                 /\ d.dec[k].st = "human_attention_required" =>
                       e.dec[k].st = "human_attention_required"
                 /\ d.dec[k].st # "human_attention_required" =>
                       e.dec[k].st = "acknowledged"
  <1> DEFINE x == d.dec[k]
             st == IF x.st = "human_attention_required" THEN x.st ELSE "acknowledged"
             y == [x EXCEPT !.out = "acknowledged", !.st = st]
  <1>1. Pending(d, k) = PendingOf(x)
    BY DEF Pending, PendingOf
  <1>2. CASE PendingOf(x) # {}
    <2>1. e = d
      BY <1>1, <1>2 DEF AckIfTerminal
    <2> QED BY <1>2, <2>1
  <1>3. CASE PendingOf(x) = {}
    <2>1. e = WithDec(d, k, y)
      BY <1>1, <1>3 DEF AckIfTerminal, WithDec
    <2>2. /\ IsDec(y) /\ y.out = "acknowledged" /\ y.st = st
          /\ y.bundle = x.bundle /\ y.eff = x.eff /\ y.rev = x.rev
      <3>1. y = [x EXCEPT !.out = "acknowledged", !.st = st] /\ IsDec(x)
        OBVIOUS
      <3> HIDE DEF st, x, y
      <3> QED BY <3>1 DEF IsDec
    <2> HIDE DEF y
    <2>3. /\ IsDb(e) /\ DOMAIN e.dec = DOMAIN d.dec /\ e.dec[k] = y
          /\ \A j \in DOMAIN d.dec \ {k} : e.dec[j] = d.dec[j]
          /\ IsFun(e.dec)
          /\ e.prog = d.prog /\ e.node = d.node /\ e.work = d.work
      BY <2>1, DecRaw
    <2> QED
      BY <1>3, <2>2, <2>3
  <1> QED
    BY <1>2, <1>3

\* What a failed receipt does to the program and its decision.
Failing(d, k, rev) ==
    Ensure([SetProgram(d, "needs_decision", FALSE) EXCEPT
              !.dec[k].st = IF @ = "action_committed"
                            THEN "human_attention_required" ELSE @],
           "effect-failed", <<rev>>)

(* The row and the program as a failed effect leaves them.                 *)
LEMMA FailedRaw ==
    ASSUME NEW d, DbOk(d), NEW k \in DOMAIN d.dec, NEW e, IsDb(e),
           e.prog = d.prog, e.node = d.node, e.work = d.work,
           DOMAIN e.dec = DOMAIN d.dec, IsFun(e.dec),
           \A j \in DOMAIN d.dec \ {k} : e.dec[j] = d.dec[j],
           IsDec(e.dec[k]), e.dec[k].st \in {"action_committed", "human_attention_required"},
           NEW f, f = Failing(e, k, d.dec[k].rev)
    PROVE  /\ IsDb(f) /\ ProgOk(f.prog) /\ f.prog.head = d.prog.head
           /\ f.prog.state # "completed" /\ f.node = d.node /\ f.work = d.work
           /\ IsFun(f.dec)
           /\ DOMAIN f.dec = DOMAIN d.dec \union {FailureKey(d.dec[k])}
           /\ \A j \in DOMAIN d.dec \ {k} : f.dec[j] = d.dec[j]
           /\ \A j \in DOMAIN f.dec \ DOMAIN d.dec :
                 DecOk(f.dec[j]) /\ f.dec[j].out = "none" /\ f.dec[j].eff = <<>>
           /\ IsDec(f.dec[k]) /\ f.dec[k].st = "human_attention_required"
           /\ f.dec[k].bundle = e.dec[k].bundle /\ f.dec[k].eff = e.dec[k].eff
           /\ f.dec[k].rev = e.dec[k].rev /\ f.dec[k].out = e.dec[k].out
  <1> DEFINE g == SetProgram(e, "needs_decision", FALSE)
             q == [e.prog EXCEPT !.state = "needs_decision"]
             x == g.dec[k]
             y == [x EXCEPT !.st = "human_attention_required"]
             h == WithDec(g, k, y)
             key == FailureKey(d.dec[k])
  <1>1. ProgOk(d.prog)
    BY DEF DbOk
  <1>2. /\ IsDb(g) /\ g.prog = q /\ g.node = e.node /\ g.work = e.work
        /\ g.dec = e.dec
    <2>1. q = [e.prog EXCEPT !.state = "needs_decision", !.rev = e.prog.rev]
      BY <1>1 DEF ProgOk
    <2>2. g = [e EXCEPT !.prog = q]
      BY <1>1, <2>1 DEF SetProgram, IsDb, ProgOk
    <2> HIDE DEF q, g
    <2> QED BY <2>2 DEF IsDb
  <1>3. ProgOk(q) /\ q.state = "needs_decision" /\ q.head = d.prog.head
    BY <1>1 DEF ProgOk, ProgramStates
  <1>4. f = Ensure(h, "effect-failed", <<d.dec[k].rev>>)
    <2> DEFINE z == [g EXCEPT !.dec[k].st = IF @ = "action_committed"
                                            THEN "human_attention_required" ELSE @]
    <2>1. z = h
      <3>1. g.dec[k].st \in {"action_committed", "human_attention_required"}
        BY <1>2
      <3>2. z = [g EXCEPT !.dec[k].st = "human_attention_required"]
        BY <3>1
      <3> HIDE DEF g, z
      <3> QED BY <3>2 DEF WithDec
    <2>2. f = Ensure(z, "effect-failed", <<d.dec[k].rev>>)
      BY DEF Failing
    <2> HIDE DEF z, h
    <2> QED BY <2>1, <2>2
  <1>5. /\ IsDec(y) /\ y.st = "human_attention_required"
        /\ y.bundle = x.bundle /\ y.eff = x.eff /\ y.rev = x.rev /\ y.out = x.out
    <2>1. IsDec(x)
      BY <1>2
    <2> HIDE DEF x
    <2> QED BY <2>1 DEF IsDec
  <1> HIDE DEF g, q
  <1>6. /\ IsDb(h) /\ DOMAIN h.dec = DOMAIN d.dec /\ h.dec[k] = y
        /\ \A j \in DOMAIN d.dec \ {k} : h.dec[j] = d.dec[j]
        /\ IsFun(h.dec)
        /\ h.prog = q /\ h.node = d.node /\ h.work = d.work
    <2> HIDE DEF y
    <2>1. k \in DOMAIN g.dec /\ IsFun(g.dec)
      BY <1>2
    <2>2. /\ IsDb(h) /\ DOMAIN h.dec = DOMAIN g.dec /\ h.dec[k] = y
          /\ \A j \in DOMAIN g.dec \ {k} : h.dec[j] = g.dec[j]
          /\ IsFun(h.dec)
          /\ h.prog = g.prog /\ h.node = g.node /\ h.work = g.work
      BY <1>2, <2>1, DecRaw
    <2> QED BY <1>2, <2>2
  <1> HIDE DEF h
  <1>7. key = EventKey("effect-failed", <<d.dec[k].rev>>)
    BY DEF FailureKey
  <1>8. LET z == Ensure(h, "effect-failed", <<d.dec[k].rev>>)
        IN  /\ IsDb(z)
            /\ z.prog = h.prog /\ z.node = h.node /\ z.work = h.work
            /\ DOMAIN z.dec = DOMAIN h.dec \union {key}
            /\ \A j \in DOMAIN h.dec : z.dec[j] = h.dec[j]
            /\ key \notin DOMAIN h.dec => z.dec[key] = NewDecision(h)
            /\ \/ z.dec = h.dec
               \/ IsFun(z.dec)
    BY <1>6, <1>7, EnsureRaw
  <1>9. \A j \in DOMAIN f.dec \ DOMAIN d.dec :
            DecOk(f.dec[j]) /\ f.dec[j].out = "none" /\ f.dec[j].eff = <<>>
    <2> DEFINE new == NewDecision(h)
    <2>1. /\ IsDec(new) /\ new.eff = <<>> /\ new.out = "none"
          /\ new.st = "awaiting_claim"
      BY DEF NewDecision, IsDec
    <2> HIDE DEF new
    <2>2. DecOk(new)
      BY <2>1, OpenDec
    <2>3. \A j \in DOMAIN f.dec \ DOMAIN d.dec : f.dec[j] = new
      BY <1>4, <1>6, <1>8 DEF new
    <2> QED BY <2>1, <2>2, <2>3
  <1>10. f.dec[k] = y
    BY <1>4, <1>6, <1>8
  <1>11. /\ y.bundle = e.dec[k].bundle /\ y.eff = e.dec[k].eff
         /\ y.rev = e.dec[k].rev /\ y.out = e.dec[k].out
    BY <1>2, <1>5
  <1> HIDE DEF y, key
  <1>12. IsFun(f.dec)
    BY <1>4, <1>6, <1>8
  <1>13. /\ IsDb(f) /\ f.prog = q /\ f.node = d.node /\ f.work = d.work
         /\ DOMAIN f.dec = DOMAIN d.dec \union {key}
         /\ \A j \in DOMAIN d.dec \ {k} : f.dec[j] = d.dec[j]
    BY <1>4, <1>6, <1>8
  <1> QED
    BY <1>3, <1>5, <1>9, <1>10, <1>11, <1>12, <1>13 DEF key

(* The receipt of the first effect left.                                   *)
LEMMA RecordEffectStep ==
    ASSUME NEW d, DbOk(d), NEW k \in DOMAIN d.dec, d.dec[k].out # "none",
           NEW i \in DOMAIN d.dec[k].eff,
           PendingOf(d.dec[k]) = i..Len(d.dec[k].eff),
           NEW outcome \in {"applied", "failed"},
           NEW e, e = RecordEffect(d, k, i, outcome)
    PROVE  /\ DbOk(e) /\ e.node = d.node /\ e.work = d.work
           /\ e.prog.head = d.prog.head
           /\ e.prog.state = "completed" => d.prog.state = "completed"
           /\ DOMAIN d.dec \subseteq DOMAIN e.dec
           /\ e.dec[k].out # "none" /\ e.dec[k].bundle = d.dec[k].bundle
           /\ Len(e.dec[k].eff) = Len(d.dec[k].eff)
           /\ PendingOf(e.dec[k]) = (i + 1)..Len(d.dec[k].eff)
  <1> DEFINE x == d.dec[k]
             eff == [x.eff EXCEPT ![i] = outcome]
             y == [x EXCEPT !.eff = eff]
             f == WithDec(d, k, y)
             g == IF outcome = "applied" THEN f ELSE Failing(f, k, x.rev)
             st == IF outcome = "failed" THEN "human_attention_required" ELSE x.st
  <1>1. /\ IsDb(d) /\ ProgOk(d.prog) /\ NodesOk(d.node) /\ WorkOk(d.work)
        /\ DecsOk(d.dec, d.node) /\ IsFun(d.dec)
    BY DEF DbOk, DecsOk, IsFun
  <1>2. DecOk(x) /\ IsDec(x)
    BY <1>1 DEF DecsOk, DecOk
  <1>3. x.st \in {"action_committed", "human_attention_required"} /\ x.out = "committed"
    <2>1. x.eff \in Seq({"pending", "applied", "failed"})
      BY <1>2 DEF DecOk
    <2>2. i \in i..Len(x.eff)
      BY <2>1
    <2>3. PendingOf(x) # {}
      BY <2>2
    <2> HIDE DEF x
    <2> QED BY <1>2, <2>3 DEF DecOk
  <1>4. /\ IsDec(y) /\ y.eff = eff /\ y.bundle = x.bundle /\ y.rev = x.rev
        /\ y.st = x.st /\ y.out = x.out
    <2>1. y = [x EXCEPT !.eff = eff]
      OBVIOUS
    <2> HIDE DEF x, eff, y
    <2> QED BY <1>2, <2>1 DEF IsDec
  <1>5. e = AckIfTerminal(g, k)
    <2>1. f = [d EXCEPT !.dec[k].eff[i] = outcome]
      BY DEF WithDec
    <2>2. e = LET h == [d EXCEPT !.dec[k].eff[i] = outcome]
                  c == IF outcome = "applied" THEN h ELSE Failing(h, k, x.rev)
              IN  AckIfTerminal(c, k)
      BY DEF RecordEffect, Failing
    <2> HIDE DEF f, x
    <2> QED BY <2>1, <2>2
  <1> HIDE DEF y
  <1>6. /\ IsDb(f) /\ DOMAIN f.dec = DOMAIN d.dec /\ f.dec[k] = y
        /\ \A j \in DOMAIN d.dec \ {k} : f.dec[j] = d.dec[j]
        /\ IsFun(f.dec)
        /\ f.prog = d.prog /\ f.node = d.node /\ f.work = d.work
    BY <1>1, DecRaw
  <1> HIDE DEF f
  <1>7. /\ IsDb(g) /\ ProgOk(g.prog) /\ g.prog.head = d.prog.head
        /\ g.prog.state = "completed" => d.prog.state = "completed"
        /\ g.node = d.node /\ g.work = d.work
        /\ IsFun(g.dec)
        /\ DOMAIN d.dec \subseteq DOMAIN g.dec
        /\ outcome = "failed" => FailureKey(x) \in DOMAIN g.dec
        /\ \A j \in DOMAIN d.dec \ {k} : g.dec[j] = d.dec[j]
        /\ \A j \in DOMAIN g.dec \ DOMAIN d.dec :
              DecOk(g.dec[j]) /\ g.dec[j].out = "none" /\ g.dec[j].eff = <<>>
        /\ IsDec(g.dec[k]) /\ g.dec[k].st = st
        /\ g.dec[k].bundle = x.bundle /\ g.dec[k].eff = eff
        /\ g.dec[k].rev = x.rev /\ g.dec[k].out = x.out
    <2>1. CASE outcome = "applied"
      <3>1. g = f
        BY <2>1
      <3>2. st = x.st
        BY <2>1
      <3> HIDE DEF g, st, eff, x
      <3> QED BY <1>1, <1>4, <1>6, <2>1, <3>1, <3>2
    <2>2. CASE outcome = "failed"
      <3>1. g = Failing(f, k, x.rev)
        BY <2>2
      <3> HIDE DEF g
      <3>2. IsDec(f.dec[k]) /\ f.dec[k].st \in {"action_committed", "human_attention_required"}
        BY <1>3, <1>4, <1>6
      <3>3. /\ IsDb(g) /\ ProgOk(g.prog) /\ g.prog.head = d.prog.head
            /\ g.prog.state # "completed" /\ g.node = d.node /\ g.work = d.work
            /\ IsFun(g.dec)
            /\ DOMAIN g.dec = DOMAIN d.dec \union {FailureKey(d.dec[k])}
            /\ \A j \in DOMAIN d.dec \ {k} : g.dec[j] = d.dec[j]
            /\ \A j \in DOMAIN g.dec \ DOMAIN d.dec :
                  DecOk(g.dec[j]) /\ g.dec[j].out = "none" /\ g.dec[j].eff = <<>>
            /\ IsDec(g.dec[k]) /\ g.dec[k].st = "human_attention_required"
            /\ g.dec[k].bundle = f.dec[k].bundle /\ g.dec[k].eff = f.dec[k].eff
            /\ g.dec[k].rev = f.dec[k].rev /\ g.dec[k].out = f.dec[k].out
        <4>1. DbOk(d) /\ k \in DOMAIN d.dec /\ g = Failing(f, k, d.dec[k].rev)
          BY <3>1
        <4> HIDE DEF x, eff, st
        <4> QED BY <1>6, <3>2, <4>1, FailedRaw
      <3>4. st = "human_attention_required"
        BY <2>2
      <3>5. FailureKey(x) \in DOMAIN g.dec /\ DOMAIN d.dec \subseteq DOMAIN g.dec
        BY <3>3
      <3> HIDE DEF st, eff, x
      <3> QED BY <1>4, <1>6, <3>3, <3>4, <3>5
    <2> QED BY <2>1, <2>2
  <1> HIDE DEF g
  <1>8. PendingOf(g.dec[k]) = PendingOf(e.dec[k]) /\ e.dec[k].eff = eff
        /\ IsDb(e) /\ DOMAIN e.dec = DOMAIN g.dec
        /\ (\A j \in DOMAIN g.dec \ {k} : e.dec[j] = g.dec[j])
        /\ IsFun(e.dec)
        /\ e.prog = g.prog /\ e.node = g.node /\ e.work = g.work
        /\ IsDec(e.dec[k]) /\ e.dec[k].bundle = x.bundle /\ e.dec[k].rev = x.rev
        /\ (PendingOf(g.dec[k]) # {} => e.dec[k].st = st /\ e.dec[k].out = x.out)
        /\ (PendingOf(g.dec[k]) = {} =>
              /\ e.dec[k].out = "acknowledged"
              /\ e.dec[k].st = IF st = "human_attention_required"
                               THEN st ELSE "acknowledged")
    <2>1. k \in DOMAIN g.dec /\ g.dec[k].out = "committed"
      BY <1>3, <1>7
    <2> HIDE DEF st, eff, x
    <2>2. /\ IsDb(e) /\ DOMAIN e.dec = DOMAIN g.dec
          /\ \A j \in DOMAIN g.dec \ {k} : e.dec[j] = g.dec[j]
          /\ IsFun(e.dec)
          /\ e.prog = g.prog /\ e.node = g.node /\ e.work = g.work
          /\ IsDec(e.dec[k]) /\ e.dec[k].bundle = g.dec[k].bundle
          /\ e.dec[k].eff = g.dec[k].eff /\ e.dec[k].rev = g.dec[k].rev
          /\ PendingOf(g.dec[k]) # {} =>
                e.dec[k].st = g.dec[k].st /\ e.dec[k].out = "committed"
          /\ PendingOf(g.dec[k]) = {} =>
                /\ e.dec[k].out = "acknowledged"
                /\ g.dec[k].st = "human_attention_required" =>
                      e.dec[k].st = "human_attention_required"
                /\ g.dec[k].st # "human_attention_required" =>
                      e.dec[k].st = "acknowledged"
      <3>1. IsDb(g) /\ IsFun(g.dec) /\ IsDec(g.dec[k])
        BY <1>7
      <3> QED BY <1>5, <2>1, <3>1, AckRaw
    <2>3. PendingOf(g.dec[k]) = PendingOf(e.dec[k])
      BY <2>2 DEF PendingOf
    <2> QED BY <1>3, <1>7, <2>2, <2>3
  <1>9. /\ DecOk(e.dec[k]) /\ e.dec[k].out # "none"
        /\ Len(e.dec[k].eff) = Len(x.eff)
        /\ PendingOf(e.dec[k]) = (i + 1)..Len(x.eff)
    <2> HIDE DEF st
    <2>1. st = IF outcome = "failed" THEN "human_attention_required" ELSE x.st
      BY DEF st
    <2>2. Receipt(x, i, outcome, e.dec[k])
      BY <1>8 DEF Receipt
    <2> HIDE DEF x
    <2>3. PendingOf(x) = i..Len(x.eff) /\ i \in DOMAIN x.eff /\ x.out # "none"
      BY DEF x
    <2>4. /\ PendingOf(e.dec[k]) # {} => e.dec[k].st = st /\ e.dec[k].out = x.out
          /\ PendingOf(e.dec[k]) = {} =>
                /\ e.dec[k].out = "acknowledged"
                /\ e.dec[k].st = IF st = "human_attention_required"
                                 THEN st ELSE "acknowledged"
          /\ IsDec(e.dec[k]) /\ e.dec[k].bundle = x.bundle
      BY <1>8
    <2> DEFINE z == e.dec[k]
    <2> HIDE DEF z
    <2>5. /\ PendingOf(z) # {} => z.st = st /\ z.out = x.out
          /\ PendingOf(z) = {} =>
                /\ z.out = "acknowledged"
                /\ z.st = IF st = "human_attention_required"
                          THEN st ELSE "acknowledged"
          /\ IsDec(z) /\ z.bundle = x.bundle /\ Receipt(x, i, outcome, z)
      BY <2>2, <2>4 DEF z
    <2>6. /\ DecOk(z) /\ z.out # "none" /\ Len(z.eff) = Len(x.eff)
          /\ PendingOf(z) = (i + 1)..Len(x.eff)
      BY <1>2, <2>1, <2>3, <2>5, ReceiptRow
    <2> QED BY <2>6 DEF z
  <1>10. DecsOk(e.dec, d.node)
    <2>1. ASSUME NEW j \in DOMAIN e.dec
          PROVE  /\ DecOk(e.dec[j])
                 /\ e.dec[j].out # "none" =>
                      \A n \in DOMAIN e.dec[j].bundle :
                          ActionFact(d.node, e.dec[j].bundle[n])
                 /\ (\E n \in DOMAIN e.dec[j].eff : e.dec[j].eff[n] = "failed") =>
                       FailureKey(e.dec[j]) \in DOMAIN e.dec
      <3>1. CASE j = k
        <4>1. \A n \in DOMAIN x.bundle : ActionFact(d.node, x.bundle[n])
          BY <1>1 DEF DecsOk
        <4>2. FailureKey(e.dec[k]) = FailureKey(x)
          BY <1>8 DEF FailureKey
        <4>3. (\E n \in DOMAIN x.eff : x.eff[n] = "failed") =>
                  FailureKey(x) \in DOMAIN e.dec
          BY <1>1, <1>7, <1>8 DEF DecsOk
        <4>4. CASE outcome = "failed"
          BY <1>7, <1>8, <1>9, <3>1, <4>1, <4>2, <4>4
        <4>5. CASE outcome = "applied"
          <5>1. \A n \in DOMAIN eff : eff[n] = "failed" => n \in DOMAIN x.eff
                                                          /\ x.eff[n] = "failed"
            BY <4>5
          <5> HIDE DEF eff
          <5> QED BY <1>8, <1>9, <3>1, <4>1, <4>2, <4>3, <5>1
        <4> QED BY <4>4, <4>5
      <3>2. CASE j \in DOMAIN d.dec \ {k}
        <4>1. e.dec[j] = d.dec[j]
          BY <1>7, <1>8, <3>2
        <4> QED BY <1>1, <1>7, <1>8, <3>2, <4>1 DEF DecsOk
      <3>3. CASE j \notin DOMAIN d.dec
        <4>1. e.dec[j] = g.dec[j] /\ j \in DOMAIN g.dec \ DOMAIN d.dec
          BY <1>7, <1>8, <3>3
        <4> QED BY <1>7, <4>1
      <3> QED BY <3>1, <3>2, <3>3
    <2> QED BY <1>8, <2>1 DEF DecsOk, IsFun
  <1> QED
    BY <1>1, <1>7, <1>8, <1>9, <1>10 DEF DbOk

----------------------------------------------------------------------------
(* Dispatches *)

(* One dispatch moves on.                                                  *)
LEMMA FinishStep ==
    ASSUME NEW d, DbOk(d), NEW m \in Milestones, NEW r \in WorkRoles(m),
           NEW g \in DOMAIN d.work[m][r], NEW ph \in {"queued", "recorded", "cancelled"},
           NEW e, e = Finish(d, m, r, g, ph)
    PROVE  /\ DbOk(e) /\ e.prog = d.prog /\ e.node = d.node /\ e.dec = d.dec
           /\ OnlyList(d.work, e.work, m, r)
           /\ Len(e.work[m][r]) = Len(d.work[m][r])
           /\ DOMAIN e.work[m][r] = DOMAIN d.work[m][r]
           /\ e.work[m][r][g].ph = ph
           /\ \A i \in DOMAIN d.work[m][r] :
                 i # g => e.work[m][r][i] = d.work[m][r][i]
  <1> DEFINE list == d.work[m][r]
             row == [list[g] EXCEPT !.ph = ph]
             new == [list EXCEPT ![g] = row]
  <1>1. list \in Seq(DispatchRows) /\ (r \in Roles[m] => \A i \in DOMAIN list :
                                          list[i].s \in Subjects)
    BY DEF DbOk, WorkOk
  <1>2. row \in DispatchRows /\ row.ph = ph /\ row.s = list[g].s
    <2>1. list[g] \in DispatchRows
      BY <1>1
    <2> HIDE DEF list
    <2> QED BY <2>1 DEF DispatchRows
  <1>3. e = WithWork(d, m, r, new)
    BY DEF Finish, WithWork
  <1>4. /\ new \in Seq(DispatchRows) /\ Len(new) = Len(list)
        /\ DOMAIN new = DOMAIN list /\ new[g] = row
        /\ \A i \in DOMAIN list : i # g => new[i] = list[i]
    <2>1. g \in DOMAIN list
      OBVIOUS
    <2> HIDE DEF row, list
    <2> QED BY <1>1, <1>2, <2>1
  <1>5. r \in Roles[m] => \A i \in DOMAIN new : new[i].s \in Subjects
    <2> HIDE DEF row, list, new
    <2>1. g \in DOMAIN list
      BY DEF list
    <2> QED BY <1>1, <1>2, <1>4, <2>1
  <1> HIDE DEF new, row
  <1>6. /\ DbOk(e) /\ e.work[m][r] = new
        /\ OnlyList(d.work, e.work, m, r)
        /\ e.prog = d.prog /\ e.node = d.node /\ e.dec = d.dec
    <2>1. ListFits(m, r, new)
      BY <1>4, <1>5 DEF ListFits
    <2> QED BY <1>3, <2>1, WorkStep
  <1> QED
    BY <1>2, <1>4, <1>6

\* The launch of a worker.
LaunchFact(x) ==
    /\ x.m \in Milestones /\ x.role \in WorkRoles(x.m)
    /\ x.kind = "review" => x.s \in Subjects /\ x.role \in Roles[x.m]
    /\ x.kind # "review" => x.role = "executor" /\ x.kind \in {"start", "repair"}

\* A list with one more dispatch, just claimed.
Grown(old, new) ==
    /\ Len(new) = Len(old) + 1 /\ new[Len(old) + 1].ph = "claimed"
    /\ \A i \in DOMAIN old : new[i] = old[i]

(* A claimed worker gets a dispatch; an executor starts its milestone.     *)
LEMMA WorkerClaimStep ==
    ASSUME NEW d, DbOk(d), NEW x, LaunchFact(x), WorkerClaimOk(d, x),
           NEW e, e = WorkerClaim(d, x)
    PROVE  /\ DbOk(e) /\ Quiet(d.node, e.node) /\ e.prog = d.prog /\ e.dec = d.dec
           /\ \A y \in Milestones : /\ e.node[y].subj = d.node[y].subj
                                    /\ Closed(d, y) => Closed(e, y)
                                    /\ y # x.m => e.node[y].st = d.node[y].st
           /\ x.role = "executor" => /\ e.node[x.m].st = "STARTING"
                                     /\ d.node[x.m].st \in {"PLANNED", "REPAIR_REQUIRED"}
           /\ x.role # "executor" => e.node[x.m].st = d.node[x.m].st
           /\ OnlyList(d.work, e.work, x.m, x.role)
           /\ Grown(d.work[x.m][x.role], e.work[x.m][x.role])
  <1> DEFINE m == x.m
             r == x.role
             s == IF x.kind = "review" THEN x.s ELSE 0
             list == d.work[m][r]
             row == [ph |-> "claimed", s |-> s]
             new == Append(list, row)
             st == IF r = "executor" THEN "STARTING" ELSE d.node[m].st
             f == WithWork(d, m, r, new)
  <1> /\ x.m \in Milestones /\ x.role \in WorkRoles(x.m)
      /\ x.kind = "review" => x.s \in Subjects /\ x.role \in Roles[x.m]
      /\ x.kind # "review" => x.role = "executor" /\ x.kind \in {"start", "repair"}
    BY DEF LaunchFact
  <1>1. /\ list \in Seq(DispatchRows) /\ NodeOk(m, d.node[m])
        /\ r \in Roles[m] => \A i \in DOMAIN list : list[i].s \in Subjects
    BY DEF DbOk, WorkOk, NodesOk
  <1>2. row \in DispatchRows /\ row.ph = "claimed" /\ row.s = s
    BY DEF DispatchRows
  <1>3. r \in Roles[m] => s \in Subjects
    BY RolesKnown
  <1>4. /\ new \in Seq(DispatchRows) /\ Len(new) = Len(list) + 1
        /\ new[Len(list) + 1] = row /\ DOMAIN new = 1..(Len(list) + 1)
        /\ \A i \in DOMAIN list : new[i] = list[i]
    <2> HIDE DEF list, row
    <2> QED BY <1>1, <1>2
  <1>5. r \in Roles[m] => \A i \in DOMAIN new : new[i].s \in Subjects
    <2> HIDE DEF list, row, new, s
    <2>1. \A i \in DOMAIN new : i \in DOMAIN list \/ i = Len(list) + 1
      BY <1>1, <1>4
    <2> QED BY <1>1, <1>2, <1>3, <1>4, <2>1
  <1>6. e = [f EXCEPT !.node[m].st = st]
    BY DEF WorkerClaim, WithWork, NewDispatch
  <1> HIDE DEF new, row, s
  <1>7. /\ DbOk(f) /\ f.work[m][r] = new
        /\ OnlyList(d.work, f.work, m, r)
        /\ f.prog = d.prog /\ f.node = d.node /\ f.dec = d.dec
    <2>1. ListFits(m, r, new)
      BY <1>4, <1>5 DEF ListFits
    <2>2. m \in Milestones /\ r \in WorkRoles(m)
      OBVIOUS
    <2> HIDE DEF m, r
    <2> QED BY <2>1, <2>2, WorkStep
  <1> HIDE DEF f
  <1>8. Grown(list, new)
    BY <1>2, <1>4 DEF Grown
  <1>9. CASE r = "executor"
    <2>1. d.node[m].st \in {"PLANNED", "REPAIR_REQUIRED"}
      BY <1>9, RolesKnown DEF WorkerClaimOk
    <2>2. e = SetState(f, m, "STARTING")
      BY <1>6, <1>9 DEF SetState
    <2>3. /\ DbOk(e) /\ Quiet(f.node, e.node)
          /\ e.prog = f.prog /\ e.work = f.work /\ e.dec = f.dec
          /\ e.node[m].st = "STARTING"
          /\ \A y \in Milestones \ {m} : e.node[y].st = f.node[y].st
          /\ \A y \in Milestones : /\ e.node[y].subj = f.node[y].subj
                                   /\ Closed(f, y) => Closed(e, y)
      <3>1. "STARTING" \in States
        BY DEF States
      <3>2. f.node[m].st # "ACCEPTED" /\ m \in Milestones
        BY <1>7, <2>1
      <3> HIDE DEF m
      <3> QED BY <1>7, <2>2, <3>1, <3>2, StateStep
    <2>4. \A y \in Milestones : Closed(d, y) => Closed(f, y)
      BY <1>7 DEF Closed
    <2>5. Quiet(d.node, e.node)
      BY <1>7, <2>3
    <2>6. \A y \in Milestones : /\ e.node[y].subj = d.node[y].subj
                                /\ Closed(d, y) => Closed(e, y)
                                /\ y # m => e.node[y].st = d.node[y].st
      BY <1>7, <2>3, <2>4
    <2>7. /\ e.work[m][r] = new
          /\ OnlyList(d.work, e.work, m, r)
          /\ e.prog = d.prog /\ e.dec = d.dec
      BY <1>7, <2>3
    <2> QED
      BY <1>9, <1>8, <2>1, <2>3, <2>5, <2>6, <2>7
  <1>10. CASE r # "executor"
    <2>1. e = f
      <3>1. /\ IsDb(f) /\ f.node = [y \in Milestones |-> f.node[y]]
            /\ IsNode(f.node[m]) /\ st = f.node[m].st
        BY <1>7, <1>10 DEF DbOk, NodesOk, NodeOk
      <3>2. [f.node[m] EXCEPT !.st = st] = f.node[m]
        BY <3>1 DEF IsNode
      <3>3. [f.node EXCEPT ![m] = f.node[m]] = f.node
        BY <3>1
      <3>4. e = [f EXCEPT !.node = [@ EXCEPT ![m] = [f.node[m] EXCEPT !.st = st]]]
        BY <1>6
      <3> HIDE DEF st
      <3>5. e = [f EXCEPT !.node = f.node]
        BY <3>2, <3>3, <3>4
      <3> QED BY <3>1, <3>5 DEF IsDb
    <2>2. Quiet(d.node, e.node)
      BY <1>7, <2>1 DEF Quiet
    <2>3. \A y \in Milestones : Closed(d, y) => Closed(e, y)
      BY <1>7, <2>1 DEF Closed
    <2> QED
      BY <1>7, <1>10, <1>8, <2>1, <2>2, <2>3
  <1> QED
    BY <1>9, <1>10

----------------------------------------------------------------------------
(* Effects *)

(* SetToSeq lists the elements of a finite set.                            *)
LEMMA Listed ==
    ASSUME NEW S, IsFiniteSet(S)
    PROVE  SetToSeq(S) \in Seq(S)
  <1>1. Cardinality(S) \in Nat /\ ExistsBijection(1..Cardinality(S), S)
    BY FS_CardinalityType
  <1>2. \E f \in [1..Cardinality(S) -> S] : IsInjective(f)
    BY <1>1 DEF ExistsBijection, Bijection, Injection
  <1>3. SetToSeq(S) \in [1..Cardinality(S) -> S]
    BY <1>2 DEF SetToSeq
  <1> HIDE DEF SetToSeq
  <1> QED
    BY <1>1, <1>3

\* What an effect of a stored action is about.
EffectFact(N, x) ==
    /\ x.m \in Milestones
    /\ \A y \in Deps[x.m] : Delivered(N, y)
    /\ \/ x.kind \in {"start", "repair"} /\ x.role = "executor"
       \/ x.kind = "review" /\ x.role \in Roles[x.m] /\ x.s \in Subjects
       \/ x.kind = "promote" /\ Mode[x.m] = "evidence" /\ x.s \in Subjects
       \/ /\ x.kind = "integrate" /\ Mode[x.m] = "git"
          /\ x.s \in Subjects /\ x.s \in N[x.m].promoted
          /\ x.base \in 0..Cardinality(AppliedOf(N))

(* On picks a target.                                                      *)
LEMMA OnTarget ==
    ASSUME NEW a, a.ms # {}
    PROVE  On(a) \in a.ms
  BY DEF On

(* Every effect of an action names a target of it.                         *)
LEMMA EffectShape ==
    ASSUME NEW N, NEW a, ActionFact(N, a), NEW x \in EffectSet(a)
    PROVE  /\ EffectFact(N, x) /\ x.m \in a.ms /\ x.s = a.s /\ x.kind = a.kind
           /\ x.named = a.named
  <1>1. a.ms \subseteq Milestones /\ \A m \in a.ms : \A y \in Deps[m] : Delivered(N, y)
    BY DEF ActionFact
  <1>2. CASE a.kind = "start"
    <2>1. PICK m \in a.ms : x = [kind |-> a.kind, m |-> m, s |-> a.s,
                                 role |-> "executor", named |-> a.named, base |-> a.base]
      BY <1>2 DEF EffectSet
    <2> QED BY <1>1, <1>2, <2>1 DEF EffectFact
  <1>3. CASE a.kind = "review"
    <2>1. PICK role \in a.roles : x = [kind |-> a.kind, m |-> On(a), s |-> a.s,
                                       role |-> role, named |-> a.named, base |-> a.base]
      BY <1>3 DEF EffectSet
    <2>2. On(a) \in a.ms /\ a.s \in Subjects /\ a.roles \subseteq Roles[On(a)]
      BY <1>3, OnTarget DEF ActionFact
    <2> QED BY <1>1, <1>3, <2>1, <2>2 DEF EffectFact
  <1>4. CASE a.kind = "repair"
    <2>1. x = [kind |-> a.kind, m |-> On(a), s |-> a.s,
               role |-> "executor", named |-> a.named, base |-> a.base]
      BY <1>4 DEF EffectSet
    <2>2. On(a) \in a.ms
      BY <1>4, OnTarget DEF ActionFact
    <2> QED BY <1>1, <1>4, <2>1, <2>2 DEF EffectFact
  <1>5. CASE a.kind = "integrate"
    <2>1. x = [kind |-> a.kind, m |-> On(a), s |-> a.s,
               role |-> "-", named |-> a.named, base |-> a.base]
      BY <1>5 DEF EffectSet
    <2>2. /\ On(a) \in a.ms /\ a.s \in Subjects
          /\ Mode[On(a)] = "git" /\ a.s \in N[On(a)].promoted
          /\ a.base \in 0..Cardinality(AppliedOf(N))
      BY <1>5, OnTarget DEF ActionFact
    <2> QED BY <1>1, <1>5, <2>1, <2>2 DEF EffectFact
  <1>6. CASE a.kind = "promote"
    <2>1. /\ Mode[On(a)] = "evidence"
          /\ x = [kind |-> a.kind, m |-> On(a), s |-> a.s,
                  role |-> "-", named |-> a.named, base |-> a.base]
      BY <1>6 DEF EffectSet
    <2>2. On(a) \in a.ms /\ a.s \in Subjects
      BY <1>6, OnTarget DEF ActionFact
    <2> QED BY <1>1, <1>6, <2>1, <2>2 DEF EffectFact
  <1>7. a.kind \in {"start", "review", "repair", "integrate", "promote"}
    BY DEF EffectSet
  <1> QED
    BY <1>2, <1>3, <1>4, <1>5, <1>6, <1>7

(* An action has finitely many effects.                                    *)
LEMMA EffectsFinite ==
    ASSUME NEW N, NEW a, ActionFact(N, a)
    PROVE  IsFiniteSet(EffectSet(a))
  <1>1. CASE a.kind = "start"
    <2> DEFINE f == [m \in a.ms |-> [kind |-> a.kind, m |-> m, s |-> a.s,
                                     role |-> "executor", named |-> a.named, base |-> a.base]]
    <2>1. EffectSet(a) = {f[m] : m \in a.ms}
      BY <1>1 DEF EffectSet
    <2>2. IsFiniteSet(a.ms)
      BY ProgramConstants, FS_Subset DEF ActionFact
    <2> HIDE DEF f
    <2>3. f \in Surjection(a.ms, EffectSet(a))
      BY <2>1 DEF f, Surjection
    <2> QED BY <2>2, <2>3, FS_Surjection
  <1>2. CASE a.kind = "review"
    <2> DEFINE f == [r \in a.roles |-> [kind |-> a.kind, m |-> On(a), s |-> a.s,
                                        role |-> r, named |-> a.named, base |-> a.base]]
    <2>1. EffectSet(a) = {f[r] : r \in a.roles}
      BY <1>2 DEF EffectSet
    <2>2. IsFiniteSet(a.roles)
      <3>1. IsFiniteSet({"code", "visual", "architecture"})
        <4>1. IsFiniteSet({"code"} \union {"visual"})
          BY FS_Singleton, FS_Union
        <4>2. IsFiniteSet(({"code"} \union {"visual"}) \union {"architecture"})
          BY <4>1, FS_Singleton, FS_Union
        <4>3. ({"code"} \union {"visual"}) \union {"architecture"}
                 = {"code", "visual", "architecture"}
          OBVIOUS
        <4> QED BY <4>2, <4>3
      <3>2. a.roles \subseteq {"code", "visual", "architecture"}
        BY <1>2, OnTarget, RolesKnown DEF ActionFact
      <3> QED BY <3>1, <3>2, FS_Subset
    <2> HIDE DEF f
    <2>3. f \in Surjection(a.roles, EffectSet(a))
      BY <2>1 DEF f, Surjection
    <2> QED BY <2>2, <2>3, FS_Surjection
  <1>3. CASE a.kind \notin {"start", "review"}
    <2>1. EffectSet(a) = {} \/ \E x : EffectSet(a) = {x}
      BY <1>3 DEF EffectSet
    <2>2. CASE EffectSet(a) = {}
      BY <2>2, FS_EmptySet
    <2>3. CASE \E x : EffectSet(a) = {x}
      BY <2>3, FS_Singleton
    <2> QED BY <2>1, <2>2, <2>3
  <1> QED
    BY <1>1, <1>2, <1>3

\* A bundle of actions that are justified.
Justified(N, bundle) ==
    /\ Len(bundle) \in {1, 2} /\ DOMAIN bundle = 1..Len(bundle)
    /\ \A j \in DOMAIN bundle : ActionFact(N, bundle[j])

(* The effects of a stored bundle.                                         *)
LEMMA EffectsKnown ==
    ASSUME NEW N, NEW bundle, Justified(N, bundle)
    PROVE  /\ Len(Effects(bundle)) \in Nat
           /\ \A i \in 1..Len(Effects(bundle)) :
                 \E j \in DOMAIN bundle : Effects(bundle)[i] \in EffectSet(bundle[j])
  <1> DEFINE one == EffectsOf(bundle[1])
             two == IF Len(bundle) = 2 THEN EffectsOf(bundle[2]) ELSE <<>>
             S == UNION {EffectSet(bundle[j]) : j \in DOMAIN bundle}
  <1>1. 1 \in DOMAIN bundle /\ (Len(bundle) = 2 => 2 \in DOMAIN bundle)
    BY DEF Justified
  <1>2. \A j \in DOMAIN bundle : EffectsOf(bundle[j]) \in Seq(EffectSet(bundle[j]))
    BY EffectsFinite, Listed DEF EffectsOf, Justified
  <1>3. \A j \in DOMAIN bundle : EffectsOf(bundle[j]) \in Seq(S)
    <2>1. \A j \in DOMAIN bundle : EffectSet(bundle[j]) \subseteq S
      OBVIOUS
    <2> HIDE DEF S
    <2> QED BY <1>2, <2>1
  <1>4. one \in Seq(S) /\ two \in Seq(S)
    <2> HIDE DEF S
    <2> QED BY <1>1, <1>3
  <1>5. Effects(bundle) = one \o two
    BY DEF Effects
  <1>6. Effects(bundle) \in Seq(S)
    <2> HIDE DEF one, two, S
    <2> QED BY <1>4, <1>5
  <1>7. \A i \in 1..Len(Effects(bundle)) : Effects(bundle)[i] \in S
    <2> HIDE DEF one, two, S
    <2> QED BY <1>6
  <1> QED
    BY <1>6, <1>7

----------------------------------------------------------------------------
(* Actions *)

\* An action that promotes, or authorises an integration.
Promotes(d, a, x) ==
    /\ a.kind = "promote" /\ a.ms = {x} /\ a.s \in Subjects
    /\ ReviewSetOk(d, x, a.s, a.named)

Integrates(d, a, x) ==
    /\ a.kind = "integrate" /\ a.ms = {x} /\ Mode[x] = "git"
    /\ d.node[x].integ.state = "none"

\* What an action may do to the rows.
ActionEffect(d, a, e) ==
    /\ DbOk(e) /\ Later(d.node, e.node)
    /\ e.prog.head = d.prog.head /\ e.work = d.work /\ e.dec = d.dec
    /\ e.prog.state = "completed" => d.prog.state = "completed" \/ AllClosed(e)
    /\ \A x \in Milestones :
          /\ e.node[x].reviews = d.node[x].reviews
          /\ e.node[x].subj = d.node[x].subj
          /\ Closed(d, x) => Closed(e, x)
          /\ e.node[x].st = d.node[x].st \/ d.node[x].st # "STARTING"
          /\ \/ e.node[x].promoted = d.node[x].promoted
             \/ /\ Promotes(d, a, x)
                /\ e.node[x].promoted = d.node[x].promoted \union {a.s}
          /\ \/ e.node[x].integ = d.node[x].integ
             \/ /\ Integrates(d, a, x) /\ e.node[x].integ.state = "pending"
                /\ e.node[x].integ.s = a.s /\ e.node[x].integ.base = d.prog.head

\* The targets, subject and reviewers of an action the rows allow.
ActionShape(d, a) ==
    /\ a.ms \subseteq Milestones /\ a.s \in Subjects \union {0}
    /\ a.kind \notin {"attention", "acknowledge"} => a.ms # {}
    /\ a.kind = "review" => a.s \in Subjects /\ a.roles \subseteq Roles[On(a)]
    /\ a.kind = "promote" => a.s \in Subjects
    /\ a.kind = "integrate" =>
          /\ Mode[On(a)] = "git" /\ a.s \in Subjects
          /\ a.s \in d.node[On(a)].promoted /\ a.base = d.prog.head

(* What Actions chooses from.                                              *)
LEMMA ActionForms ==
    ASSUME NEW d, NEW a \in Actions(d)
    PROVE  \/ \E ms \in (SUBSET Ready(d)) \ {{}} : a = Action("start", ms, 0, {}, {})
           \/ \E m \in Milestones :
                 a = Action("review", {m}, d.node[m].subj, EligibleRoles(d, m), {})
           \/ \E k \in {"repair", "resolve"}, m \in Milestones :
                 a = Action(k, {m}, d.node[m].subj, {}, {})
           \/ \E m \in Milestones :
                 a = [Action("integrate", {m}, d.node[m].subj, {}, {})
                         EXCEPT !.base = d.prog.head]
           \/ \E m \in Milestones :
                 a = Action("promote", {m}, d.node[m].subj, {},
                            AcceptedSet(d, m, d.node[m].subj))
           \/ \E k \in {"attention", "acknowledge"} : a = Action(k, {}, 0, {}, {})
  <1>1. a \in {Action("start", ms, 0, {}, {}) : ms \in (SUBSET Ready(d)) \ {{}}}
              \union {Action("review", {m}, d.node[m].subj, EligibleRoles(d, m), {}) :
                         m \in Milestones}
              \union {Action("repair", {m}, d.node[m].subj, {}, {}) : m \in Milestones}
              \union {Action("resolve", {m}, d.node[m].subj, {}, {}) : m \in Milestones}
              \union {[Action("integrate", {m}, d.node[m].subj, {}, {})
                          EXCEPT !.base = d.prog.head] : m \in Milestones}
              \union {Action("promote", {m}, d.node[m].subj, {},
                             AcceptedSet(d, m, d.node[m].subj)) : m \in Milestones}
              \union {Action(k, {}, 0, {}, {}) : k \in {"attention", "acknowledge"}}
    BY DEF Actions
  <1> QED
    BY <1>1

(* The kinds of actions, and their targets.                                *)
LEMMA ActionKinds ==
    ASSUME NEW d, NEW a \in Actions(d)
    PROVE  /\ ActionOk(d, a)
           /\ \/ /\ a.kind = "start" /\ a.ms \subseteq Ready(d) /\ a.ms # {} /\ a.s = 0
              \/ /\ a.kind \in {"review", "repair", "resolve", "integrate", "promote"}
                 /\ \E m \in Milestones :
                       /\ a.ms = {m} /\ On(a) = m /\ a.s = d.node[m].subj
                       /\ a.kind = "review" => a.roles = EligibleRoles(d, m)
              \/ a.kind \in {"attention", "acknowledge"} /\ a.ms = {} /\ a.s = 0
  <1>1. ActionOk(d, a)
    BY DEF Actions
  <1>3. ASSUME NEW m \in Milestones, a.ms = {m}
        PROVE  On(a) = m
    BY <1>3 DEF On
  <1>4. \/ \E ms \in (SUBSET Ready(d)) \ {{}} : a = Action("start", ms, 0, {}, {})
        \/ \E m \in Milestones :
              a = Action("review", {m}, d.node[m].subj, EligibleRoles(d, m), {})
        \/ \E k \in {"repair", "resolve"}, m \in Milestones :
              a = Action(k, {m}, d.node[m].subj, {}, {})
        \/ \E m \in Milestones :
              a = [Action("integrate", {m}, d.node[m].subj, {}, {})
                      EXCEPT !.base = d.prog.head]
        \/ \E m \in Milestones :
              a = Action("promote", {m}, d.node[m].subj, {},
                         AcceptedSet(d, m, d.node[m].subj))
        \/ \E k \in {"attention", "acknowledge"} : a = Action(k, {}, 0, {}, {})
    BY ActionForms
  <1>5. CASE \E ms \in (SUBSET Ready(d)) \ {{}} : a = Action("start", ms, 0, {}, {})
    BY <1>1, <1>5 DEF Action
  <1>6. CASE \E m \in Milestones :
              a = Action("review", {m}, d.node[m].subj, EligibleRoles(d, m), {})
    BY <1>1, <1>3, <1>6 DEF Action
  <1>7. CASE \E k \in {"repair", "resolve"}, m \in Milestones :
              a = Action(k, {m}, d.node[m].subj, {}, {})
    BY <1>1, <1>3, <1>7 DEF Action
  <1>10. CASE \E m \in Milestones :
              a = [Action("integrate", {m}, d.node[m].subj, {}, {})
                      EXCEPT !.base = d.prog.head]
    BY <1>1, <1>3, <1>10 DEF Action
  <1>8. CASE \E m \in Milestones :
              a = Action("promote", {m}, d.node[m].subj, {},
                         AcceptedSet(d, m, d.node[m].subj))
    BY <1>1, <1>3, <1>8 DEF Action
  <1>9. CASE \E k \in {"attention", "acknowledge"} : a = Action(k, {}, 0, {}, {})
    BY <1>1, <1>9 DEF Action
  <1> QED
    BY <1>4, <1>5, <1>6, <1>7, <1>8, <1>9, <1>10

(* Reviewers are declared.                                                 *)
LEMMA EligibleKnown ==
    ASSUME NEW d, NEW m \in Milestones
    PROVE  EligibleRoles(d, m) \subseteq Roles[m]
  BY DEF EligibleRoles, Initial

(* An action the rows allow is well formed.                                *)
LEMMA ActionShaped ==
    ASSUME NEW d, DbOk(d), NEW a \in Actions(d)
    PROVE  ActionShape(d, a)
  <1>1. CASE a.kind = "start"
    BY <1>1, ActionKinds DEF ActionShape, Ready
  <1>2. CASE a.kind \in {"review", "repair", "resolve", "integrate", "promote"}
    <2>1. PICK m \in Milestones :
             /\ a.ms = {m} /\ On(a) = m /\ a.s = d.node[m].subj
             /\ a.kind = "review" => a.roles = EligibleRoles(d, m)
      BY <1>2, ActionKinds
    <2>2. NodeOk(m, d.node[m])
      BY DEF DbOk, NodesOk
    <2>3. a.s \in Subjects \union {0}
      BY <2>1, <2>2 DEF NodeOk
    <2>4. a.kind \in {"review", "integrate", "promote"} => a.s # 0
      BY ActionKinds DEF ActionOk, StartReviewsOk, IntegrateOk, PromoteOk
    <2>5. a.kind = "integrate" => /\ Mode[m] = "git" /\ a.s \in d.node[m].promoted
                                  /\ a.base = d.prog.head
      BY <2>1, ActionKinds DEF ActionOk, IntegrateOk
    <2> QED
      BY <2>1, <2>3, <2>4, <2>5, <1>2, EligibleKnown DEF ActionShape
  <1>3. CASE a.kind \in {"attention", "acknowledge"}
    BY <1>3, ActionKinds DEF ActionShape
  <1> QED
    BY <1>1, <1>2, <1>3, ActionKinds

(* Its targets were eligible, so what they depend on is delivered.         *)
LEMMA ActionDelivers ==
    ASSUME NEW d, DbOk(d), NEW a, a.ms \subseteq Milestones, ActionEligible(d, a)
    PROVE  \A m \in a.ms : \A x \in Deps[m] : Delivered(d.node, x)
  <1> SUFFICES ASSUME NEW m \in a.ms, NEW x \in Deps[m] PROVE Delivered(d.node, x)
    OBVIOUS
  <1>1. x \in Milestones
    BY ModeKnown
  <1>2. x \in Ancestors(m)
    BY <1>1 DEF Ancestors
  <1>3. Closed(d, x)
    BY <1>2 DEF ActionEligible
  <1>4. NodeOk(x, d.node[x])
    BY <1>1 DEF DbOk, NodesOk
  <1> QED
    BY <1>3, <1>4 DEF Closed, Delivered, NodeOk

(* An action that promotes and integrates nothing.                         *)
LEMMA QuietAction ==
    ASSUME NEW d, NEW a, NEW e, DbOk(e), Quiet(d.node, e.node),
           e.prog.head = d.prog.head, e.work = d.work, e.dec = d.dec,
           e.prog.state = "completed" => d.prog.state = "completed" \/ AllClosed(e),
           \A x \in Milestones :
              /\ e.node[x].subj = d.node[x].subj
              /\ Closed(d, x) => Closed(e, x)
              /\ e.node[x].st = d.node[x].st \/ d.node[x].st # "STARTING"
    PROVE  ActionEffect(d, a, e)
  <1>1. Later(d.node, e.node)
    BY QuietIsLater
  <1> QED
    BY <1>1 DEF ActionEffect, Quiet

(* Committing an action that starts reviews or asks for a repair.          *)
LEMMA StateAction ==
    ASSUME NEW d, DbOk(d), NEW a \in Actions(d), a.kind \in {"review", "repair"},
           NEW e, e = ActionDo(d, a)
    PROVE  ActionEffect(d, a, e)
  <1>1. PICK m \in Milestones : a.ms = {m} /\ On(a) = m /\ a.s = d.node[m].subj
    BY ActionKinds
  <1> DEFINE st == IF a.kind = "review" THEN "REVIEWING" ELSE "REPAIR_REQUIRED"
  <1>2. e = SetState(d, m, st)
    <2>1. a.kind = "review" \/ a.kind = "repair"
      OBVIOUS
    <2> QED BY <1>1, <2>1 DEF ActionDo
  <1>3. d.node[m].st \notin {"ACCEPTED", "STARTING"}
    BY <1>1, ActionKinds DEF ActionOk, StartReviewsOk, RepairOk
  <1>4. st \in States /\ st # "ACCEPTED"
    BY DEF States
  <1> HIDE DEF st
  <1>5. /\ DbOk(e) /\ Quiet(d.node, e.node)
        /\ e.prog = d.prog /\ e.work = d.work /\ e.dec = d.dec
        /\ \A x \in Milestones \ {m} : e.node[x].st = d.node[x].st
        /\ \A x \in Milestones : /\ e.node[x].subj = d.node[x].subj
                                 /\ Closed(d, x) => Closed(e, x)
    BY <1>2, <1>3, <1>4, StateStep
  <1> QED
    BY <1>3, <1>5, QuietAction

(* Resolving a blocker.                                                    *)
LEMMA ResolveAction ==
    ASSUME NEW d, DbOk(d), NEW a \in Actions(d), a.kind = "resolve",
           NEW e, e = ActionDo(d, a)
    PROVE  ActionEffect(d, a, e)
  <1>1. PICK m \in Milestones : a.ms = {m} /\ On(a) = m /\ a.s = d.node[m].subj
    BY ActionKinds
  <1> DEFINE n == d.node[m]
             p == [n EXCEPT !.blk = "none"]
  <1>2. e = WithNode(d, m, p)
    <2>1. e = Resolve(d, m)
      BY <1>1 DEF ActionDo
    <2> QED BY <2>1 DEF Resolve, WithNode
  <1>3. NodeOk(m, n)
    BY DEF DbOk, NodesOk
  <1>4. /\ NodeOk(m, p) /\ p.st = n.st /\ p.blk = "none"
        /\ p.promoted = n.promoted /\ p.integ = n.integ /\ p.reviews = n.reviews
        /\ p.subj = n.subj /\ p.closed = n.closed
    BY <1>3, BlockerRow
  <1> HIDE DEF p
  <1>5. /\ DbOk(e) /\ e.node[m] = p /\ Quiet(d.node, e.node)
        /\ \A x \in Milestones \ {m} : e.node[x] = d.node[x]
        /\ e.prog = d.prog /\ e.work = d.work /\ e.dec = d.dec
    BY <1>2, <1>4, NodeStep
  <1>6. \A x \in Milestones : Closed(d, x) => Closed(e, x)
    <2> SUFFICES ASSUME NEW x \in Milestones, Closed(d, x) PROVE Closed(e, x)
      OBVIOUS
    <2>1. CASE x = m
      BY <1>4, <1>5, <2>1 DEF Closed
    <2>2. CASE x # m
      BY <1>5, <2>2 DEF Closed
    <2> QED BY <2>1, <2>2
  <1>7. \A x \in Milestones : e.node[x].subj = d.node[x].subj
                              /\ e.node[x].st = d.node[x].st
    BY <1>4, <1>5
  <1> QED
    BY <1>5, <1>6, <1>7, QuietAction

(* Promoting a subject.                                                    *)
LEMMA PromoteAction ==
    ASSUME NEW d, DbOk(d), NEW a \in Actions(d), a.kind = "promote",
           NEW e, e = ActionDo(d, a)
    PROVE  ActionEffect(d, a, e)
  <1>1. PICK m \in Milestones : a.ms = {m} /\ On(a) = m /\ a.s = d.node[m].subj
    BY ActionKinds
  <1> DEFINE n == d.node[m]
  <1>2. NodeOk(m, n) /\ IsDb(d) /\ d.node = [x \in Milestones |-> d.node[x]]
    BY DEF DbOk, NodesOk
  <1>3. a.s \in Subjects /\ Promotes(d, a, m) /\ n.st \in {"REVIEWING", "ACCEPTED"}
    <2>1. PromoteOk(d, a)
      BY ActionKinds DEF ActionOk
    <2>2. a.s \in Subjects
      BY <1>1, <1>2, <2>1 DEF PromoteOk, NodeOk
    <2>3. ReviewSetOk(d, m, a.s, a.named)
      BY <1>1, <2>1 DEF PromoteOk
    <2>4. n.st \in {"REVIEWING", "ACCEPTED"}
      BY <1>1, <2>1, ModeKnown DEF PromoteOk
    <2> QED
      BY <1>1, <2>2, <2>3, <2>4 DEF Promotes
  <1>4. CASE Mode[m] = "evidence"
    <2>1. e = d
      BY <1>1, <1>4 DEF ActionDo
    <2> QED BY <2>1, QuietAction DEF Quiet
  <1>5. CASE Mode[m] = "git"
    <2> DEFINE s == a.s
               p == [n EXCEPT !.promoted = @ \union {s}, !.closed = n.closed,
                              !.st = "ACCEPTED"]
    <2>1. e = WithNode(d, m, p)
      <3>1. e = [d EXCEPT !.node[m].promoted = @ \union {a.s}, !.node[m].st = "ACCEPTED"]
        <4>1. e = Promote(d, m, a.s)
          BY <1>1, <1>5 DEF ActionDo
        <4> QED BY <4>1 DEF Promote
      <3>2. p = [n EXCEPT !.promoted = n.promoted \union {s}, !.st = "ACCEPTED"]
        BY <1>2 DEF NodeOk, IsNode
      <3>3. e = WithNode(d, m, [n EXCEPT !.promoted = n.promoted \union {s},
                                         !.st = "ACCEPTED"])
        BY <1>2, <3>1 DEF WithNode, IsDb, NodeOk, IsNode
      <3> QED BY <3>2, <3>3
    <2>2. /\ NodeOk(m, p) /\ p.promoted = n.promoted \union {s} /\ p.closed = n.closed
          /\ p.integ = n.integ /\ p.reviews = n.reviews
          /\ p.subj = n.subj /\ p.blk = n.blk
      <3>1. p = [n EXCEPT !.promoted = @ \union {s}, !.closed = n.closed,
                          !.st = "ACCEPTED"]
        OBVIOUS
      <3>2. s = n.subj /\ s \in Subjects
        BY <1>1, <1>3
      <3> HIDE DEF n, p, s
      <3> QED BY <1>2, <3>1, <3>2 DEF NodeOk, IsNode, States
    <2> HIDE DEF p
    <2>3. /\ DbOk(e) /\ e.node[m] = p /\ Later(d.node, e.node)
          /\ \A x \in Milestones \ {m} : e.node[x] = d.node[x]
          /\ e.prog = d.prog /\ e.work = d.work /\ e.dec = d.dec
      <3>1. n.promoted \subseteq p.promoted /\ p.integ = n.integ
        BY <2>2
      <3> QED BY <1>2, <2>1, <2>2, <3>1, NodeStep
    <2>4. \A x \in Milestones :
             /\ e.node[x].reviews = d.node[x].reviews
             /\ e.node[x].subj = d.node[x].subj
             /\ Closed(d, x) => Closed(e, x)
             /\ e.node[x].st = d.node[x].st \/ d.node[x].st # "STARTING"
             /\ \/ e.node[x].promoted = d.node[x].promoted
                \/ /\ Promotes(d, a, x)
                   /\ e.node[x].promoted = d.node[x].promoted \union {a.s}
             /\ e.node[x].integ = d.node[x].integ
      <3> SUFFICES ASSUME NEW x \in Milestones
          PROVE  /\ e.node[x].reviews = d.node[x].reviews
                 /\ e.node[x].subj = d.node[x].subj
                 /\ Closed(d, x) => Closed(e, x)
                 /\ e.node[x].st = d.node[x].st \/ d.node[x].st # "STARTING"
                 /\ \/ e.node[x].promoted = d.node[x].promoted
                    \/ /\ Promotes(d, a, x)
                       /\ e.node[x].promoted = d.node[x].promoted \union {a.s}
                 /\ e.node[x].integ = d.node[x].integ
        OBVIOUS
      <3>1. CASE x = m
        BY <1>3, <2>2, <2>3, <3>1 DEF Closed
      <3>2. CASE x # m
        BY <2>3, <3>2 DEF Closed
      <3> QED BY <3>1, <3>2
    <2> QED
      BY <2>3, <2>4 DEF ActionEffect
  <1>6. CASE Mode[m] = "already"
    <2> DEFINE s == a.s
    <2>1. e = CloseNode(d, m, s, FALSE)
      BY <1>1, <1>6 DEF ActionDo
    <2>2. s \in Subjects /\ s = d.node[m].subj /\ FALSE \in BOOLEAN
      BY <1>1, <1>3
    <2>3. /\ DbOk(e) /\ e.work = d.work /\ e.dec = d.dec
          /\ e.prog.head = d.prog.head
          /\ \A x \in Milestones \ {m} : e.node[x] = d.node[x]
          /\ e.node[m].promoted = d.node[m].promoted \union {s}
          /\ e.node[m].reviews = d.node[m].reviews
          /\ e.node[m].integ = d.node[m].integ
          /\ e.node[m].subj = d.node[m].subj
          /\ \A x \in Milestones : Closed(d, x) => Closed(e, x)
          /\ e.prog.state = "completed" => d.prog.state = "completed" \/ AllClosed(e)
      <3>1. PICK advance \in BOOLEAN : advance = FALSE
        OBVIOUS
      <3>2. e = CloseNode(d, m, s, advance)
        BY <2>1, <3>1
      <3> HIDE DEF s
      <3> QED BY <2>2, <3>2, CloseNodeStep
    <2>4. Later(d.node, e.node)
      BY <2>3 DEF Later
    <2>5. \A x \in Milestones :
             /\ e.node[x].reviews = d.node[x].reviews
             /\ e.node[x].subj = d.node[x].subj
             /\ e.node[x].st = d.node[x].st \/ d.node[x].st # "STARTING"
             /\ \/ e.node[x].promoted = d.node[x].promoted
                \/ /\ Promotes(d, a, x)
                   /\ e.node[x].promoted = d.node[x].promoted \union {a.s}
             /\ e.node[x].integ = d.node[x].integ
      BY <1>3, <2>3
    <2> QED
      BY <2>3, <2>4, <2>5 DEF ActionEffect
  <1> QED
    BY <1>4, <1>5, <1>6, ModeKnown

(* Authorising an integration, at the head the ledger knows.               *)
LEMMA IntegrateAction ==
    ASSUME NEW d, DbOk(d), NEW a \in Actions(d), a.kind = "integrate",
           NEW e, e = ActionDo(d, a)
    PROVE  ActionEffect(d, a, e)
  <1>1. PICK m \in Milestones : a.ms = {m} /\ On(a) = m /\ a.s = d.node[m].subj
    BY ActionKinds
  <1> DEFINE n == d.node[m]
             row == [state |-> "pending", s |-> a.s, base |-> d.prog.head]
             p == [n EXCEPT !.integ = row]
  <1>2. NodeOk(m, n) /\ d.prog.head \in Nat
    BY DEF DbOk, NodesOk, ProgOk
  <1>3. /\ Mode[m] = "git" /\ a.s \in Subjects /\ a.s \in n.promoted
        /\ n.integ.state \in {"none", "pending"}
    <2>1. IntegrateOk(d, a)
      BY ActionKinds DEF ActionOk
    <2> QED BY <1>1, <1>2, <2>1 DEF IntegrateOk, NodeOk
  <1>4. CASE n.integ.state = "pending"
    <2>1. e = AuthoriseIntegration(d, m, a.s)
      BY <1>1 DEF ActionDo
    <2>2. e = d
      BY <1>4, <2>1 DEF AuthoriseIntegration
    <2> QED BY <2>2, QuietAction DEF Quiet
  <1>5. CASE n.integ.state = "none"
    <2>1. e = WithNode(d, m, p)
      <3>1. e = AuthoriseIntegration(d, m, a.s)
        BY <1>1 DEF ActionDo
      <3>2. e = [d EXCEPT !.node[m].integ = row]
        BY <1>5, <3>1 DEF AuthoriseIntegration
      <3> QED BY <3>2 DEF WithNode
    <2>2. /\ row \in IntegRows /\ row.state = "pending" /\ row.s = a.s
          /\ row.base = d.prog.head
      BY <1>2, <1>3 DEF IntegRows
    <2> HIDE DEF row
    <2>3. /\ NodeOk(m, p) /\ p.integ = row /\ p.promoted = n.promoted
          /\ p.reviews = n.reviews /\ p.st = n.st /\ p.subj = n.subj
          /\ p.blk = n.blk /\ p.closed = n.closed
      BY <1>2, <1>3, <2>2, IntegRow
    <2> HIDE DEF p
    <2>4. /\ DbOk(e) /\ e.node[m] = p /\ Later(d.node, e.node)
          /\ \A x \in Milestones \ {m} : e.node[x] = d.node[x]
          /\ e.prog = d.prog /\ e.work = d.work /\ e.dec = d.dec
      BY <1>5, <2>1, <2>3, NodeStep
    <2>5. Integrates(d, a, m)
      BY <1>1, <1>3, <1>5 DEF Integrates
    <2>6. \A x \in Milestones :
             /\ e.node[x].reviews = d.node[x].reviews
             /\ e.node[x].subj = d.node[x].subj
             /\ Closed(d, x) => Closed(e, x)
             /\ e.node[x].st = d.node[x].st
             /\ e.node[x].promoted = d.node[x].promoted
             /\ \/ e.node[x].integ = d.node[x].integ
                \/ /\ Integrates(d, a, x) /\ e.node[x].integ.state = "pending"
                   /\ e.node[x].integ.s = a.s /\ e.node[x].integ.base = d.prog.head
      <3> SUFFICES ASSUME NEW x \in Milestones
          PROVE  /\ e.node[x].reviews = d.node[x].reviews
                 /\ e.node[x].subj = d.node[x].subj
                 /\ Closed(d, x) => Closed(e, x)
                 /\ e.node[x].st = d.node[x].st
                 /\ e.node[x].promoted = d.node[x].promoted
                 /\ \/ e.node[x].integ = d.node[x].integ
                    \/ /\ Integrates(d, a, x) /\ e.node[x].integ.state = "pending"
                       /\ e.node[x].integ.s = a.s
                       /\ e.node[x].integ.base = d.prog.head
        OBVIOUS
      <3>1. CASE x = m
        BY <1>3, <1>5, <2>2, <2>3, <2>4, <2>5, <3>1 DEF Closed
      <3>2. CASE x # m
        BY <2>4, <3>2 DEF Closed
      <3> QED BY <3>1, <3>2
    <2> QED
      BY <2>4, <2>6 DEF ActionEffect
  <1> QED
    BY <1>3, <1>4, <1>5

(* Committing an action.                                                   *)
LEMMA ActionStep ==
    ASSUME NEW d, DbOk(d), NEW a \in Actions(d), NEW e, e = ActionDo(d, a)
    PROVE  ActionEffect(d, a, e)
  <1>1. CASE a.kind = "start" \/ a.kind = "acknowledge"
    <2>1. e = d
      BY <1>1 DEF ActionDo
    <2> QED BY <2>1, QuietAction DEF Quiet
  <1>2. CASE a.kind = "attention"
    <2>1. LET g == SetProgram(d, "needs_decision", FALSE)
          IN  /\ DbOk(g) /\ g.prog.state = "needs_decision" /\ g.prog.head = d.prog.head
              /\ g.node = d.node /\ g.work = d.work /\ g.dec = d.dec
      BY ProgramKeep DEF ProgramStates
    <2>2. e = SetProgram(d, "needs_decision", FALSE)
      BY <1>2 DEF ActionDo
    <2>3. /\ DbOk(e) /\ e.prog.state = "needs_decision" /\ e.prog.head = d.prog.head
          /\ e.node = d.node /\ e.work = d.work /\ e.dec = d.dec
      BY <2>1, <2>2
    <2>4. \A x \in Milestones : Closed(d, x) => Closed(e, x)
      BY <2>3 DEF Closed
    <2> QED BY <2>3, <2>4, QuietAction DEF Quiet
  <1>3. CASE a.kind \in {"review", "repair"}
    BY <1>3, StateAction
  <1>4. CASE a.kind = "resolve"
    BY <1>4, ResolveAction
  <1>5. CASE a.kind = "promote"
    BY <1>5, PromoteAction
  <1>6. CASE a.kind = "integrate"
    BY <1>6, IntegrateAction
  <1> QED
    BY <1>1, <1>2, <1>3, <1>4, <1>5, <1>6, ActionKinds

----------------------------------------------------------------------------
(* Bundles *)

\* The milestones whose dependencies are delivered.
Reach(d) == {m \in Milestones : \A x \in Deps[m] : Delivered(d.node, x)}

\* At most one subject is promoted, of a milestone of R, and its reviews
\* endorse it.
PromotesOne(d, e, R) ==
    \/ \A x \in Milestones : e.node[x].promoted = d.node[x].promoted
    \/ \E m \in Milestones \intersect R, s \in Subjects : \E named :
          /\ ReviewSetOk(d, m, s, named)
          /\ e.node[m].promoted = d.node[m].promoted \union {s}
          /\ \A x \in Milestones \ {m} : e.node[x].promoted = d.node[x].promoted

\* What a bundle may do to the rows.
BundleEffect(d, e) ==
    /\ Later(d.node, e.node) /\ e.prog.head = d.prog.head /\ e.work = d.work
    /\ e.prog.state = "completed" => d.prog.state = "completed" \/ AllClosed(e)
    /\ \A x \in Milestones :
          /\ e.node[x].reviews = d.node[x].reviews
          /\ e.node[x].subj = d.node[x].subj
          /\ Closed(d, x) => Closed(e, x)
          /\ e.node[x].st = d.node[x].st \/ d.node[x].st # "STARTING"
          /\ \/ e.node[x].integ = d.node[x].integ
             \/ /\ d.node[x].integ.state = "none"
                /\ e.node[x].integ.state = "pending"
                /\ e.node[x].integ.base = d.prog.head
    /\ PromotesOne(d, e, Reach(d))

(* A review set depends on the recorded reviews only.                      *)
LEMMA ReviewSetSame ==
    ASSUME NEW d, NEW e, NEW m, e.node[m].reviews = d.node[m].reviews, NEW s,
           NEW named, ReviewSetOk(e, m, s, named)
    PROVE  ReviewSetOk(d, m, s, named)
  BY DEF ReviewSetOk, AcceptedSet, ReviewsOf

(* One action promotes at most one subject.                                *)
LEMMA PromotesAtMost ==
    ASSUME NEW d, NEW a, NEW e, ActionEffect(d, a, e), NEW R, a.ms \subseteq R
    PROVE  PromotesOne(d, e, R)
  <1>1. ASSUME NEW m \in Milestones, Promotes(d, a, m),
               e.node[m].promoted = d.node[m].promoted \union {a.s}
        PROVE  PromotesOne(d, e, R)
    <2>1. a.s \in Subjects /\ ReviewSetOk(d, m, a.s, a.named) /\ m \in R
      BY <1>1 DEF Promotes
    <2>2. \A x \in Milestones \ {m} : e.node[x].promoted = d.node[x].promoted
      BY <1>1 DEF ActionEffect, Promotes
    <2> QED
      BY <1>1, <2>1, <2>2 DEF PromotesOne
  <1>2. \/ \A x \in Milestones : e.node[x].promoted = d.node[x].promoted
        \/ \E m \in Milestones : /\ Promotes(d, a, m)
                                 /\ e.node[m].promoted = d.node[m].promoted \union {a.s}
    BY DEF ActionEffect
  <1> QED
    BY <1>1, <1>2 DEF PromotesOne

(* Other actions promote nothing.                                          *)
LEMMA PromotesNone ==
    ASSUME NEW d, NEW a, NEW e, ActionEffect(d, a, e), a.kind # "promote"
    PROVE  \A x \in Milestones : e.node[x].promoted = d.node[x].promoted
  BY DEF ActionEffect, Promotes

(* A bundle of one action.                                                 *)
LEMMA OneAction ==
    ASSUME NEW d, NEW a, NEW e, ActionEffect(d, a, e), a.ms \subseteq Reach(d)
    PROVE  BundleEffect(d, e)
  <1>1. PromotesOne(d, e, Reach(d))
    BY PromotesAtMost
  <1> QED
    BY <1>1 DEF BundleEffect, ActionEffect, Integrates

(* A bundle of two actions of different kinds.                             *)
LEMMA TwoActions ==
    ASSUME NEW d, NEW a, NEW f, ActionEffect(d, a, f), a.ms \subseteq Reach(d),
           NEW b, NEW e, ActionEffect(f, b, e), b.ms \subseteq Reach(d),
           a.kind # b.kind
    PROVE  BundleEffect(d, e)
  <1>1. Later(d.node, e.node)
    BY LaterTwice DEF ActionEffect
  <1>2. e.prog.head = d.prog.head /\ e.work = d.work
    BY DEF ActionEffect
  <1>3. \A x \in Milestones :
          /\ e.node[x].reviews = d.node[x].reviews
          /\ f.node[x].reviews = d.node[x].reviews
          /\ e.node[x].subj = d.node[x].subj
          /\ Closed(d, x) => Closed(f, x)
          /\ Closed(f, x) => Closed(e, x)
          /\ e.node[x].st = d.node[x].st \/ d.node[x].st # "STARTING"
    BY DEF ActionEffect
  <1>4. e.prog.state = "completed" => d.prog.state = "completed" \/ AllClosed(e)
    <2>1. AllClosed(f) => AllClosed(e)
      BY <1>3 DEF AllClosed
    <2> QED BY <2>1 DEF ActionEffect
  <1>5. \A x \in Milestones :
          \/ e.node[x].integ = d.node[x].integ
          \/ /\ d.node[x].integ.state = "none"
             /\ e.node[x].integ.state = "pending"
             /\ e.node[x].integ.base = d.prog.head
    BY DEF ActionEffect, Integrates
  <1> DEFINE R == Reach(d)
  <1> HIDE DEF R
  <1>6. PromotesOne(d, e, R)
    <2>0. a.ms \subseteq R /\ b.ms \subseteq R
      BY DEF R
    <2>1. CASE a.kind # "promote"
      <3>1. \A x \in Milestones : f.node[x].promoted = d.node[x].promoted
        BY <2>1, PromotesNone
      <3>2. PromotesOne(f, e, R)
        BY <2>0, PromotesAtMost
      <3>3. CASE \A x \in Milestones : e.node[x].promoted = f.node[x].promoted
        BY <3>1, <3>3 DEF PromotesOne
      <3>4. CASE \E m \in Milestones \intersect R, s \in Subjects : \E named :
                    /\ ReviewSetOk(f, m, s, named)
                    /\ e.node[m].promoted = f.node[m].promoted \union {s}
                    /\ \A x \in Milestones \ {m} :
                          e.node[x].promoted = f.node[x].promoted
        <4>0. PICK m \in Milestones \intersect R, s \in Subjects : \E named :
                    /\ ReviewSetOk(f, m, s, named)
                    /\ e.node[m].promoted = f.node[m].promoted \union {s}
                    /\ \A x \in Milestones \ {m} :
                          e.node[x].promoted = f.node[x].promoted
          BY <3>4
        <4>1. PICK named :
                    /\ ReviewSetOk(f, m, s, named)
                    /\ e.node[m].promoted = f.node[m].promoted \union {s}
                    /\ \A x \in Milestones \ {m} :
                          e.node[x].promoted = f.node[x].promoted
          BY <4>0
        <4>2. ReviewSetOk(d, m, s, named)
          BY <1>3, <4>1, ReviewSetSame
        <4> QED BY <3>1, <4>1, <4>2 DEF PromotesOne
      <3> QED BY <3>2, <3>3, <3>4 DEF PromotesOne
    <2>2. CASE b.kind # "promote"
      <3>1. \A x \in Milestones : e.node[x].promoted = f.node[x].promoted
        BY <2>2, PromotesNone
      <3>2. PromotesOne(d, f, R)
        BY <2>0, PromotesAtMost
      <3> QED BY <3>1, <3>2 DEF PromotesOne
    <2> QED BY <2>1, <2>2
  <1> QED
    BY <1>1, <1>2, <1>3, <1>4, <1>5, <1>6 DEF BundleEffect, R

\* The head of the ledger was reached by integrations.
HeadReached(d) == d.prog.head \in 0..Cardinality(AppliedOf(d.node))

(* A well formed action whose targets were eligible is a stored action.    *)
LEMMA ShapeFact ==
    ASSUME NEW d, NEW a, ActionShape(d, a), HeadReached(d),
           \A m \in a.ms : \A x \in Deps[m] : Delivered(d.node, x)
    PROVE  ActionFact(d.node, a)
  BY DEF ActionShape, ActionFact, HeadReached

(* An action leaves the head where it is.                                  *)
LEMMA HeadStays ==
    ASSUME NEW d, NEW a, NEW e, ActionEffect(d, a, e), HeadReached(d)
    PROVE  HeadReached(e)
  BY AppliedMore DEF ActionEffect, HeadReached

(* The bundles a controller may ask for.                                   *)
LEMMA BundleKnown ==
    ASSUME NEW d, NEW bundle \in Bundles(d)
    PROVE  \/ \E a \in Actions(d) : bundle = <<a>>
           \/ \E a \in Actions(d) : \E b \in Actions(ActionDo(d, a)) :
                 bundle = <<a, b>> /\ a.kind # b.kind
  BY DEF Bundles

(* The actions of a bundle, and what they do together.                     *)
LEMMA BundleStep ==
    ASSUME NEW d, DbOk(d), NEW bundle \in Bundles(d), Passes(d, bundle),
           HeadReached(d),
           NEW e, e = IF Len(bundle) = 2
                      THEN ActionDo(ActionDo(d, bundle[1]), bundle[2])
                      ELSE ActionDo(d, bundle[1])
    PROVE  /\ DbOk(e) /\ e.dec = d.dec /\ BundleEffect(d, e)
           /\ Len(bundle) \in {1, 2} /\ DOMAIN bundle = 1..Len(bundle)
           /\ \A i \in DOMAIN bundle : ActionFact(e.node, bundle[i])
  <1>1. CASE \E a \in Actions(d) : bundle = <<a>>
    <2>1. PICK a \in Actions(d) : bundle = <<a>>
      BY <1>1
    <2>2. Len(bundle) = 1 /\ DOMAIN bundle = 1..1 /\ bundle[1] = a
      BY <2>1
    <2>3. e = ActionDo(d, a)
      BY <2>2
    <2>4. ActionEffect(d, a, e) /\ ActionShape(d, a)
      BY <2>3, ActionStep, ActionShaped
    <2>5. a.ms \subseteq Milestones /\ ActionEligible(d, a)
      BY <2>2, <2>4 DEF ActionShape, Passes, Sound
    <2>6. ActionFact(e.node, a)
      <3>1. ActionFact(d.node, a)
        BY <2>4, <2>5, ActionDelivers, ShapeFact
      <3> QED BY <2>4, <3>1, ActionFactStays DEF ActionEffect
    <2>7. BundleEffect(d, e)
      <3>1. a.ms \subseteq Reach(d)
        BY <2>5, ActionDelivers DEF Reach
      <3> QED BY <2>4, <3>1, OneAction
    <2> QED
      BY <2>2, <2>4, <2>6, <2>7 DEF ActionEffect
  <1>2. CASE \E a \in Actions(d) : \E b \in Actions(ActionDo(d, a)) :
                bundle = <<a, b>> /\ a.kind # b.kind
    <2>1. PICK a \in Actions(d) : \E b \in Actions(ActionDo(d, a)) :
                bundle = <<a, b>> /\ a.kind # b.kind
      BY <1>2
    <2> DEFINE f == ActionDo(d, a)
    <2>2. PICK b \in Actions(f) : bundle = <<a, b>> /\ a.kind # b.kind
      BY <2>1
    <2>3. /\ Len(bundle) = 2 /\ DOMAIN bundle = 1..2
          /\ bundle[1] = a /\ bundle[2] = b
      BY <2>2
    <2>4. e = ActionDo(f, b)
      BY <2>3
    <2>5. ActionEffect(d, a, f) /\ ActionShape(d, a)
      BY ActionStep, ActionShaped
    <2> HIDE DEF f
    <2>6. ActionEffect(f, b, e) /\ ActionShape(f, b)
      <3>1. DbOk(f)
        BY <2>5 DEF ActionEffect
      <3> QED BY <2>4, <3>1, ActionStep, ActionShaped
    <2>7. /\ a.ms \subseteq Milestones /\ ActionEligible(d, a)
          /\ b.ms \subseteq Milestones /\ ActionEligible(d, b)
      BY <2>3, <2>5, <2>6 DEF ActionShape, Passes, Sound
    <2>8. ActionFact(e.node, a)
      <3>1. ActionFact(d.node, a)
        BY <2>5, <2>7, ActionDelivers, ShapeFact
      <3>2. Later(d.node, f.node) /\ Later(f.node, e.node)
        BY <2>5, <2>6 DEF ActionEffect
      <3>3. ActionFact(f.node, a)
        BY <3>1, <3>2, ActionFactStays
      <3> QED BY <3>2, <3>3, ActionFactStays
    <2>9. ActionFact(e.node, b)
      <3>1. \A m \in b.ms : \A x \in Deps[m] : Delivered(d.node, x)
        BY <2>7, ActionDelivers
      <3>2. Later(d.node, f.node) /\ Later(f.node, e.node)
        BY <2>5, <2>6 DEF ActionEffect
      <3>3. \A x \in Milestones : Delivered(d.node, x) => Delivered(f.node, x)
        BY <3>2 DEF Later, Delivered
      <3>4. \A m \in b.ms : Deps[m] \subseteq Milestones
        BY <2>7, ModeKnown
      <3>5. \A m \in b.ms : \A x \in Deps[m] : Delivered(f.node, x)
        BY <3>1, <3>3, <3>4
      <3>6. ActionFact(f.node, b)
        BY <2>5, <2>6, <3>5, ShapeFact, HeadStays
      <3> QED BY <3>2, <3>6, ActionFactStays
    <2>10. BundleEffect(d, e)
      <3>1. a.ms \subseteq Reach(d) /\ b.ms \subseteq Reach(d)
        BY <2>7, ActionDelivers DEF Reach
      <3> QED BY <2>2, <2>5, <2>6, <3>1, TwoActions
    <2> QED
      BY <2>3, <2>5, <2>6, <2>8, <2>9, <2>10 DEF ActionEffect
  <1> QED
    BY <1>1, <1>2, BundleKnown

\* A decision with its bundle, before any effect.
Committed(x, bundle) ==
    [x EXCEPT !.st = "action_committed", !.out = "committed", !.bundle = bundle,
              !.eff = [i \in 1..Len(Effects(bundle)) |-> "pending"]]

\* A bundle as a sequence of one or two actions.
IsBundle(bundle) ==
    /\ Len(bundle) \in {1, 2} /\ DOMAIN bundle = 1..Len(bundle)
    /\ Len(Effects(bundle)) \in Nat

(* A committed bundle has its outbox, and all of it is pending.            *)
LEMMA CommitRowStep ==
    ASSUME NEW x, IsDec(x), NEW bundle, IsBundle(bundle), NEW y, y = Committed(x, bundle)
    PROVE  /\ DecOk(y) /\ y.out = "committed" /\ y.bundle = bundle
           /\ \A i \in DOMAIN y.eff : y.eff[i] # "failed"
  <1> DEFINE eff == [i \in 1..Len(Effects(bundle)) |-> "pending"]
  <1>1. /\ IsDec(y) /\ y.out = "committed" /\ y.bundle = bundle /\ y.eff = eff
        /\ y.st = "action_committed"
    <2>1. y = [x EXCEPT !.st = "action_committed", !.out = "committed",
                        !.bundle = bundle, !.eff = eff]
      BY DEF Committed
    <2> HIDE DEF eff
    <2> QED BY <2>1 DEF IsDec
  <1>2. /\ eff \in Seq({"pending", "applied", "failed"})
        /\ Len(eff) = Len(Effects(bundle)) /\ DOMAIN eff = 1..Len(eff)
        /\ \A i \in DOMAIN eff : eff[i] = "pending"
    BY DEF IsBundle
  <1>3. PendingOf(y) = 1..Len(eff)
    BY <1>1, <1>2 DEF PendingOf
  <1>4. \E j \in 0..Len(y.eff) : PendingOf(y) = (j + 1)..Len(y.eff)
    BY <1>1, <1>2, <1>3
  <1>5. \A i \in DOMAIN y.eff : y.eff[i] # "failed"
    BY <1>1, <1>2
  <1> QED
    BY <1>1, <1>2, <1>4, <1>5 DEF DecOk, IsBundle

(* submit_program_controller_actions                                       *)
LEMMA CommitStep ==
    ASSUME NEW d, DbOk(d), NEW k \in DOMAIN d.dec, NEW bundle \in Bundles(d),
           Passes(d, bundle), HeadReached(d), NEW e, e = Commit(d, k, bundle)
    PROVE  /\ DbOk(e) /\ BundleEffect(d, e)
           /\ k \in DOMAIN e.dec /\ e.dec[k].out # "none"
  <1> DEFINE f == IF Len(bundle) = 2
                  THEN ActionDo(ActionDo(d, bundle[1]), bundle[2])
                  ELSE ActionDo(d, bundle[1])
             rev == f.prog.rev + 1
             q == [f.prog EXCEPT !.rev = rev]
             h == [f EXCEPT !.prog = q]
             eff == [i \in 1..Len(Effects(bundle)) |-> "pending"]
             x == h.dec[k]
             y == Committed(x, bundle)
  <1>1. e = [f EXCEPT !.prog.rev = @ + 1,
                      !.dec[k].st = "action_committed",
                      !.dec[k].out = "committed",
                      !.dec[k].bundle = bundle,
                      !.dec[k].eff = eff]
    BY DEF Commit
  <1>2. f = IF Len(bundle) = 2
            THEN ActionDo(ActionDo(d, bundle[1]), bundle[2])
            ELSE ActionDo(d, bundle[1])
    OBVIOUS
  <1> HIDE DEF f
  <1>3. /\ DbOk(f) /\ f.dec = d.dec /\ BundleEffect(d, f)
        /\ Len(bundle) \in {1, 2} /\ DOMAIN bundle = 1..Len(bundle)
        /\ \A i \in DOMAIN bundle : ActionFact(f.node, bundle[i])
    BY <1>2, BundleStep
  <1>4. IsDb(f) /\ ProgOk(f.prog)
    BY <1>3 DEF DbOk
  <1>5. ProgOk(q) /\ q.head = f.prog.head /\ q.state = f.prog.state
    <2>1. rev \in Nat
      BY <1>4 DEF ProgOk
    <2> HIDE DEF rev
    <2> QED BY <1>4, <2>1 DEF ProgOk
  <1>6. /\ IsDb(h) /\ h.prog = q /\ h.node = f.node /\ h.work = f.work
        /\ h.dec = f.dec
    <2> HIDE DEF q
    <2> QED BY <1>4 DEF IsDb
  <1>7. DbOk(h)
    <2> HIDE DEF h, q
    <2> QED BY <1>3, <1>5, <1>6, ProgChange
  <1>8. x = d.dec[k] /\ k \in DOMAIN h.dec
    BY <1>3, <1>6
  <1>9. IsDec(x)
    BY <1>8 DEF DbOk, DecsOk, DecOk
  <1>10. Len(Effects(bundle)) \in Nat
    BY <1>3, EffectsKnown DEF Justified
  <1>11. /\ DecOk(y) /\ y.out = "committed" /\ y.bundle = bundle
         /\ \A i \in DOMAIN y.eff : y.eff[i] # "failed"
    <2>1. y = Committed(x, bundle)
      OBVIOUS
    <2>2. IsBundle(bundle) /\ IsDec(x)
      BY <1>3, <1>9, <1>10 DEF IsBundle
    <2> HIDE DEF x, h, y, f
    <2> QED BY <2>1, <2>2, CommitRowStep
  <1>12. e = WithDec(h, k, y)
    <2> HIDE DEF eff
    <2>1. e = [h EXCEPT !.dec[k].st = "action_committed",
                        !.dec[k].out = "committed",
                        !.dec[k].bundle = bundle,
                        !.dec[k].eff = eff]
      <3>1. h = [f EXCEPT !.prog.rev = @ + 1]
        BY <1>4 DEF IsDb, ProgOk
      <3> HIDE DEF h
      <3> QED BY <1>1, <1>4, <3>1 DEF IsDb
    <2> DEFINE z == [x EXCEPT !.st = "action_committed", !.out = "committed",
                              !.bundle = bundle, !.eff = eff]
               C == [h.dec EXCEPT ![k].st = "action_committed",
                                  ![k].out = "committed",
                                  ![k].bundle = bundle, ![k].eff = eff]
    <2>2. y = z
      BY DEF Committed, eff
    <2> HIDE DEF h, y
    <2>3. e = [h EXCEPT !.dec = C]
      BY <1>6, <2>1 DEF IsDb
    <2>4. h.dec = [j \in DOMAIN h.dec |-> h.dec[j]]
      BY <1>7 DEF DbOk, DecsOk
    <2>5. C = [h.dec EXCEPT ![k] = z]
      BY <1>8, <1>9, <2>4 DEF IsDec
    <2> HIDE DEF C, z
    <2> QED BY <2>2, <2>3, <2>5 DEF WithDec
  <1> HIDE DEF y, x, h
  <1>13. /\ DbOk(e) /\ DOMAIN e.dec = DOMAIN h.dec /\ e.dec[k] = y
         /\ e.prog = h.prog /\ e.node = h.node /\ e.work = h.work
    <2>1. \A i \in DOMAIN y.bundle : ActionFact(h.node, y.bundle[i])
      BY <1>3, <1>6, <1>11
    <2>2. ~(\E i \in DOMAIN y.eff : y.eff[i] = "failed")
      BY <1>11
    <2> QED
      BY <1>7, <1>8, <1>11, <1>12, <2>1, <2>2, DecStep DEF Answered
  <1>14. BundleEffect(d, e)
    <2>1. e.node = f.node /\ e.work = f.work /\ e.prog = q
      BY <1>6, <1>13
    <2>2. \A z \in Milestones : Closed(f, z) => Closed(e, z)
      BY <2>1 DEF Closed
    <2>3. AllClosed(f) => AllClosed(e)
      BY <2>2 DEF AllClosed
    <2>4. PromotesOne(d, f, Reach(d)) => PromotesOne(d, e, Reach(d))
      BY <2>1 DEF PromotesOne
    <2> QED
      BY <1>3, <1>5, <2>1, <2>2, <2>3, <2>4 DEF BundleEffect
  <1> QED
    BY <1>8, <1>11, <1>13, <1>14

----------------------------------------------------------------------------
(* The trunk *)

(* Rows that are not applied may be authorised or given up.                *)
LEMMA TrunkStays ==
    ASSUME NEW N, NEW h, NEW t, TrunkOk(N, h, t), NEW P,
           \A x \in Milestones :
              \/ P[x].integ = N[x].integ
              \/ N[x].integ.state = "none" /\ P[x].integ.state = "pending"
              \/ /\ N[x].integ.state = "pending" /\ P[x].integ.state = "conflict"
                 /\ P[x].integ.s = N[x].integ.s /\ P[x].integ.base = N[x].integ.base
    PROVE  TrunkOk(P, h, t)
  <1>1. AppliedOf(P) = AppliedOf(N)
    BY DEF AppliedOf
  <1>2. \A m \in AppliedOf(N) : P[m].integ = N[m].integ
    BY DEF AppliedOf
  <1>3. {t[i] : i \in 1..h} = {<<m, P[m].integ.s>> : m \in AppliedOf(P)}
    <2>1. {<<m, P[m].integ.s>> : m \in AppliedOf(N)}
             = {<<m, N[m].integ.s>> : m \in AppliedOf(N)}
      BY <1>2
    <2>2. {t[i] : i \in 1..h} = {<<m, N[m].integ.s>> : m \in AppliedOf(N)}
      BY DEF TrunkOk
    <2> QED BY <1>1, <2>1, <2>2
  <1>4. \A i \in 1..Len(t), m \in GitMilestones, s \in Subjects :
          t[i] = <<m, s>> => Placed(P[m].integ, h, s, i)
    <2> SUFFICES ASSUME NEW i \in 1..Len(t), NEW m \in GitMilestones,
                        NEW s \in Subjects, t[i] = <<m, s>>
                 PROVE  Placed(P[m].integ, h, s, i)
      OBVIOUS
    <2>1. Placed(N[m].integ, h, s, i)
      BY DEF TrunkOk
    <2>2. m \in Milestones
      BY DEF GitMilestones
    <2> QED BY <2>1, <2>2 DEF Placed
  <1>5. \A m \in AppliedOf(P) :
          /\ P[m].integ.base < h
          /\ t[P[m].integ.base + 1] = <<m, P[m].integ.s>>
    <2>1. \A m \in AppliedOf(N) :
            /\ N[m].integ.base < h
            /\ t[N[m].integ.base + 1] = <<m, N[m].integ.s>>
      BY DEF TrunkOk
    <2> QED BY <1>1, <1>2, <2>1
  <1>6. /\ t \in Seq((GitMilestones \X Subjects) \union {Foreign})
        /\ h <= Len(t) /\ h = Cardinality(AppliedOf(P))
    BY <1>1 DEF TrunkOk
  <1> QED
    BY <1>3, <1>4, <1>5, <1>6 DEF TrunkOk

(* The ledger's part of the trunk is not touched by another commit.        *)
LEMMA TrunkGrows ==
    ASSUME NEW N, NodesOk(N), NEW h \in Nat, NEW t, TrunkOk(N, h, t),
           NEW c \in (GitMilestones \X Subjects) \union {Foreign},
           \A m \in GitMilestones, s \in Subjects :
              c = <<m, s>> => Placed(N[m].integ, h, s, Len(t) + 1)
    PROVE  TrunkOk(N, h, Append(t, c))
  <1> DEFINE u == Append(t, c)
  <1>1. t \in Seq((GitMilestones \X Subjects) \union {Foreign}) /\ Len(t) \in Nat
    BY DEF TrunkOk
  <1>2. /\ u \in Seq((GitMilestones \X Subjects) \union {Foreign})
        /\ Len(u) = Len(t) + 1 /\ u[Len(t) + 1] = c
        /\ \A i \in 1..Len(t) : u[i] = t[i]
    BY <1>1
  <1> HIDE DEF u
  <1>3. h <= Len(t) /\ h <= Len(u) /\ \A i \in 1..h : u[i] = t[i]
    BY <1>1, <1>2 DEF TrunkOk
  <1>4. {u[i] : i \in 1..h} = {t[i] : i \in 1..h}
    BY <1>3
  <1>5. ASSUME NEW m \in AppliedOf(N)
        PROVE  N[m].integ.base < h /\ u[N[m].integ.base + 1] = <<m, N[m].integ.s>>
    <2>1. /\ N[m].integ.base < h
          /\ t[N[m].integ.base + 1] = <<m, N[m].integ.s>>
      BY DEF TrunkOk
    <2>2. N[m].integ.base \in Nat
      BY DEF NodesOk, NodeOk, IntegRows, AppliedOf
    <2>3. N[m].integ.base + 1 \in 1..Len(t)
      BY <1>1, <1>3, <2>1, <2>2
    <2> QED BY <1>2, <2>1, <2>3
  <1>6. ASSUME NEW i \in 1..Len(u), NEW m \in GitMilestones, NEW s \in Subjects,
               u[i] = <<m, s>>
        PROVE  Placed(N[m].integ, h, s, i)
    <2>1. CASE i = Len(t) + 1
      BY <1>2, <1>6, <2>1
    <2>2. CASE i # Len(t) + 1
      <3>1. i \in 1..Len(t)
        BY <1>1, <1>2, <2>2
      <3> QED BY <1>2, <1>6, <3>1 DEF TrunkOk
    <2> QED BY <2>1, <2>2
  <1>7. h = Cardinality(AppliedOf(N))
    BY DEF TrunkOk
  <1>8. {u[i] : i \in 1..h} = {<<m, N[m].integ.s>> : m \in AppliedOf(N)}
    BY <1>4 DEF TrunkOk
  <1>9. \A i \in 1..Len(u), m \in GitMilestones, s \in Subjects :
          u[i] = <<m, s>> => Placed(N[m].integ, h, s, i)
    BY <1>6
  <1>10. TrunkOk(N, h, u)
    BY <1>2, <1>3, <1>5, <1>7, <1>8, <1>9 DEF TrunkOk
  <1> QED
    BY <1>10 DEF u

\* The pending commit of m stands next to the head h of the ledger.
Standing(N, m, h, t) ==
    /\ N[m].integ.state = "pending" /\ N[m].integ.base = h
    /\ h < Len(t) /\ t[h + 1] = <<m, N[m].integ.s>>

\* The row of m, and no other, is applied.
Integrated(N, P, m) ==
    /\ P[m].integ.state = "applied"
    /\ P[m].integ.s = N[m].integ.s /\ P[m].integ.base = N[m].integ.base
    /\ \A x \in Milestones \ {m} : P[x] = N[x]

(* An integration whose commit stands on the trunk is recorded.            *)
LEMMA TrunkApplied ==
    ASSUME NEW N, NodesOk(N), NEW h \in Nat, NEW t, TrunkOk(N, h, t),
           NEW m \in Milestones, Mode[m] = "git", Standing(N, m, h, t),
           NEW P, Integrated(N, P, m)
    PROVE  TrunkOk(P, h + 1, t)
  <1> DEFINE A == AppliedOf(N)
  <1> /\ N[m].integ.state = "pending" /\ N[m].integ.base = h
      /\ h < Len(t) /\ t[h + 1] = <<m, N[m].integ.s>>
      /\ P[m].integ.state = "applied"
      /\ P[m].integ.s = N[m].integ.s /\ P[m].integ.base = N[m].integ.base
      /\ \A x \in Milestones \ {m} : P[x] = N[x]
    BY DEF Standing, Integrated
  <1>1. AppliedOf(P) = A \union {m} /\ m \notin A
    BY DEF AppliedOf
  <1>2. IsFiniteSet(A) /\ Cardinality(A) = h
    <2>1. A \subseteq Milestones
      BY DEF AppliedOf
    <2> QED BY <2>1, ProgramConstants, FS_Subset DEF TrunkOk
  <1>3. Cardinality(AppliedOf(P)) = h + 1
    <2> HIDE DEF A
    <2> QED BY <1>1, <1>2, FS_AddElement
  <1>4. Len(t) \in Nat /\ h + 1 <= Len(t)
    BY DEF TrunkOk
  <1>5. \A x \in A : P[x].integ = N[x].integ
    BY <1>1 DEF AppliedOf
  <1>6. {t[i] : i \in 1..(h + 1)} = {<<x, P[x].integ.s>> : x \in AppliedOf(P)}
    <2>1. {t[i] : i \in 1..h} = {<<x, N[x].integ.s>> : x \in A}
      BY DEF TrunkOk
    <2>2. {t[i] : i \in 1..(h + 1)} = {t[i] : i \in 1..h} \union {t[h + 1]}
      <3>1. 1..(h + 1) = (1..h) \union {h + 1}
        OBVIOUS
      <3> QED BY <3>1
    <2>3. {<<x, P[x].integ.s>> : x \in A \union {m}}
             = {<<x, N[x].integ.s>> : x \in A} \union {<<m, N[m].integ.s>>}
      <3> HIDE DEF A
      <3> QED BY <1>5
    <2> QED BY <1>1, <2>1, <2>2, <2>3
  <1>7. \A x \in AppliedOf(P) :
          /\ P[x].integ.base < h + 1
          /\ t[P[x].integ.base + 1] = <<x, P[x].integ.s>>
    <2>1. \A x \in A : /\ N[x].integ.base \in Nat /\ N[x].integ.base < h
                       /\ t[N[x].integ.base + 1] = <<x, N[x].integ.s>>
      BY DEF TrunkOk, AppliedOf, NodesOk, NodeOk, IntegRows
    <2>2. \A x \in A : N[x].integ.base < h + 1
      BY <2>1
    <2> HIDE DEF A
    <2> QED BY <1>1, <1>5, <2>1, <2>2, SMTT(20)
  <1>8. \A i \in 1..Len(t), x \in GitMilestones, s \in Subjects :
          t[i] = <<x, s>> => Placed(P[x].integ, h + 1, s, i)
    <2> SUFFICES ASSUME NEW i \in 1..Len(t), NEW x \in GitMilestones,
                        NEW s \in Subjects, t[i] = <<x, s>>
                 PROVE  Placed(P[x].integ, h + 1, s, i)
      OBVIOUS
    <2>1. Placed(N[x].integ, h, s, i) /\ x \in Milestones /\ i \in Nat
      BY DEF TrunkOk, GitMilestones
    <2>2. CASE x = m
      BY <2>1, <2>2 DEF Placed
    <2>3. CASE x # m
      <3>1. P[x].integ = N[x].integ /\ i # h + 1
        BY <2>1, <2>3
      <3> QED BY <2>1, <3>1 DEF Placed
    <2> QED BY <2>2, <2>3
  <1> QED
    BY <1>3, <1>4, <1>6, <1>7, <1>8 DEF TrunkOk

(* What the next steps share: an empty trunk to begin with, rows that an   *)
(* action of a controller may touch, and rows that stay.                   *)
LEMMA TrunkBundle ==
    ASSUME NEW N, NEW h, NEW t, TrunkOk(N, h, t), NEW P,
           \A x \in Milestones :
              \/ P[x].integ = N[x].integ
              \/ N[x].integ.state = "none" /\ P[x].integ.state = "pending"
    PROVE  TrunkOk(P, h, t)
  BY TrunkStays

(* A ledger whose milestones stay keeps its place in Git.                  *)
LEMMA TrunkQuiet ==
    ASSUME NEW N, NEW h, NEW t, TrunkOk(N, h, t), NEW P, Quiet(N, P)
    PROVE  TrunkOk(P, h, t)
  BY TrunkStays DEF Quiet

(* Only a subject that is promoted and closed closes its milestone.        *)
LEMMA ClosedAccepted ==
    ASSUME NEW d, DbOk(d), NEW m \in Milestones, Closed(d, m)
    PROVE  d.node[m].st = "ACCEPTED"
  BY DEF Closed, DbOk, NodesOk, NodeOk

(* Executors that stay as they are leave one at work.                      *)
LEMMA WorkSame ==
    ASSUME NEW d, OneAtWork(d), NEW e,
           \A x \in Milestones :
              /\ e.work[x]["executor"] = d.work[x]["executor"]
              /\ e.node[x].st = d.node[x].st \/ d.node[x].st # "STARTING"
    PROVE  OneAtWork(e)
  BY DEF OneAtWork

(* Milestones that stay closed leave a complete program complete.          *)
LEMMA CompletedSame ==
    ASSUME NEW d, Completed(d), NEW e,
           \A x \in Milestones : Closed(d, x) => Closed(e, x),
           e.prog.state = "completed" => d.prog.state = "completed" \/ AllClosed(e)
    PROVE  Completed(e)
  BY DEF Completed, AllClosed

----------------------------------------------------------------------------
(* The thread *)

(* The receipt at hand is the first that is open.                          *)
LEMMA IndexKnown ==
    ASSUME DbOk(db), Busy \in DOMAIN db.dec, Pending(db, Busy) # {}
    PROVE  /\ Index \in DOMAIN db.dec[Busy].eff
           /\ PendingOf(db.dec[Busy]) = Index..Len(db.dec[Busy].eff)
           /\ Len(db.dec[Busy].eff) \in Nat
           /\ DOMAIN db.dec[Busy].eff = 1..Len(db.dec[Busy].eff)
  <1> DEFINE x == db.dec[Busy]
             S == PendingOf(x)
  <1>1. Pending(db, Busy) = S
    BY DEF Pending, PendingOf
  <1>2. /\ Len(x.eff) \in Nat /\ DOMAIN x.eff = 1..Len(x.eff)
        /\ \E j \in 0..Len(x.eff) : S = (j + 1)..Len(x.eff)
    BY DEF DbOk, DecsOk, DecOk
  <1>3. PICK j \in 0..Len(x.eff) : S = (j + 1)..Len(x.eff)
    BY <1>2
  <1>4. S \subseteq DOMAIN x.eff
    BY DEF PendingOf
  <1> HIDE DEF x, S
  <1>5. j + 1 \in S /\ \A i \in S : j + 1 <= i
    BY <1>1, <1>2, <1>3
  <1>6. Index \in S /\ \A i \in S : Index <= i
    <2>1. Index = CHOOSE i \in S : \A q \in S : i <= q
      BY <1>1 DEF Index
    <2> QED BY <1>5, <2>1
  <1>7. Index = j + 1
    BY <1>2, <1>3, <1>5, <1>6
  <1> QED
    BY <1>2, <1>3, <1>4, <1>6, <1>7 DEF x, S

(* The effect at hand is one of an action of the bundle.                   *)
LEMMA EffectKnown ==
    ASSUME DbOk(db), Busy \in DOMAIN db.dec, db.dec[Busy].out # "none",
           Pending(db, Busy) # {}
    PROVE  /\ EffectFact(db.node, Effect)
           /\ Current(db.node, Bundle) /\ Effect.kind # "start" =>
                 Effect.s = db.node[Effect.m].subj
  <1> DEFINE x == db.dec[Busy]
  <1>1. /\ Len(Bundle) \in {1, 2} /\ DOMAIN Bundle = 1..Len(Bundle)
        /\ Len(x.eff) = Len(Effects(Bundle))
        /\ \A j \in DOMAIN Bundle : ActionFact(db.node, Bundle[j])
        /\ Justified(db.node, Bundle)
    BY DEF DbOk, DecsOk, DecOk, Bundle, Justified
  <1>2. Index \in 1..Len(Effects(Bundle))
    BY <1>1, IndexKnown
  <1>3. PICK j \in DOMAIN Bundle : Effect \in EffectSet(Bundle[j])
    <2>1. \A i \in 1..Len(Effects(Bundle)) :
             \E j \in DOMAIN Bundle : Effects(Bundle)[i] \in EffectSet(Bundle[j])
      BY <1>1, EffectsKnown
    <2> QED BY <1>2, <2>1 DEF Effect
  <1>4. ActionFact(db.node, Bundle[j])
    BY <1>1
  <1>5. /\ EffectFact(db.node, Effect) /\ Effect.m \in Bundle[j].ms
        /\ Effect.s = Bundle[j].s /\ Effect.kind = Bundle[j].kind
    BY <1>3, <1>4, EffectShape
  <1> QED
    BY <1>5 DEF Current

----------------------------------------------------------------------------
(* Steps of the thread *)

\* What a step keeps, and what the refinement sees of most steps.
Step == Inv' /\ (Orderly => Orderly')

Still(N, P) ==
    \A m \in Milestones :
        P[m].reviews = N[m].reviews /\ P[m].promoted = N[m].promoted

Stutters == git' = git /\ Still(db.node, db'.node)

(* A thread at rest has nothing in hand.                                   *)
LEMMA AtRest ==
    ASSUME HarnessOk,
           \/ Idling /\ harness' = harness
           \/ Go("idle")
           \/ Go("down")
    PROVE  HarnessOk'
  <1>1. harness' = [at |-> harness'.at, key |-> harness'.key]
    BY DEF HarnessOk, Go
  <1>2. harness'.at \in {"idle", "down"}
    BY DEF HarnessOk, Go, Idling
  <1> QED
    BY <1>1, <1>2 DEF HarnessOk, Inside, AtEffect

(* A bundle that is taken up is one that was committed.                    *)
LEMMA TakenUp ==
    ASSUME NEW k, k \in DOMAIN db'.dec, db'.dec[k].out # "none",
           harness' = [at |-> "apply", key |-> k]
    PROVE  HarnessOk'
  <1>1. harness'.at = "apply" /\ Busy' = k
    BY DEF Busy
  <1> QED
    BY <1>1 DEF HarnessOk, Inside, AtEffect

(* While a row stays, so does the effect at hand.                          *)
LEMMA EffectSame ==
    ASSUME harness'.key = harness.key, db'.dec[Busy] = db.dec[Busy]
    PROVE  /\ Busy' = Busy /\ Bundle' = Bundle
           /\ Pending(db, Busy)' = Pending(db, Busy)
           /\ Index' = Index /\ Effect' = Effect
  <1>1. Busy' = Busy /\ Bundle' = Bundle
    BY DEF Busy, Bundle
  <1>2. Pending(db, Busy)' = Pending(db, Busy)
    BY <1>1 DEF Pending
  <1>3. Index' = Index
    BY <1>2 DEF Index
  <1> QED
    BY <1>1, <1>2, <1>3 DEF Effect

(* A bundle stays about the current subjects while these stay.             *)
LEMMA CurrentSame ==
    ASSUME NEW d, DbOk(d), NEW k \in DOMAIN d.dec, d.dec[k].out # "none",
           Current(d.node, d.dec[k].bundle), NEW P,
           \A x \in Milestones : P[x].subj = d.node[x].subj
    PROVE  Current(P, d.dec[k].bundle)
  <1>1. \A i \in DOMAIN d.dec[k].bundle : d.dec[k].bundle[i].ms \subseteq Milestones
    BY DEF DbOk, DecsOk, ActionFact
  <1> QED
    BY <1>1 DEF Current

(* The effect at hand moves on.                                            *)
LEMMA MovesOn ==
    ASSUME HarnessOk, NEW at \in AtEffect, Go(at),
           Busy \in DOMAIN db'.dec, db'.dec[Busy].out # "none",
           Pending(db', Busy) # {}, Current(db'.node, db'.dec[Busy].bundle),
           at = "claimed" => ClaimedFact(db', Effect'),
           at = "git" => CommitFact(db', git', Effect')
    PROVE  HarnessOk'
  <1>1. harness' = [at |-> at, key |-> harness.key]
    BY DEF HarnessOk, Go
  <1>2. harness'.at = at /\ Busy' = Busy /\ harness' = [at |-> harness'.at, key |-> harness'.key]
    BY <1>1 DEF Busy
  <1>3. at \in Inside
    BY DEF AtEffect, Inside
  <1>4. Bundle' = db'.dec[Busy].bundle
    BY <1>2 DEF Bundle
  <1>5. Pending(db, Busy)' # {} /\ Current(db.node, Bundle)'
    BY <1>2, <1>4
  <1> QED
    BY <1>2, <1>3, <1>5 DEF HarnessOk

(* What is known of the effect at hand.                                    *)
LEMMA InHand ==
    ASSUME Inv, harness.at \in AtEffect
    PROVE  /\ DbOk(db) /\ Busy \in DOMAIN db.dec /\ db.dec[Busy].out # "none"
           /\ Pending(db, Busy) # {} /\ Current(db.node, Bundle)
           /\ Index \in DOMAIN db.dec[Busy].eff
           /\ PendingOf(db.dec[Busy]) = Index..Len(db.dec[Busy].eff)
           /\ Len(db.dec[Busy].eff) \in Nat
           /\ EffectFact(db.node, Effect)
           /\ Effect.kind # "start" => Effect.s = db.node[Effect.m].subj
  <1>1. /\ DbOk(db) /\ Busy \in DOMAIN db.dec /\ db.dec[Busy].out # "none"
        /\ Pending(db, Busy) # {} /\ Current(db.node, Bundle)
    BY DEF Inv, HarnessOk, AtEffect, Inside
  <1> QED
    BY <1>1, IndexKnown, EffectKnown

(* An effect that fails puts the thread at rest.                           *)
LEMMA FailStep ==
    ASSUME Inv, harness.at \in AtEffect, NEW d, DbOk(d),
           Busy \in DOMAIN d.dec, d.dec[Busy] = db.dec[Busy],
           db' = RecordEffect(d, Busy, Index, "failed"), Go("idle")
    PROVE  /\ DbOk(db') /\ HarnessOk'
           /\ db'.node = d.node /\ db'.work = d.work
           /\ db'.prog.head = d.prog.head
           /\ db'.prog.state = "completed" => d.prog.state = "completed"
  <1>1. HarnessOk'
    BY AtRest DEF Inv
  <1>2. /\ d.dec[Busy].out # "none" /\ Index \in DOMAIN d.dec[Busy].eff
        /\ PendingOf(d.dec[Busy]) = Index..Len(d.dec[Busy].eff)
    BY InHand
  <1>3. "failed" \in {"applied", "failed"}
    OBVIOUS
  <1> QED
    BY <1>1, <1>2, <1>3, RecordEffectStep

(* The parts of an invariant that hold once more.                          *)
LEMMA StepParts ==
    ASSUME DbOk(db'), TrunkOk(db'.node, db'.prog.head, git'), HarnessOk',
           Orderly => OneAtWork(db') /\ Completed(db')
    PROVE  Step
  BY DEF Step, Inv, Orderly

(* Milestones and workers that stay are as orderly as before.              *)
LEMMA SettledSame ==
    ASSUME NEW d, NEW e, e.node = d.node, e.work = d.work,
           e.prog.state = "completed" => d.prog.state = "completed"
    PROVE  /\ OneAtWork(d) => OneAtWork(e)
           /\ Completed(d) => Completed(e)
           /\ Quiet(d.node, e.node) /\ Still(d.node, e.node)
  BY DEF OneAtWork, Completed, AllClosed, Closed, Quiet, Still

(* A transaction on the other tables, while the thread is at rest.         *)
LEMMA RestingStep ==
    ASSUME Inv, Idling, UNCHANGED <<git, harness>>, DbOk(db'),
           db'.node = db.node, db'.work = db.work, db'.prog.head = db.prog.head,
           db'.prog.state = "completed" => db.prog.state = "completed"
    PROVE  Step /\ Stutters
  <1>1. HarnessOk'
    BY AtRest DEF Inv
  <1>2. TrunkOk(db'.node, db'.prog.head, git')
    BY DEF Inv
  <1>3. Orderly => OneAtWork(db') /\ Completed(db')
    BY SettledSame DEF Orderly
  <1>4. Step
    BY <1>1, <1>2, <1>3, StepParts
  <1> QED
    BY <1>4 DEF Stutters, Still

----------------------------------------------------------------------------
(* Steps at rest *)

(* An operator starts the program, or asks for another decision.           *)
LEMMA OperatorStartInv ==
    ASSUME Inv, OperatorStart
    PROVE  Step /\ Stutters
  <1>1. /\ DbOk(db) /\ Idling /\ UNCHANGED <<git, harness>>
        /\ db' = StartProgram(db, env.starts + 1)
    BY DEF OperatorStart, Inv
  <1> QED
    BY <1>1, StartProgramStep, RestingStep

Waiting == {"awaiting_claim", "claimed", "human_attention_required"}

(* An open decision changes hands.                                         *)
LEMMA OpenStep ==
    ASSUME NEW d, DbOk(d), NEW k \in DOMAIN d.dec, d.dec[k].out = "none",
           NEW st \in Waiting, NEW gen, NEW e, e = WithDec(d, k, Handed(d.dec[k], st, gen))
    PROVE  DbOk(e) /\ e.prog = d.prog /\ e.node = d.node /\ e.work = d.work
  <1>1. DecOk(d.dec[k])
    BY DEF DbOk, DecsOk
  <1>2. PICK x : x = Handed(d.dec[k], st, gen)
    OBVIOUS
  <1>3. DecOk(x) /\ x.out = "none" /\ x.eff = <<>>
    BY <1>1, <1>2, OpenRow DEF Waiting
  <1>4. Answered(d, x)
    BY <1>3 DEF Answered
  <1> QED
    BY <1>2, <1>4, DecStep

(* A claimed or lost decision is still open.                               *)
LEMMA ChangeHands ==
    ASSUME Inv, NEW k \in DOMAIN db.dec, Idling, UNCHANGED <<git, harness>>,
           db.dec[k].st \in {"awaiting_claim", "claimed"},
           NEW st \in Waiting, NEW gen,
           db' = WithDec(db, k, Handed(db.dec[k], st, gen))
    PROVE  Step /\ Stutters
  <1>1. DbOk(db) /\ DecOk(db.dec[k])
    BY DEF Inv, DbOk, DecsOk
  <1>2. db.dec[k].out = "none"
    BY <1>1 DEF DecOk
  <1>3. DbOk(db') /\ db'.prog = db.prog /\ db'.node = db.node /\ db'.work = db.work
    BY <1>1, <1>2, OpenStep
  <1> QED
    BY <1>3, RestingStep

(* Only columns that change are written.                                   *)
LEMMA KeepGen ==
    ASSUME NEW d, DbOk(d), NEW k \in DOMAIN d.dec, NEW st
    PROVE  [d EXCEPT !.dec[k].st = st]
              = WithDec(d, k, Handed(d.dec[k], st, d.dec[k].gen))
  <1> DEFINE x == d.dec[k]
             y == [x EXCEPT !.st = st]
  <1>1. IsDec(x)
    BY DEF DbOk, DecsOk, DecOk
  <1>2. y = Handed(x, st, x.gen)
    <2> HIDE DEF x
    <2> QED BY <1>1 DEF IsDec, Handed
  <1>3. [d EXCEPT !.dec[k].st = st] = WithDec(d, k, y)
    BY DEF WithDec
  <1> HIDE DEF y
  <1> QED
    BY <1>2, <1>3

(* A controller claims a decision.                                         *)
LEMMA ClaimInv ==
    ASSUME Inv, NEW k \in DOMAIN db.dec, Claim(k)
    PROVE  Step /\ Stutters
  <1>1. /\ DbOk(db) /\ Idling /\ UNCHANGED <<git, harness>>
        /\ db.dec[k].st \in {"awaiting_claim", "claimed"}
        /\ db' = [db EXCEPT !.dec[k].st = "claimed"]
    BY DEF Claim, ClaimOk, Inv
  <1>2. db' = WithDec(db, k, Handed(db.dec[k], "claimed", db.dec[k].gen))
    BY <1>1, KeepGen
  <1> QED
    BY <1>1, <1>2, ChangeHands DEF Waiting

(* A controller is lost: its decision waits again, or goes to a human.     *)
LEMMA LoseClaimInv ==
    ASSUME Inv, NEW k \in DOMAIN db.dec, LoseClaim(k)
    PROVE  Step /\ Stutters
  <1>1. /\ DbOk(db) /\ Idling /\ UNCHANGED <<git, harness>>
        /\ db.dec[k].st \in {"awaiting_claim", "claimed"}
    BY DEF LoseClaim, Inv
  <1>2. CASE db' = [db EXCEPT !.dec[k].st = "awaiting_claim", !.dec[k].gen = 2]
    <2>1. db' = WithDec(db, k, Handed(db.dec[k], "awaiting_claim", 2))
      BY <1>2 DEF WithDec, Handed
    <2> QED BY <1>1, <2>1, ChangeHands DEF Waiting
  <1>3. CASE db' = [db EXCEPT !.dec[k].st = "human_attention_required"]
    <2>1. db' = WithDec(db, k, Handed(db.dec[k], "human_attention_required",
                                   db.dec[k].gen))
      BY <1>1, <1>3, KeepGen
    <2> QED BY <1>1, <2>1, ChangeHands DEF Waiting
  <1> QED
    BY <1>2, <1>3 DEF LoseClaim

(* A bundle without effects is acknowledged.                               *)
LEMMA AcknowledgeInv ==
    ASSUME Inv, NEW k \in DOMAIN db.dec, Acknowledge(k)
    PROVE  Step /\ Stutters
  <1> DEFINE x == db.dec[k]
             y == [x EXCEPT !.st = "acknowledged", !.out = "acknowledged"]
  <1>1. /\ DbOk(db) /\ Idling /\ UNCHANGED <<git, harness>>
        /\ x.st = "action_committed" /\ x.eff = <<>>
        /\ db' = [db EXCEPT !.dec[k].st = "acknowledged",
                            !.dec[k].out = "acknowledged"]
    BY DEF Acknowledge, Inv
  <1>2. db' = WithDec(db, k, y)
    BY <1>1 DEF WithDec
  <1>3. DecOk(x) /\ x.out # "none"
    BY <1>1 DEF DbOk, DecsOk, DecOk
  <1>4. /\ IsDec(y) /\ y.st = "acknowledged" /\ y.out = "acknowledged"
        /\ y.eff = <<>> /\ y.bundle = x.bundle
    <2>1. IsDec(x)
      BY <1>3 DEF DecOk
    <2>2. y = [x EXCEPT !.st = "acknowledged", !.out = "acknowledged"]
      OBVIOUS
    <2> HIDE DEF x, y
    <2>3. /\ IsDec(y) /\ y.st = "acknowledged" /\ y.out = "acknowledged"
          /\ y.eff = x.eff /\ y.bundle = x.bundle
      BY <2>1, <2>2 DEF IsDec
    <2> QED BY <1>1, <2>3
  <1>5. PendingOf(y) = {} /\ \A i \in DOMAIN y.eff : y.eff[i] # "failed"
    BY <1>4 DEF PendingOf
  <1>6. DecOk(y)
    <2>1. PendingOf(x) = PendingOf(y)
      BY <1>1, <1>4 DEF PendingOf
    <2> HIDE DEF x, y
    <2> QED BY <1>1, <1>3, <1>4, <1>5, <2>1 DEF DecOk
  <1>7. \A i \in DOMAIN y.bundle : ActionFact(db.node, y.bundle[i])
    <2>1. \A i \in DOMAIN x.bundle : ActionFact(db.node, x.bundle[i])
      BY <1>1, <1>3 DEF DbOk, DecsOk
    <2> QED BY <1>4, <2>1
  <1>8. DbOk(db') /\ db'.prog = db.prog /\ db'.node = db.node /\ db'.work = db.work
    <2>1. Answered(db, y)
      BY <1>5, <1>6, <1>7 DEF Answered
    <2> HIDE DEF x, y
    <2> QED BY <1>1, <1>2, <2>1, DecStep
  <1> QED
    BY <1>1, <1>8, RestingStep

(* Stale decisions are superseded by one.                                  *)
LEMMA SupersedeInv ==
    ASSUME Inv, Supersede
    PROVE  Step /\ Stutters
  <1>1. /\ DbOk(db) /\ Idling /\ UNCHANGED <<git, harness>>
        /\ db' = SupersedeStale(db)
    BY DEF Supersede, Inv
  <1> QED
    BY <1>1, SupersedeStep, RestingStep

(* An outbox is visited again.                                             *)
LEMMA ReplayInv ==
    ASSUME Inv, NEW k \in DOMAIN db.dec, Replay(k)
    PROVE  Step /\ Stutters
  <1>1. /\ db' = db /\ git' = git /\ db.dec[k].out # "none"
        /\ harness' = [at |-> "apply", key |-> k]
    BY DEF Replay, Owed
  <1>2. HarnessOk'
    BY <1>1, TakenUp
  <1>3. Step
    BY <1>1, <1>2, StepParts DEF Inv, Orderly
  <1> QED
    BY <1>1, <1>3 DEF Stutters, Still

(* The harness goes down, and comes back with nothing in hand.             *)
LEMMA CrashInv ==
    ASSUME Inv, Crash \/ Restart
    PROVE  Step /\ Stutters
  <1>1. db' = db /\ git' = git /\ (Go("down") \/ Go("idle"))
    BY DEF Crash, Restart
  <1>2. HarnessOk'
    BY <1>1, AtRest DEF Inv
  <1>3. Step
    BY <1>1, <1>2, StepParts DEF Inv, Orderly
  <1> QED
    BY <1>1, <1>3 DEF Stutters, Still

(* Changed files concern nothing the invariant speaks of.                  *)
LEMMA SpoilInv ==
    ASSUME Inv, UNCHANGED <<db, git, harness>>
    PROVE  Step /\ Stutters
  <1>1. /\ Busy' = Busy /\ Bundle' = Bundle /\ Effect' = Effect
        /\ Pending(db, Busy)' = Pending(db, Busy)
    BY EffectSame
  <1>2. HarnessOk'
    BY <1>1 DEF Inv, HarnessOk
  <1>3. Step
    BY <1>2, StepParts DEF Inv, Orderly
  <1> QED
    BY <1>3 DEF Stutters, Still

(* A commit of somebody else leaves the program's commits where they are.  *)
LEMMA ForeignInv ==
    ASSUME Inv, ForeignCommit
    PROVE  Step /\ git' = Append(git, Foreign) /\ Still(db.node, db'.node)
  <1>1. /\ db' = db /\ harness' = harness /\ git' = Append(git, Foreign)
    BY DEF ForeignCommit
  <1>2. /\ DbOk(db) /\ db.prog.head \in Nat /\ NodesOk(db.node)
        /\ TrunkOk(db.node, db.prog.head, git)
    BY DEF Inv, DbOk, ProgOk
  <1>3. TrunkOk(db.node, db.prog.head, git')
    <2>1. \A m \in GitMilestones, s \in Subjects : Foreign # <<m, s>>
      BY Bounds DEF Foreign
    <2>2. Foreign \in (GitMilestones \X Subjects) \union {Foreign}
      OBVIOUS
    <2> QED BY <1>1, <1>2, <2>1, <2>2, TrunkGrows
  <1>4. /\ Busy' = Busy /\ Bundle' = Bundle /\ Effect' = Effect
        /\ Pending(db, Busy)' = Pending(db, Busy)
    BY <1>1, EffectSame
  <1>5. harness.at = "git" => CommitFact(db, git', Effect)
    <2> DEFINE base == Effect.base
    <2>1. SUFFICES ASSUME harness.at = "git"
                   PROVE  CommitFact(db, git', Effect)
      OBVIOUS
    <2>2. CommitFact(db, git, Effect) /\ EffectFact(db.node, Effect)
      BY <2>1, InHand DEF Inv, HarnessOk, AtEffect
    <2>3. base \in Nat
      BY <2>2, AppliedFinite DEF EffectFact, CommitFact
    <2>4. git \in Seq((GitMilestones \X Subjects) \union {Foreign})
      BY <1>2 DEF TrunkOk
    <2>5. Len(git') = Len(git) + 1 /\ \A i \in 1..Len(git) : git'[i] = git[i]
      BY <1>1, <2>4
    <2>6. Len(git) \in Nat
      BY <2>4
    <2>7. base + 1 \in 1..Len(git)
      BY <2>2, <2>3, <2>6 DEF CommitFact
    <2>8. git'[base + 1] = git[base + 1] /\ base < Len(git')
      <3>1. base < Len(git)
        BY <2>2 DEF CommitFact
      <3> HIDE DEF base
      <3> QED BY <2>3, <2>5, <2>6, <2>7, <3>1
    <2> QED BY <2>2, <2>8 DEF CommitFact
  <1>6. HarnessOk'
    BY <1>1, <1>4, <1>5 DEF Inv, HarnessOk
  <1>7. Step
    BY <1>1, <1>2, <1>3, <1>6, StepParts DEF Orderly
  <1> QED
    BY <1>1, <1>7 DEF Still

----------------------------------------------------------------------------
(* Bundles are committed and taken up *)

(* What is found changed is a milestone.                                   *)
LEMMA FoundKnown ==
    ASSUME NEW d, NEW bundle
    PROVE  Found(d, bundle) \subseteq Milestones
  BY DEF Found

(* The same of what a single effect finds.                                 *)
LEMMA SpoiledKnown ==
    ASSUME NEW f, f.m \in Milestones
    PROVE  SpoiledIn(f) \subseteq Milestones
  BY FoundKnown DEF SpoiledIn

(* Invalidating evidence promotes nothing and completes nothing.           *)
LEMMA InvalidateInv ==
    ASSUME Inv, NEW x \in Milestones, db' = Invalidate(db, x), git' = git,
           HarnessOk'
    PROVE  Step /\ Stutters
  <1>1. DbOk(db)
    BY DEF Inv
  <1>2. /\ DbOk(db') /\ Quiet(db.node, db'.node)
        /\ db'.prog.head = db.prog.head /\ db'.work = db.work
        /\ db'.prog.state = "completed" => db' = db
        /\ \A y \in Milestones :
              db'.node[y].st = db.node[y].st \/ db.node[y].st # "STARTING"
    BY <1>1, InvalidateStep
  <1>3. TrunkOk(db'.node, db'.prog.head, git')
    BY <1>2, TrunkQuiet DEF Inv
  <1>4. Orderly => OneAtWork(db')
    BY <1>2, WorkSame DEF Orderly
  <1>5. Orderly => Completed(db')
    BY <1>2 DEF Orderly, Completed
  <1>6. Step
    BY <1>2, <1>3, <1>4, <1>5, StepParts
  <1> QED
    BY <1>2, <1>6 DEF Stutters, Still, Quiet

(* A controller's bundle is committed, or its evidence found changed.      *)
LEMMA SubmitInv ==
    ASSUME Inv, NEW k \in DOMAIN db.dec, Submit(k)
    PROVE  /\ Step /\ git' = git /\ PromotesOne(db, db', Reach(db))
           /\ \A x \in Milestones : db'.node[x].reviews = db.node[x].reviews
  <1>1. DbOk(db) /\ git' = git /\ Idling
    BY DEF Inv, Submit
  <1>2. PICK bundle \in Bundles(db) :
           \/ /\ Passes(db, bundle) /\ db' = Commit(db, k, bundle)
              /\ harness' = [at |-> "apply", key |-> k]
           \/ /\ \E x \in Found(db, bundle) : db' = Invalidate(db, x)
              /\ UNCHANGED harness
    BY DEF Submit
  <1>3. CASE /\ Passes(db, bundle) /\ db' = Commit(db, k, bundle)
             /\ harness' = [at |-> "apply", key |-> k]
    <2>1. /\ DbOk(db') /\ BundleEffect(db, db')
          /\ k \in DOMAIN db'.dec /\ db'.dec[k].out # "none"
      <3>1. HeadReached(db)
        BY <1>1, AppliedFinite DEF Inv, TrunkOk, HeadReached
      <3> QED BY <1>1, <1>3, <3>1, CommitStep
    <2>2. HarnessOk'
      BY <1>3, <2>1, TakenUp
    <2>3. TrunkOk(db'.node, db'.prog.head, git')
      <3>1. TrunkOk(db.node, db.prog.head, git) /\ db'.prog.head = db.prog.head
        BY <2>1 DEF Inv, BundleEffect
      <3>2. \A x \in Milestones :
               \/ db'.node[x].integ = db.node[x].integ
               \/ db.node[x].integ.state = "none" /\ db'.node[x].integ.state = "pending"
        BY <2>1 DEF BundleEffect
      <3> QED BY <1>1, <3>1, <3>2, TrunkBundle
    <2>4. Orderly => OneAtWork(db') /\ Completed(db')
      <3>1. Orderly => OneAtWork(db')
        BY <2>1, WorkSame DEF Orderly, BundleEffect
      <3>2. Orderly => Completed(db')
        BY <2>1, CompletedSame DEF Orderly, BundleEffect
      <3> QED BY <3>1, <3>2
    <2>5. Step
      BY <2>1, <2>2, <2>3, <2>4, StepParts
    <2> QED
      BY <1>1, <2>1, <2>5 DEF BundleEffect
  <1>4. CASE /\ \E x \in Found(db, bundle) : db' = Invalidate(db, x)
             /\ UNCHANGED harness
    <2>1. PICK x \in Milestones : db' = Invalidate(db, x)
      BY <1>4, FoundKnown
    <2>2. HarnessOk'
      BY <1>1, <1>4, AtRest DEF Inv
    <2>3. Step /\ Stutters
      BY <1>1, <2>1, <2>2, InvalidateInv
    <2> QED
      BY <1>1, <2>3 DEF Stutters, Still, PromotesOne
  <1> QED
    BY <1>2, <1>3, <1>4

(* A step of the thread that leaves the ledger alone.                      *)
LEMMA ThreadStep ==
    ASSUME Inv, db' = db, git' = git, HarnessOk'
    PROVE  Step /\ Stutters
  <1>1. Step
    BY StepParts DEF Inv, Orderly
  <1> QED
    BY <1>1 DEF Stutters, Still

(* A bundle is looked at once more before its effects.                     *)
LEMMA ApplyBundleInv ==
    ASSUME Inv, ApplyBundle
    PROVE  Step /\ Stutters
  <1>1. /\ DbOk(db) /\ git' = git /\ HarnessOk /\ harness.at = "apply"
        /\ Busy \in DOMAIN db.dec /\ db.dec[Busy].out # "none"
    BY DEF Inv, ApplyBundle, HarnessOk, Inside
  <1>2. CASE Go("idle") /\ db' = db
    <2>1. HarnessOk'
      BY <1>1, <1>2, AtRest
    <2> QED BY <1>1, <1>2, <2>1, ThreadStep
  <1>3. ASSUME NEW x \in Found(db, Bundle), db' = Invalidate(db, x), Go("idle")
        PROVE  Step /\ Stutters
    <2>1. HarnessOk'
      BY <1>1, <1>3, AtRest
    <2> QED BY <1>1, <1>3, <2>1, FoundKnown, InvalidateInv
  <1>4. CASE /\ Go("effect") /\ db' = db /\ Passes(db, Bundle)
             /\ Pending(db, Busy) # {}
    <2>1. Current(db.node, Bundle)
      BY <1>4 DEF Current, Passes, Sound, ActionEligible
    <2>2. /\ Busy \in DOMAIN db'.dec /\ db'.dec[Busy].out # "none"
          /\ Pending(db', Busy) # {} /\ Current(db'.node, db'.dec[Busy].bundle)
      BY <1>1, <1>4, <2>1 DEF Bundle
    <2>3. "effect" \in AtEffect
      BY DEF AtEffect
    <2>4. HarnessOk'
      BY <1>1, <1>4, <2>2, <2>3, MovesOn
    <2> QED BY <1>1, <1>4, <2>4, ThreadStep
  <1> QED
    BY <1>2, <1>3, <1>4 DEF ApplyBundle

(* An effect finds the evidence changed.                                   *)
LEMMA FindSpoiledInv ==
    ASSUME Inv, FindSpoiled
    PROVE  Step /\ Stutters
  <1>1. /\ harness.at \in AtEffect /\ git' = git /\ Go("idle") /\ DbOk(db)
        /\ Busy \in DOMAIN db.dec /\ EffectFact(db.node, Effect) /\ HarnessOk
    BY InHand DEF FindSpoiled, At, AtEffect, FailEffect, Inv
  <1>2. PICK x \in SpoiledIn(Effect) :
           \/ FailEffect(Invalidate(db, x))
           \/ db' = Invalidate(db, x)
    BY DEF FindSpoiled
  <1>3. x \in Milestones
    BY <1>1, SpoiledKnown DEF EffectFact
  <1>4. CASE db' = Invalidate(db, x)
    <2>1. HarnessOk'
      BY <1>1, AtRest
    <2> QED BY <1>1, <1>3, <1>4, <2>1, InvalidateInv
  <1>5. CASE FailEffect(Invalidate(db, x))
    <2>1. PICK d : d = Invalidate(db, x)
      OBVIOUS
    <2>2. /\ DbOk(d) /\ Quiet(db.node, d.node)
          /\ d.prog.head = db.prog.head /\ d.work = db.work
          /\ d.prog.state = "completed" => d = db
          /\ \A y \in Milestones :
                d.node[y].st = db.node[y].st \/ db.node[y].st # "STARTING"
          /\ Busy \in DOMAIN d.dec /\ d.dec[Busy] = db.dec[Busy]
      BY <1>1, <1>3, <2>1, InvalidateStep
    <2>3. db' = RecordEffect(d, Busy, Index, "failed")
      BY <1>5, <2>1 DEF FailEffect
    <2>4. /\ DbOk(db') /\ HarnessOk'
          /\ db'.node = d.node /\ db'.work = d.work
          /\ db'.prog.head = d.prog.head
          /\ db'.prog.state = "completed" => d.prog.state = "completed"
      BY <1>1, <2>2, <2>3, FailStep
    <2>5. TrunkOk(db'.node, db'.prog.head, git')
      BY <1>1, <2>2, <2>4, TrunkQuiet DEF Inv
    <2>6. Orderly => OneAtWork(db')
      BY <2>2, <2>4, WorkSame DEF Orderly
    <2>7. Orderly => Completed(d)
      BY <2>2 DEF Orderly, Completed
    <2>8. Orderly => Completed(db')
      BY <2>4, <2>7, SettledSame
    <2>9. Step
      BY <2>4, <2>5, <2>6, <2>8, StepParts
    <2> QED
      BY <1>1, <2>2, <2>4, <2>9 DEF Stutters, Still, Quiet
  <1> QED
    BY <1>2, <1>4, <1>5

(* An effect that fails in the ledger as it is.                            *)
LEMMA FailInv ==
    ASSUME Inv, harness.at \in AtEffect, FailEffect(db)
    PROVE  Step /\ Stutters
  <1>1. /\ DbOk(db) /\ Busy \in DOMAIN db.dec /\ git' = git /\ Go("idle")
        /\ db' = RecordEffect(db, Busy, Index, "failed")
    BY InHand DEF FailEffect
  <1>2. /\ DbOk(db') /\ HarnessOk'
        /\ db'.node = db.node /\ db'.work = db.work
        /\ db'.prog.head = db.prog.head
        /\ db'.prog.state = "completed" => db.prog.state = "completed"
    BY <1>1, FailStep
  <1>3. TrunkOk(db'.node, db'.prog.head, git')
    BY <1>1, <1>2 DEF Inv
  <1>4. Orderly => OneAtWork(db') /\ Completed(db')
    BY <1>2, SettledSame DEF Orderly
  <1>5. Step
    BY <1>2, <1>3, <1>4, StepParts
  <1> QED
    BY <1>1, <1>2, <1>5 DEF Stutters, Still

----------------------------------------------------------------------------
(* Workers *)

(* The thread moves on with the bundle it has.                             *)
LEMMA StillInHand ==
    ASSUME Inv, harness.at \in AtEffect, NEW at \in AtEffect, Go(at),
           Busy \in DOMAIN db'.dec, db'.dec[Busy] = db.dec[Busy],
           \A x \in Milestones : db'.node[x].subj = db.node[x].subj,
           at = "claimed" => ClaimedFact(db', Effect),
           at = "git" => CommitFact(db', git', Effect)
    PROVE  HarnessOk'
  <1>1. /\ DbOk(db) /\ Busy \in DOMAIN db.dec /\ db.dec[Busy].out # "none"
        /\ Pending(db, Busy) # {} /\ Current(db.node, Bundle) /\ HarnessOk
    BY InHand DEF Inv
  <1>2. harness'.key = harness.key
    BY <1>1 DEF HarnessOk, Go
  <1>3. Effect' = Effect /\ Pending(db', Busy) = Pending(db, Busy)
    <2>1. Pending(db', Busy) = Pending(db, Busy)
      BY DEF Pending
    <2> QED BY <1>2, <2>1, EffectSame
  <1>4. Current(db'.node, db'.dec[Busy].bundle)
    <2>1. Current(db.node, db.dec[Busy].bundle)
      BY <1>1 DEF Bundle
    <2> QED BY <1>1, <2>1, CurrentSame
  <1> QED
    BY <1>1, <1>3, <1>4, MovesOn

(* A worker is claimed for the effect at hand.                             *)
LEMMA WorkerClaimInv ==
    ASSUME Inv, At(Launches), WorkerClaimOk(db, Effect),
           Effect.kind = "start" => db.work[Effect.m][Effect.role] = <<>>,
           db' = WorkerClaim(db, Effect), Go("claimed"), git' = git
    PROVE  Step /\ Stutters
  <1> DEFINE f == Effect
             old == db.work[f.m][f.role]
             new == db'.work[f.m][f.role]
  <1>1. harness.at \in AtEffect /\ f.kind \in Launches
    BY DEF At, AtEffect
  <1>2. DbOk(db) /\ Busy \in DOMAIN db.dec /\ EffectFact(db.node, f)
    BY <1>1, InHand
  <1>3. /\ f.m \in Milestones /\ f.role \in WorkRoles(f.m)
        /\ LaunchFact(f)
    BY <1>1, <1>2, RolesKnown DEF EffectFact, Launches, LaunchFact
  <1> HIDE DEF f
  <1>4. WorkerClaimOk(db, f) /\ db' = WorkerClaim(db, f)
    BY DEF f
  <1>5. /\ DbOk(db') /\ Quiet(db.node, db'.node) /\ db'.prog = db.prog
        /\ db'.dec = db.dec
        /\ \A y \in Milestones : /\ db'.node[y].subj = db.node[y].subj
                                 /\ Closed(db, y) => Closed(db', y)
                                 /\ y # f.m => db'.node[y].st = db.node[y].st
        /\ f.role = "executor" =>
              /\ db'.node[f.m].st = "STARTING"
              /\ db.node[f.m].st \in {"PLANNED", "REPAIR_REQUIRED"}
        /\ f.role # "executor" => db'.node[f.m].st = db.node[f.m].st
        /\ OnlyList(db.work, db'.work, f.m, f.role)
        /\ Len(new) = Len(old) + 1 /\ new[Len(old) + 1].ph = "claimed"
        /\ \A i \in DOMAIN old : new[i] = old[i]
    <2>1. /\ DbOk(db') /\ Quiet(db.node, db'.node) /\ db'.prog = db.prog
          /\ db'.dec = db.dec
      BY <1>2, <1>3, <1>4, WorkerClaimStep
    <2>2. \A y \in Milestones : /\ db'.node[y].subj = db.node[y].subj
                                /\ Closed(db, y) => Closed(db', y)
                                /\ y # f.m => db'.node[y].st = db.node[y].st
      BY <1>2, <1>3, <1>4, WorkerClaimStep
    <2>3. /\ f.role = "executor" =>
                /\ db'.node[f.m].st = "STARTING"
                /\ db.node[f.m].st \in {"PLANNED", "REPAIR_REQUIRED"}
          /\ f.role # "executor" => db'.node[f.m].st = db.node[f.m].st
      BY <1>2, <1>3, <1>4, WorkerClaimStep
    <2>4. OnlyList(db.work, db'.work, f.m, f.role)
      BY <1>2, <1>3, <1>4, WorkerClaimStep
    <2>5. Grown(old, new)
      BY <1>2, <1>3, <1>4, WorkerClaimStep
    <2> QED BY <2>1, <2>2, <2>3, <2>4, <2>5 DEF Grown
  <1>6. old \in Seq(DispatchRows) /\ new \in Seq(DispatchRows)
    <2>1. /\ db.work[f.m] \in [WorkRoles(f.m) -> Seq(DispatchRows)]
          /\ db'.work[f.m] \in [WorkRoles(f.m) -> Seq(DispatchRows)]
      BY <1>2, <1>3, <1>5 DEF DbOk, WorkOk
    <2> QED BY <1>3, <2>1
  <1>7. ClaimedFact(db', f)
    <2>1. f.kind = "start" => old = <<>>
      BY DEF f
    <2>2. /\ Len(new) \in DOMAIN new /\ new[Len(new)].ph = "claimed"
          /\ f.kind = "start" => Len(new) = 1
      <3> HIDE DEF old, new
      <3> QED BY <1>5, <1>6, <2>1
    <2>3. f.kind \in Launches
      BY <1>1 DEF f
    <2> QED BY <2>2, <2>3 DEF ClaimedFact
  <1>8. HarnessOk'
    <2>1. "claimed" \in AtEffect /\ ClaimedFact(db', Effect)
      BY <1>7 DEF AtEffect, f
    <2>2. Busy \in DOMAIN db'.dec /\ db'.dec[Busy] = db.dec[Busy]
      BY <1>2, <1>5
    <2> QED BY <1>1, <1>5, <2>1, <2>2, StillInHand
  <1>9. TrunkOk(db'.node, db'.prog.head, git')
    BY <1>5, TrunkQuiet DEF Inv
  <1>10. Orderly => Completed(db')
    BY <1>5, CompletedSame DEF Orderly
  <1>11. Orderly => OneAtWork(db')
    <2>1. SUFFICES ASSUME OneAtWork(db), NEW m \in Milestones,
                          NEW g \in DOMAIN db'.work[m]["executor"],
                          db'.work[m]["executor"][g].ph \in {"claimed", "queued"}
                   PROVE  /\ g = Len(db'.work[m]["executor"])
                          /\ db'.node[m].st = "STARTING"
      BY DEF Orderly, OneAtWork
    <2>2. CASE m = f.m /\ f.role = "executor"
      <3>1. \A i \in DOMAIN old : old[i].ph \notin {"claimed", "queued"}
        BY <1>5, <2>1, <2>2 DEF OneAtWork
      <3>2. g \in DOMAIN new /\ new[g].ph \in {"claimed", "queued"}
        BY <2>1, <2>2
      <3>3. g = Len(new)
        <4> HIDE DEF old, new
        <4> QED BY <1>5, <1>6, <3>1, <3>2
      <3> QED BY <1>5, <2>2, <3>3
    <2>3. CASE ~(m = f.m /\ f.role = "executor")
      <3>1. "executor" \in WorkRoles(m) /\ (m # f.m \/ "executor" # f.role)
        BY <2>3, RolesKnown
      <3>2. db'.work[m]["executor"] = db.work[m]["executor"]
        BY <1>5, <3>1 DEF OnlyList
      <3>3. db'.node[m].st = db.node[m].st
        BY <1>5, <2>3
      <3> QED BY <2>1, <3>2, <3>3 DEF OneAtWork
    <2> QED BY <2>2, <2>3
  <1>12. Step
    BY <1>5, <1>8, <1>9, <1>10, <1>11, StepParts
  <1> QED
    BY <1>5, <1>12 DEF Stutters, Still, Quiet

(* A worker is claimed, found claimed, or refused.                         *)
LEMMA ClaimWorkerInv ==
    ASSUME Inv, ClaimWorker
    PROVE  Step /\ Stutters
  <1> DEFINE list == db.work[Effect.m][Effect.role]
  <1>1. harness.at \in AtEffect /\ Effect.kind \in Launches /\ At(Launches)
    BY DEF ClaimWorker, At, AtEffect
  <1>2. /\ DbOk(db) /\ Busy \in DOMAIN db.dec /\ EffectFact(db.node, Effect)
    BY <1>1, InHand
  <1>3. CASE FailEffect(db)
    BY <1>1, <1>3, FailInv
  <1>4. CASE /\ Effect.kind = "start" /\ list # <<>>
             /\ Go(IF list[1].ph = "claimed" THEN "claimed" ELSE "done")
             /\ UNCHANGED <<db, git, env>>
    <2>1. PICK at \in {"claimed", "done"} :
             Go(at) /\ (at = "claimed" => list[1].ph = "claimed")
      BY <1>4
    <2>2. list \in Seq(DispatchRows)
      <3>1. Effect.m \in Milestones /\ Effect.role \in WorkRoles(Effect.m)
        BY <1>1, <1>2, RolesKnown DEF EffectFact, Launches
      <3>2. db.work[Effect.m] \in [WorkRoles(Effect.m) -> Seq(DispatchRows)]
        BY <1>2, <3>1 DEF DbOk, WorkOk
      <3> QED BY <3>1, <3>2
    <2>3. 1 \in DOMAIN list
      <3> HIDE DEF list
      <3> QED BY <1>4, <2>2
    <2>4. at = "claimed" => ClaimedFact(db', Effect)
      BY <1>1, <1>4, <2>1, <2>3 DEF ClaimedFact
    <2>5. at \in AtEffect /\ at # "git"
      BY DEF AtEffect
    <2>6. HarnessOk'
      BY <1>1, <1>2, <1>4, <2>1, <2>4, <2>5, StillInHand
    <2> QED BY <1>4, <2>6, ThreadStep
  <1>5. CASE /\ ~(Effect.kind = "start" /\ list # <<>>)
             /\ WorkerClaimOk(db, Effect) /\ db' = WorkerClaim(db, Effect)
             /\ Go("claimed") /\ UNCHANGED <<git, env>>
    BY <1>1, <1>5, WorkerClaimInv
  <1> QED
    BY <1>3, <1>4, <1>5 DEF ClaimWorker

(* A dispatch that ends or is enqueued leaves one executor at work.        *)
LEMMA FinishOrderly ==
    ASSUME NEW d, DbOk(d), NEW m \in Milestones, NEW r \in WorkRoles(m),
           NEW g \in DOMAIN d.work[m][r], NEW ph \in {"queued", "recorded", "cancelled"},
           ph = "queued" => d.work[m][r][g].ph \in {"claimed", "queued"},
           OneAtWork(d), NEW e, e = Finish(d, m, r, g, ph)
    PROVE  OneAtWork(e)
  <1>1. /\ e.node = d.node
        /\ OnlyList(d.work, e.work, m, r)
        /\ Len(e.work[m][r]) = Len(d.work[m][r])
        /\ DOMAIN e.work[m][r] = DOMAIN d.work[m][r]
        /\ e.work[m][r][g].ph = ph
        /\ \A i \in DOMAIN d.work[m][r] :
              i # g => e.work[m][r][i] = d.work[m][r][i]
    <2>1. e.node = d.node
      BY FinishStep
    <2>2. /\ Len(e.work[m][r]) = Len(d.work[m][r])
          /\ DOMAIN e.work[m][r] = DOMAIN d.work[m][r]
          /\ e.work[m][r][g].ph = ph
      BY FinishStep, SMTT(20)
    <2>3. OnlyList(d.work, e.work, m, r)
      BY FinishStep
    <2>4. \A i \in DOMAIN d.work[m][r] :
             i # g => e.work[m][r][i] = d.work[m][r][i]
      BY FinishStep
    <2> QED BY <2>1, <2>2, <2>3, <2>4
  <1>2. SUFFICES ASSUME NEW x \in Milestones,
                        NEW i \in DOMAIN e.work[x]["executor"],
                        e.work[x]["executor"][i].ph \in {"claimed", "queued"}
                 PROVE  /\ i = Len(e.work[x]["executor"])
                        /\ e.node[x].st = "STARTING"
    BY DEF OneAtWork
  <1>3. CASE x = m /\ r = "executor"
    BY <1>1, <1>2, <1>3, SMTT(20) DEF OneAtWork
  <1>4. CASE ~(x = m /\ r = "executor")
    <2>1. "executor" \in WorkRoles(x) /\ (x # m \/ "executor" # r)
      BY <1>4, RolesKnown
    <2>2. e.work[x]["executor"] = d.work[x]["executor"]
      BY <1>1, <2>1 DEF OnlyList
    <2> QED BY <1>1, <1>2, <2>2 DEF OneAtWork
  <1> QED
    BY <1>3, <1>4

(* A claimed worker enters the queue.                                      *)
LEMMA EnqueueWorkerInv ==
    ASSUME Inv, EnqueueWorker
    PROVE  Step /\ Stutters
  <1> DEFINE m == Effect.m
             r == Effect.role
             g == IF Effect.kind = "start" THEN 1 ELSE Len(db.work[m][r])
  <1>1. /\ harness.at \in AtEffect /\ git' = git /\ Go("done")
        /\ db' = Finish(db, m, r, g, "queued")
    BY DEF EnqueueWorker, AtEffect, Finish
  <1>2. /\ DbOk(db) /\ Busy \in DOMAIN db.dec /\ EffectFact(db.node, Effect)
        /\ ClaimedFact(db, Effect)
    BY <1>1, InHand DEF EnqueueWorker, Inv, HarnessOk
  <1>3. /\ m \in Milestones /\ r \in WorkRoles(m)
        /\ g \in DOMAIN db.work[m][r] /\ db.work[m][r][g].ph = "claimed"
    BY <1>2, RolesKnown DEF EffectFact, ClaimedFact, Launches
  <1>4. PICK ph \in {"queued", "recorded", "cancelled"} : ph = "queued"
    OBVIOUS
  <1> HIDE DEF m, r, g
  <1>5. db' = Finish(db, m, r, g, ph)
    BY <1>1, <1>4
  <1>6. /\ DbOk(db') /\ db'.prog = db.prog /\ db'.node = db.node
        /\ db'.dec = db.dec
    BY <1>2, <1>3, <1>5, FinishStep
  <1>7. Orderly => OneAtWork(db')
    BY <1>2, <1>3, <1>5, FinishOrderly DEF Orderly
  <1>8. Orderly => Completed(db')
    BY <1>6 DEF Orderly, Completed, AllClosed, Closed
  <1>9. HarnessOk'
    <2>1. "done" \in AtEffect
      BY DEF AtEffect
    <2> QED BY <1>1, <1>2, <1>6, <2>1, StillInHand
  <1>10. TrunkOk(db'.node, db'.prog.head, git')
    BY <1>1, <1>6 DEF Inv
  <1>11. Step
    BY <1>6, <1>7, <1>8, <1>9, <1>10, StepParts
  <1> QED
    BY <1>1, <1>6, <1>11 DEF Stutters, Still

----------------------------------------------------------------------------
(* Receipts, closures and integrations *)

(* An effect that is done gets its receipt; the next one follows.          *)
LEMMA RecordAppliedInv ==
    ASSUME Inv, RecordApplied
    PROVE  Step /\ Stutters
  <1> DEFINE x == db.dec[Busy]
  <1>1. /\ harness.at \in AtEffect /\ git' = git /\ HarnessOk
        /\ db' = RecordEffect(db, Busy, Index, "applied")
        /\ Go(IF Cardinality(Pending(db, Busy)) > 1 THEN "effect" ELSE "idle")
    BY DEF RecordApplied, AtEffect, Inv
  <1>2. /\ DbOk(db) /\ Busy \in DOMAIN db.dec /\ x.out # "none"
        /\ Current(db.node, Bundle)
        /\ Index \in DOMAIN x.eff /\ PendingOf(x) = Index..Len(x.eff)
        /\ Len(x.eff) \in Nat /\ Pending(db, Busy) = PendingOf(x)
    BY <1>1, InHand DEF Pending, PendingOf
  <1>3. PICK outcome \in {"applied", "failed"} : outcome = "applied"
    OBVIOUS
  <1>4. db' = RecordEffect(db, Busy, Index, outcome)
    BY <1>1, <1>3
  <1>5. /\ DbOk(db') /\ db'.node = db.node /\ db'.work = db.work
        /\ db'.prog.head = db.prog.head
        /\ db'.prog.state = "completed" => db.prog.state = "completed"
        /\ Busy \in DOMAIN db'.dec
        /\ db'.dec[Busy].out # "none" /\ db'.dec[Busy].bundle = x.bundle
        /\ PendingOf(db'.dec[Busy]) = (Index + 1)..Len(x.eff)
    BY <1>2, <1>4, RecordEffectStep
  <1>6. CASE Go("idle")
    <2>1. HarnessOk'
      BY <1>1, <1>6, AtRest
    <2>2. TrunkOk(db'.node, db'.prog.head, git')
      BY <1>1, <1>5 DEF Inv
    <2>3. Orderly => OneAtWork(db') /\ Completed(db')
      BY <1>5, SettledSame DEF Orderly
    <2>4. Step
      BY <1>5, <2>1, <2>2, <2>3, StepParts
    <2> QED BY <1>1, <1>5, <2>4 DEF Stutters, Still
  <1>7. CASE Go("effect") /\ Cardinality(PendingOf(x)) > 1
    <2>1. Index \in Nat
      BY <1>2 DEF DbOk, DecsOk, DecOk
    <2>2. Index # Len(x.eff)
      <3>1. ASSUME Index = Len(x.eff) PROVE FALSE
        <4>1. PendingOf(x) = {Index}
          BY <1>2, <2>1, <3>1
        <4>2. Cardinality(PendingOf(x)) = 1
          BY <4>1, FS_Singleton
        <4> QED BY <1>7, <4>2
      <3> QED BY <3>1
    <2>3. Index <= Len(x.eff)
      <3>1. Index \in PendingOf(x)
        <4>1. Index \in 1..Len(x.eff)
          BY <1>2 DEF DbOk, DecsOk, DecOk
        <4> QED BY <1>2, <2>1, <4>1
      <3> QED BY <1>2, <2>1, <3>1
    <2>4. Pending(db', Busy) # {}
      <3>1. Len(x.eff) \in (Index + 1)..Len(x.eff)
        BY <1>2, <2>1, <2>2, <2>3
      <3>2. Pending(db', Busy) = PendingOf(db'.dec[Busy])
        BY DEF Pending, PendingOf
      <3> QED BY <1>5, <3>1, <3>2
    <2>5. Current(db'.node, db'.dec[Busy].bundle)
      BY <1>2, <1>5 DEF Bundle
    <2>6. "effect" \in AtEffect
      BY DEF AtEffect
    <2>7. HarnessOk'
      BY <1>1, <1>5, <1>7, <2>4, <2>5, <2>6, MovesOn
    <2>8. TrunkOk(db'.node, db'.prog.head, git')
      BY <1>1, <1>5 DEF Inv
    <2>9. Orderly => OneAtWork(db') /\ Completed(db')
      BY <1>5, SettledSame DEF Orderly
    <2>10. Step
      BY <1>5, <2>7, <2>8, <2>9, StepParts
    <2> QED BY <1>1, <1>5, <2>10 DEF Stutters, Still
  <1> QED
    BY <1>1, <1>2, <1>6, <1>7

(* Evidence is closed: its subject is promoted, on its reviews.            *)
LEMMA CloseEvidenceInv ==
    ASSUME Inv, CloseEvidence
    PROVE  /\ Step /\ git' = git /\ PromotesOne(db, db', Reach(db))
           /\ \A x \in Milestones : db'.node[x].reviews = db.node[x].reviews
  <1> DEFINE m == Effect.m
             s == Effect.s
  <1>1. harness.at \in AtEffect /\ Effect.kind = "promote"
    BY DEF CloseEvidence, At, AtEffect
  <1>2. /\ DbOk(db) /\ Busy \in DOMAIN db.dec /\ EffectFact(db.node, Effect)
        /\ s = db.node[m].subj
    BY <1>1, InHand
  <1>3. m \in Milestones /\ s \in Subjects
    BY <1>1, <1>2 DEF EffectFact
  <1>4. CASE FailEffect(db)
    <2>1. Step /\ Stutters
      BY <1>1, <1>4, FailInv
    <2> QED BY <2>1 DEF Stutters, Still, PromotesOne
  <1>5. CASE /\ CloseOk(db, Busy, Effect) /\ db' = CloseNode(db, m, s, TRUE)
             /\ Go("done") /\ git' = git
    <2>1. PICK adv \in BOOLEAN : adv = TRUE
      OBVIOUS
    <2>2. db' = CloseNode(db, m, s, adv)
      BY <1>5, <2>1
    <2>3. /\ ReviewSetOk(db, m, s, Effect.named)
          /\ s \notin db.node[m].closed => db.node[m].st \in {"REVIEWING", "ACCEPTED"}
      BY <1>5 DEF CloseOk
    <2> HIDE DEF m, s
    <2>4. /\ DbOk(db') /\ db'.work = db.work /\ db'.dec = db.dec
          /\ db'.prog.head = db.prog.head
          /\ \A x \in Milestones \ {m} : db'.node[x] = db.node[x]
          /\ db'.node[m].promoted = db.node[m].promoted \union {s}
          /\ db'.node[m].reviews = db.node[m].reviews
          /\ db'.node[m].integ = db.node[m].integ
          /\ db'.node[m].subj = db.node[m].subj
          /\ db'.node[m].st # db.node[m].st => s \notin db.node[m].closed
          /\ \A x \in Milestones : Closed(db, x) => Closed(db', x)
          /\ db'.prog.state = "completed" =>
                db.prog.state = "completed" \/ AllClosed(db')
      BY <1>2, <1>3, <2>2, CloseNodeStep
    <2>5. HarnessOk'
      <3>1. "done" \in AtEffect
        BY DEF AtEffect
      <3>2. \A x \in Milestones : db'.node[x].subj = db.node[x].subj
        BY <2>4
      <3> QED BY <1>1, <1>2, <1>5, <2>4, <3>1, <3>2, StillInHand
    <2>6. TrunkOk(db'.node, db'.prog.head, git')
      <3>1. \A x \in Milestones :
               \/ db'.node[x].integ = db.node[x].integ
               \/ db.node[x].integ.state = "none" /\ db'.node[x].integ.state = "pending"
        BY <2>4
      <3>2. /\ TrunkOk(db.node, db.prog.head, git)
            /\ db'.prog.head = db.prog.head /\ git' = git
        BY <1>5, <2>4 DEF Inv
      <3> QED BY <3>1, <3>2, TrunkBundle
    <2>7. Orderly => Completed(db')
      BY <2>4, CompletedSame DEF Orderly
    <2>8. Orderly => OneAtWork(db')
      <3>1. \A x \in Milestones :
               db'.node[x].st = db.node[x].st \/ db.node[x].st # "STARTING"
        BY <2>3, <2>4
      <3> QED BY <2>4, <3>1, WorkSame DEF Orderly
    <2>9. Step
      BY <2>4, <2>5, <2>6, <2>7, <2>8, StepParts
    <2>10. PromotesOne(db, db', Reach(db))
      <3>1. m \in Reach(db)
        BY <1>2, <1>3 DEF EffectFact, Reach, m
      <3> QED BY <1>3, <2>3, <2>4, <3>1 DEF PromotesOne
    <2> QED
      BY <1>5, <2>4, <2>9, <2>10
  <1> QED
    BY <1>4, <1>5 DEF CloseEvidence

\* The commit of the effect at hand is appended to the trunk.
Merges ==
    /\ Effect.m \in GitMilestones
    /\ Effect.s \in db.node[Effect.m].promoted \intersect Subjects
    /\ git' = Append(git, <<Effect.m, Effect.s>>)

(* What is known of an integration at hand.                                *)
LEMMA IntegrationInHand ==
    ASSUME Inv, harness.at \in AtEffect, Effect.kind = "integrate"
    PROVE  /\ Effect.m \in GitMilestones /\ Effect.m \in Milestones
           /\ Effect.s \in Subjects /\ Effect.s \in db.node[Effect.m].promoted
           /\ DbOk(db) /\ Busy \in DOMAIN db.dec
           /\ TrunkOk(db.node, db.prog.head, git) /\ NodesOk(db.node)
           /\ db.prog.head \in Nat
           /\ Effect.base \in Nat /\ Effect.base <= db.prog.head
  <1>1. EffectFact(db.node, Effect) /\ DbOk(db) /\ Busy \in DOMAIN db.dec
    BY InHand
  <1>2. /\ Effect.m \in GitMilestones /\ Effect.m \in Milestones
        /\ Effect.s \in Subjects /\ Effect.s \in db.node[Effect.m].promoted
        /\ Effect.base \in 0..Cardinality(AppliedOf(db.node))
    BY <1>1 DEF EffectFact, GitMilestones
  <1>3. TrunkOk(db.node, db.prog.head, git)
    BY DEF Inv
  <1>4. NodesOk(db.node) /\ db.prog.head \in Nat
    BY <1>1 DEF DbOk, ProgOk
  <1>5. Effect.base \in Nat /\ Effect.base <= db.prog.head
    BY <1>2, <1>3, AppliedFinite DEF TrunkOk
  <1> QED
    BY <1>1, <1>2, <1>3, <1>4, <1>5

(* A commit is appended only when Git is where the ledger is.              *)
LEMMA MergedTrunk ==
    ASSUME Inv, harness.at \in AtEffect, Effect.kind = "integrate",
           db.node[Effect.m].integ.state = "pending",
           db.node[Effect.m].integ.s = Effect.s,
           Len(git) = Effect.base,
           git' = Append(git, <<Effect.m, Effect.s>>)
    PROVE  TrunkOk(db.node, db.prog.head, git') /\ CommitFact(db, git', Effect) /\ Merges
  <1> DEFINE c == <<Effect.m, Effect.s>>
  <1>1. /\ Effect.m \in GitMilestones /\ Effect.m \in Milestones
        /\ Effect.s \in Subjects /\ Effect.s \in db.node[Effect.m].promoted
        /\ TrunkOk(db.node, db.prog.head, git) /\ NodesOk(db.node)
        /\ db.prog.head \in Nat
        /\ Effect.base \in Nat /\ Effect.base <= db.prog.head
    BY IntegrationInHand
  <1>2. Len(git) = db.prog.head
    BY <1>1 DEF TrunkOk
  <1>3. /\ c \in (GitMilestones \X Subjects) \union {Foreign}
        /\ \A m \in GitMilestones, s \in Subjects :
              c = <<m, s>> => Placed(db.node[m].integ, db.prog.head, s, Len(git) + 1)
    BY <1>1, <1>2 DEF Placed
  <1>4. git \in Seq((GitMilestones \X Subjects) \union {Foreign})
    BY <1>1 DEF TrunkOk
  <1>5. Len(git') = Len(git) + 1 /\ git'[Len(git) + 1] = c
    <2> DEFINE C == (GitMilestones \X Subjects) \union {Foreign}
    <2>1. c \in C /\ git \in Seq(C)
      BY <1>3, <1>4
    <2> HIDE DEF C
    <2> QED BY <2>1, SMTT(20)
  <1>6. CommitFact(db, git', Effect)
    <2>1. Effect.base < Len(git') /\ git'[Effect.base + 1] = c
      <3> DEFINE b == Effect.base
      <3>1. b \in Nat /\ Len(git) = b
        BY <1>1
      <3> HIDE DEF b, c
      <3> QED BY <1>5, <3>1
    <2> QED BY <2>1 DEF CommitFact
  <1>7. git' = Append(git, c)
    OBVIOUS
  <1> HIDE DEF c
  <1>8. TrunkOk(db.node, db.prog.head, git')
    BY <1>1, <1>3, <1>7, TrunkGrows, SMTT(20)
  <1> QED
    BY <1>1, <1>6, <1>8 DEF Merges

(* An integration that gives up leaves its own row behind, and the trunk.  *)
LEMMA ConflictInv ==
    ASSUME Inv, harness.at \in AtEffect, Effect.kind = "integrate",
           db.node[Effect.m].integ.state = "pending",
           TrunkOk(db.node, db.prog.head, git'),
           db' = RecordEffect(Conflict(db, Effect), Busy, Index, "failed"),
           Go("idle")
    PROVE  Step /\ Still(db.node, db'.node)
  <1>1. Effect.m \in Milestones /\ DbOk(db) /\ Busy \in DOMAIN db.dec
    BY IntegrationInHand
  <1>2. PICK d : d = Conflict(db, Effect)
    OBVIOUS
  <1>3. db' = RecordEffect(d, Busy, Index, "failed")
    BY <1>2
  <1>4. /\ DbOk(d) /\ d.work = db.work /\ d.dec = db.dec
        /\ d.prog.head = db.prog.head
        /\ d = db \/ d.prog.state = "needs_decision"
        /\ \A x \in Milestones :
              /\ GivenUp(db.node[x].integ, d.node[x].integ)
              /\ d.node[x].promoted = db.node[x].promoted
              /\ d.node[x].reviews = db.node[x].reviews
              /\ d.node[x].st = db.node[x].st
    BY <1>1, <1>2, ConflictStep
  <1>5. /\ DbOk(db') /\ HarnessOk'
        /\ db'.node = d.node /\ db'.work = d.work
        /\ db'.prog.head = d.prog.head
        /\ db'.prog.state = "completed" => d.prog.state = "completed"
    BY <1>1, <1>3, <1>4, FailStep
  <1>6. TrunkOk(db'.node, db'.prog.head, git')
    BY <1>4, <1>5, TrunkStays DEF GivenUp
  <1>7. Orderly => OneAtWork(db')
    BY <1>4, <1>5, WorkSame DEF Orderly
  <1>8. Orderly => Completed(db')
    <2>1. Orderly => Completed(d)
      BY <1>4 DEF Orderly, Completed
    <2> QED BY <1>5, <2>1, SettledSame
  <1>9. Step
    BY <1>5, <1>6, <1>7, <1>8, StepParts
  <1> QED
    BY <1>4, <1>5, <1>9 DEF Still

(* An authorised commit is made, found made, or given up.                  *)
LEMMA IntegrateInv ==
    ASSUME Inv, Integrate
    PROVE  Step /\ Still(db.node, db'.node) /\ (git' = git \/ Merges)
  <1> DEFINE m == Effect.m
             row == db.node[m].integ
             c == <<m, Effect.s>>
  <1>1. harness.at \in AtEffect /\ Effect.kind = "integrate"
    BY DEF Integrate, At, AtEffect
  <1>2. /\ m \in Milestones /\ DbOk(db) /\ Busy \in DOMAIN db.dec
        /\ TrunkOk(db.node, db.prog.head, git)
    BY <1>1, IntegrationInHand
  <1>3. "git" \in AtEffect /\ "done" \in AtEffect
    BY DEF AtEffect
  <1>4. CASE FailEffect(db)
    <2>1. Step /\ Stutters
      BY <1>1, <1>4, FailInv
    <2> QED BY <2>1 DEF Stutters
  <1>5. CASE Go("done") /\ UNCHANGED <<db, git, env>>
    <2>1. HarnessOk'
      BY <1>1, <1>2, <1>3, <1>5, StillInHand
    <2>2. Step /\ Stutters
      BY <1>5, <2>1, ThreadStep
    <2> QED BY <2>2 DEF Stutters
  <1>6. ASSUME row.state = "pending", row.s = Effect.s
        PROVE  /\ Len(git) = Effect.base /\ git' = Append(git, c) =>
                     /\ TrunkOk(db.node, db.prog.head, git')
                     /\ CommitFact(db, git', Effect) /\ Merges
               /\ git' = git => TrunkOk(db.node, db.prog.head, git')
    BY <1>1, <1>2, <1>6, MergedTrunk
  <1>7. CASE /\ row.state = "pending" /\ row.s = Effect.s
             /\ Len(git) = Effect.base /\ git' = Append(git, c)
             /\ Go("git") /\ db' = db
    <2>1. /\ TrunkOk(db.node, db.prog.head, git')
          /\ CommitFact(db, git', Effect) /\ Merges
      BY <1>6, <1>7
    <2>2. HarnessOk'
      BY <1>1, <1>2, <1>3, <1>7, <2>1, StillInHand
    <2>3. Step
      BY <1>2, <1>7, <2>1, <2>2, StepParts DEF Orderly
    <2> QED BY <1>7, <2>1, <2>3 DEF Still
  <1>8. CASE /\ row.state = "pending" /\ row.s = Effect.s
             /\ OnTrunk(c, Effect.base)
             /\ Go("git") /\ UNCHANGED <<db, git, env>>
    <2>1. CommitFact(db, git', Effect)
      <3>1. Effect.base \in Nat
        BY <1>1, IntegrationInHand
      <3>2. Effect.base < Len(git) /\ git[Effect.base + 1] = c
        BY <1>8, <3>1 DEF OnTrunk
      <3> QED BY <1>1, <1>8, <3>2 DEF CommitFact
    <2>2. HarnessOk'
      BY <1>1, <1>2, <1>3, <1>8, <2>1, StillInHand
    <2>3. Step /\ Stutters
      BY <1>8, <2>2, ThreadStep
    <2> QED BY <2>3 DEF Stutters
  <1>9. CASE /\ row.state = "pending" /\ row.s = Effect.s
             /\ FailEffect(Conflict(db, Effect))
    <2>1. /\ git' = git /\ Go("idle")
          /\ db' = RecordEffect(Conflict(db, Effect), Busy, Index, "failed")
      BY <1>9 DEF FailEffect
    <2>2. TrunkOk(db.node, db.prog.head, git')
      BY <1>2, <2>1
    <2>3. Step /\ Still(db.node, db'.node)
      BY <1>1, <1>9, <2>1, <2>2, ConflictInv
    <2> QED BY <2>1, <2>3
  <1>10. CASE /\ row.state = "pending" /\ row.s = Effect.s
              /\ Len(git) = Effect.base /\ git' = Append(git, c)
              /\ db' = RecordEffect(Conflict(db, Effect), Busy, Index, "failed")
              /\ Go("idle")
    <2>1. TrunkOk(db.node, db.prog.head, git') /\ Merges
      BY <1>6, <1>10
    <2>2. Step /\ Still(db.node, db'.node)
      BY <1>1, <1>10, <2>1, ConflictInv
    <2> QED BY <2>1, <2>2
  <1> HIDE DEF m, row, c
  <1>11. \/ FailEffect(db)
         \/ Go("done") /\ UNCHANGED <<db, git, env>>
         \/ /\ row.state = "pending" /\ row.s = Effect.s
            /\ \/ Len(git) = Effect.base /\ git' = Append(git, c) /\ Go("git") /\ db' = db
               \/ OnTrunk(c, Effect.base) /\ Go("git") /\ UNCHANGED <<db, git, env>>
               \/ FailEffect(Conflict(db, Effect))
               \/ /\ Len(git) = Effect.base /\ git' = Append(git, c)
                  /\ db' = RecordEffect(Conflict(db, Effect), Busy, Index, "failed")
                  /\ Go("idle")
    BY DEF Integrate, m, row, c
  <1> QED
    BY <1>4, <1>5, <1>7, <1>8, <1>9, <1>10, <1>11

(* The commit on the trunk is recorded.                                    *)
LEMMA CompleteIntegrationInv ==
    ASSUME Inv, CompleteIntegration
    PROVE  Step /\ Stutters
  <1> DEFINE m == Effect.m
             s == Effect.s
             row == db.node[m].integ
  <1>1. /\ harness.at \in AtEffect /\ harness.at = "git"
        /\ CommitFact(db, git, Effect)
    BY DEF CompleteIntegration, AtEffect, Inv, HarnessOk
  <1>2. /\ Effect.kind = "integrate" /\ row.state = "pending" /\ row.s = s
        /\ Effect.base < Len(git) /\ git[Effect.base + 1] = <<m, s>>
    BY <1>1 DEF CommitFact
  <1>3. /\ m \in GitMilestones /\ m \in Milestones
        /\ DbOk(db) /\ Busy \in DOMAIN db.dec
        /\ TrunkOk(db.node, db.prog.head, git) /\ NodesOk(db.node)
        /\ db.prog.head \in Nat
    BY <1>1, <1>2, IntegrationInHand
  <1>4. CASE FailEffect(db)
    BY <1>1, <1>4, FailInv
  <1>5. CASE /\ row.base = Effect.base /\ db.prog.head = row.base
             /\ db' = Applied(db, m, s)
             /\ Go("done") /\ git' = git
    <2> HIDE DEF m, s
    <2>1. row.state = "pending" /\ db' = Applied(db, m, s)
      BY <1>2, <1>5
    <2>2. /\ DbOk(db') /\ db'.work = db.work
          /\ DOMAIN db.dec \subseteq DOMAIN db'.dec
          /\ \A k \in DOMAIN db.dec : db'.dec[k] = db.dec[k]
          /\ db'.prog.head = row.base + 1
          /\ db'.prog.state = "completed" =>
                db.prog.state = "completed" \/ AllClosed(db')
          /\ \A x \in Milestones \ {m} : db'.node[x] = db.node[x]
          /\ db'.node[m].integ.state = "applied"
          /\ db'.node[m].integ.s = row.s
          /\ db'.node[m].integ.base = row.base
          /\ db'.node[m].promoted = db.node[m].promoted
          /\ db'.node[m].reviews = db.node[m].reviews
          /\ db'.node[m].subj = db.node[m].subj /\ db'.node[m].st = db.node[m].st
          /\ \A x \in Milestones : Closed(db, x) => Closed(db', x)
      BY <1>3, <2>1, AppliedStep
    <2>3. HarnessOk'
      <3>1. "done" \in AtEffect
        BY DEF AtEffect
      <3>2. \A x \in Milestones : db'.node[x].subj = db.node[x].subj
        BY <2>2
      <3> QED BY <1>1, <1>3, <1>5, <2>2, <3>1, <3>2, StillInHand
    <2>4. TrunkOk(db'.node, db'.prog.head, git')
      <3>1. Mode[m] = "git"
        BY <1>3 DEF GitMilestones
      <3>2. row.base = db.prog.head /\ db.prog.head < Len(git)
            /\ git[db.prog.head + 1] = <<m, row.s>>
        BY <1>2, <1>5
      <3>3. TrunkOk(db'.node, db.prog.head + 1, git)
        <4>1. Integrated(db.node, db'.node, m)
          BY <2>2 DEF Integrated
        <4>2. Standing(db.node, m, db.prog.head, git)
          BY <2>1, <3>2 DEF Standing
        <4>3. /\ m \in Milestones /\ TrunkOk(db.node, db.prog.head, git)
              /\ NodesOk(db.node) /\ db.prog.head \in Nat
          BY <1>3
        <4> QED BY <3>1, <4>1, <4>2, <4>3, TrunkApplied
      <3> QED BY <1>5, <2>2, <3>3
    <2>5. Orderly => Completed(db')
      BY <2>2, CompletedSame DEF Orderly
    <2>6. Orderly => OneAtWork(db')
      <3>1. \A x \in Milestones : db'.node[x].st = db.node[x].st
        BY <2>2
      <3> QED BY <2>2, <3>1, WorkSame DEF Orderly
    <2>7. Step
      BY <2>2, <2>3, <2>4, <2>5, <2>6, StepParts
    <2>8. Still(db.node, db'.node)
      BY <2>2 DEF Still
    <2> QED
      BY <1>5, <2>7, <2>8 DEF Stutters
  <1> QED
    BY <1>4, <1>5 DEF CompleteIntegration

----------------------------------------------------------------------------
(* Results *)

(* A dispatch ends, with what its result wrote before.                     *)
LEMMA EndStep ==
    ASSUME Inv, Idling, UNCHANGED <<git, harness>>, NEW d, DbOk(d),
           TrunkOk(d.node, d.prog.head, git),
           NEW m \in Milestones, NEW r \in WorkRoles(m),
           NEW g \in DOMAIN d.work[m][r], NEW ph \in {"recorded", "cancelled"},
           db' = Finish(d, m, r, g, ph),
           Orderly => OneAtWork(db') /\ Completed(d)
    PROVE  Step /\ db'.node = d.node
  <1>1. ph \in {"queued", "recorded", "cancelled"}
    OBVIOUS
  <1>2. DbOk(db') /\ db'.prog = d.prog /\ db'.node = d.node /\ db'.dec = d.dec
    BY <1>1, FinishStep
  <1>3. HarnessOk'
    BY AtRest DEF Inv
  <1>4. TrunkOk(db'.node, db'.prog.head, git')
    BY <1>2
  <1>5. Orderly => Completed(db')
    BY <1>2 DEF Completed, AllClosed, Closed
  <1>6. Step
    BY <1>2, <1>3, <1>4, <1>5, StepParts
  <1> QED
    BY <1>2, <1>6

(* A dispatch ends without a result.                                       *)
LEMMA CancelWorkerInv ==
    ASSUME Inv, NEW m \in Milestones, NEW r \in WorkRoles(m),
           NEW g \in DOMAIN db.work[m][r], CancelWorker(m, r, g)
    PROVE  Step /\ Stutters
  <1>1. /\ Idling /\ UNCHANGED <<git, harness>> /\ DbOk(db)
        /\ db' = Finish(db, m, r, g, "cancelled")
        /\ TrunkOk(db.node, db.prog.head, git)
    BY DEF CancelWorker, Inv
  <1>2. PICK ph \in {"recorded", "cancelled"} : ph = "cancelled"
    OBVIOUS
  <1>3. db' = Finish(db, m, r, g, ph)
    BY <1>1, <1>2
  <1>4. Orderly => OneAtWork(db')
    <2>1. /\ ph \in {"queued", "recorded", "cancelled"}
          /\ ph = "queued" => db.work[m][r][g].ph \in {"claimed", "queued"}
      BY <1>2
    <2> QED BY <1>1, <1>3, <2>1, FinishOrderly DEF Orderly
  <1>5. Step /\ db'.node = db.node
    BY <1>1, <1>3, <1>4, EndStep DEF Orderly
  <1> QED
    BY <1>1, <1>5 DEF Stutters, Still

(* A result the ledger refuses asks for attention.                         *)
LEMMA RefusedInv ==
    ASSUME Inv, NEW m \in Milestones, NEW r \in WorkRoles(m),
           NEW g \in DOMAIN db.work[m][r], Idling, UNCHANGED <<git, harness>>,
           NEW kind, NEW of,
           db' = Finish(Attention(db, kind, of), m, r, g, "recorded")
    PROVE  Step /\ Stutters
  <1>1. PICK d : d = Attention(db, kind, of)
    OBVIOUS
  <1>2. DbOk(db) /\ TrunkOk(db.node, db.prog.head, git)
    BY DEF Inv
  <1>3. /\ DbOk(d) /\ d.prog.head = db.prog.head
        /\ d.prog.state = "completed" => db.prog.state = "completed"
        /\ d.node = db.node /\ d.work = db.work
    BY <1>1, <1>2, AttentionStep
  <1>4. PICK ph \in {"recorded", "cancelled"} : ph = "recorded"
    OBVIOUS
  <1>5. db' = Finish(d, m, r, g, ph)
    BY <1>1, <1>4
  <1>6. Orderly => OneAtWork(d) /\ Completed(d)
    BY <1>3, SettledSame DEF Orderly
  <1>7. g \in DOMAIN d.work[m][r]
    BY <1>3
  <1>8. Orderly => OneAtWork(db')
    <2>1. /\ ph \in {"queued", "recorded", "cancelled"}
          /\ ph = "queued" => d.work[m][r][g].ph \in {"claimed", "queued"}
      BY <1>4
    <2> QED BY <1>3, <1>5, <1>6, <1>7, <2>1, FinishOrderly
  <1>9. Step /\ db'.node = d.node
    BY <1>2, <1>3, <1>5, <1>6, <1>7, <1>8, EndStep
  <1> QED
    BY <1>3, <1>9 DEF Stutters, Still

(* An executor's result is recorded: its milestone waited for it, so it    *)
(* was not closed.                                                         *)
LEMMA ExecutorInv ==
    ASSUME Inv, NEW m \in Milestones, NEW g \in DOMAIN db.work[m]["executor"],
           Idling, UNCHANGED <<git, harness>>,
           db.work[m]["executor"][g].ph = "queued", g <= MaxExec,
           NEW status, NEW cand \in BOOLEAN, NEW blk,
           ExecutorResultOk(db, m, g, status, cand),
           db' = Finish(ExecutorResult(db, m, g, status, cand, blk),
                        m, "executor", g, "recorded")
    PROVE  Step /\ Stutters
  <1>1. PICK d : d = ExecutorResult(db, m, g, status, cand, blk)
    OBVIOUS
  <1>2. DbOk(db) /\ TrunkOk(db.node, db.prog.head, git)
    BY DEF Inv
  <1>3. PICK r \in WorkRoles(m) : r = "executor"
    BY RolesKnown
  <1>4. g \in Subjects
    <2>1. db.work[m] \in [WorkRoles(m) -> Seq(DispatchRows)]
      BY <1>2 DEF DbOk, WorkOk
    <2>2. db.work[m][r] \in Seq(DispatchRows)
      BY <2>1
    <2>3. g \in DOMAIN db.work[m][r]
      BY <1>3
    <2>4. g \in Nat /\ g >= 1
      BY <2>2, <2>3
    <2> QED BY <2>4, Bounds DEF Subjects
  <1>5. /\ DbOk(d) /\ Quiet(db.node, d.node)
        /\ d.prog.head = db.prog.head /\ d.work = db.work
        /\ d.prog.state = "completed" => db.prog.state = "completed"
        /\ \A x \in Milestones \ {m} : d.node[x] = db.node[x]
    BY <1>1, <1>2, <1>4, ExecutorResultStep
  <1>6. PICK ph \in {"recorded", "cancelled"} : ph = "recorded"
    OBVIOUS
  <1>7. db' = Finish(d, m, r, g, ph)
    BY <1>1, <1>3, <1>6
  <1>8. Orderly => db.node[m].st = "STARTING" /\ g = Len(db.work[m]["executor"])
    BY DEF Orderly, OneAtWork
  <1>9. Orderly => Completed(d)
    <2>1. Orderly => ~Closed(db, m)
      BY <1>2, <1>8, ClosedAccepted
    <2> QED BY <1>5, <2>1 DEF Orderly, Completed, AllClosed
  <1>10. g \in DOMAIN d.work[m][r]
    BY <1>3, <1>5
  <1>11. Orderly => OneAtWork(db')
    <2>1. ph \in {"queued", "recorded", "cancelled"}
      BY <1>6
    <2>2. /\ db'.node = d.node /\ OnlyList(d.work, db'.work, m, r)
          /\ DOMAIN db'.work[m][r] = DOMAIN d.work[m][r]
          /\ db'.work[m][r][g].ph = ph
          /\ \A i \in DOMAIN d.work[m][r] :
                i # g => db'.work[m][r][i] = d.work[m][r][i]
      <3>1. DbOk(d)
        BY <1>5
      <3>2. db'.node = d.node
        BY <1>7, <1>10, <2>1, <3>1, FinishStep
      <3>3. /\ DOMAIN db'.work[m][r] = DOMAIN d.work[m][r]
            /\ db'.work[m][r][g].ph = ph
        BY <1>7, <1>10, <2>1, <3>1, FinishStep, SMTT(20)
      <3>4. OnlyList(d.work, db'.work, m, r)
        BY <1>7, <1>10, <2>1, <3>1, FinishStep
      <3>5. \A i \in DOMAIN d.work[m][r] :
               i # g => db'.work[m][r][i] = d.work[m][r][i]
        BY <1>7, <1>10, <2>1, <3>1, FinishStep
      <3> QED BY <3>2, <3>3, <3>4, <3>5
    <2>3. SUFFICES ASSUME OneAtWork(db), NEW x \in Milestones,
                          NEW i \in DOMAIN db'.work[x]["executor"],
                          db'.work[x]["executor"][i].ph \in {"claimed", "queued"}
                   PROVE  /\ i = Len(db'.work[x]["executor"])
                          /\ db'.node[x].st = "STARTING"
      BY DEF Orderly, OneAtWork
    <2>4. CASE x = m
      <3>1. i # g
        BY <1>3, <1>6, <2>2, <2>3, <2>4
      <3>2. /\ i \in DOMAIN db.work[m]["executor"]
            /\ db.work[m]["executor"][i].ph \in {"claimed", "queued"}
        BY <1>3, <1>5, <2>2, <2>3, <2>4, <3>1
      <3>3. i = Len(db.work[m]["executor"]) /\ g = Len(db.work[m]["executor"])
        BY <2>3, <3>2 DEF OneAtWork
      <3> QED BY <3>1, <3>3
    <2>5. CASE x # m
      <3>1. db'.work[x]["executor"] = db.work[x]["executor"]
        BY <1>5, <2>2, <2>5, RolesKnown DEF OnlyList
      <3>2. db'.node[x] = db.node[x]
        BY <1>5, <2>2, <2>5
      <3> QED BY <2>3, <3>1, <3>2 DEF OneAtWork
    <2> QED BY <2>4, <2>5
  <1>12. TrunkOk(d.node, d.prog.head, git)
    BY <1>2, <1>5, TrunkQuiet
  <1>13. Step /\ db'.node = d.node
    BY <1>5, <1>7, <1>9, <1>10, <1>11, <1>12, EndStep
  <1> QED
    BY <1>5, <1>13 DEF Stutters, Still, Quiet

\* A review of m is recorded.
Judges(m) ==
    /\ git' = git
    /\ \A x \in Milestones :
          /\ db'.node[x].promoted = db.node[x].promoted
          /\ x # m => db'.node[x].reviews = db.node[x].reviews
    /\ \E s \in Subjects, r \in Roles[m] :
          Reviewed(db.node[m], db'.node[m], s, r)

(* A reviewer's result is recorded.                                        *)
LEMMA ReviewInv ==
    ASSUME Inv, NEW m \in Milestones, NEW r \in Roles[m],
           NEW g \in DOMAIN db.work[m][r], Idling, UNCHANGED <<git, harness>>,
           NEW s, s = db.work[m][r][g].s, NEW v,
           db' = Finish(Review(db, m, s, r, v), m, r, g, "recorded")
    PROVE  Step /\ Judges(m)
  <1>1. PICK d : d = Review(db, m, s, r, v)
    OBVIOUS
  <1>2. DbOk(db) /\ TrunkOk(db.node, db.prog.head, git)
    BY DEF Inv
  <1>3. s \in Subjects
    BY <1>2 DEF DbOk, WorkOk
  <1>4. /\ DbOk(d) /\ d.prog = db.prog /\ d.work = db.work
        /\ \A x \in Milestones :
              /\ d.node[x].promoted = db.node[x].promoted
              /\ d.node[x].integ = db.node[x].integ
              /\ d.node[x].st = db.node[x].st
              /\ x # m => d.node[x].reviews = db.node[x].reviews
              /\ Closed(db, x) => Closed(d, x)
        /\ Reviewed(db.node[m], d.node[m], s, r)
    <2>1. DbOk(d) /\ d.prog = db.prog /\ d.work = db.work
      BY <1>1, <1>2, <1>3, ReviewStep
    <2>2. \A x \in Milestones :
             /\ d.node[x].promoted = db.node[x].promoted
             /\ d.node[x].integ = db.node[x].integ
             /\ d.node[x].st = db.node[x].st
             /\ Closed(db, x) => Closed(d, x)
      BY <1>1, <1>2, <1>3, ReviewStep, SMTT(20)
    <2>3. \A x \in Milestones : x # m => d.node[x].reviews = db.node[x].reviews
      BY <1>1, <1>2, <1>3, ReviewStep, SMTT(20)
    <2>4. Reviewed(db.node[m], d.node[m], s, r)
      BY <1>1, <1>2, <1>3, ReviewStep
    <2> QED BY <2>1, <2>2, <2>3, <2>4
  <1>5. PICK ph \in {"recorded", "cancelled"} : ph = "recorded"
    OBVIOUS
  <1>6. db' = Finish(d, m, r, g, ph)
    BY <1>1, <1>5
  <1>7. r \in WorkRoles(m) /\ g \in DOMAIN d.work[m][r]
    BY <1>4, RolesKnown
  <1>8. Orderly => OneAtWork(d)
    BY <1>4, WorkSame DEF Orderly
  <1>9. Orderly => Completed(d)
    BY <1>4, CompletedSame DEF Orderly
  <1>10. Orderly => OneAtWork(db')
    <2>1. /\ ph \in {"queued", "recorded", "cancelled"}
          /\ ph = "queued" => d.work[m][r][g].ph \in {"claimed", "queued"}
      BY <1>5
    <2> QED BY <1>4, <1>6, <1>7, <1>8, <2>1, FinishOrderly
  <1>11. TrunkOk(d.node, d.prog.head, git)
    <2>1. \A x \in Milestones :
             \/ d.node[x].integ = db.node[x].integ
             \/ db.node[x].integ.state = "none" /\ d.node[x].integ.state = "pending"
      BY <1>4
    <2>2. d.prog.head = db.prog.head
      BY <1>4
    <2> QED BY <1>2, <2>1, <2>2, TrunkBundle
  <1>12. Step /\ db'.node = d.node
    BY <1>4, <1>6, <1>7, <1>9, <1>10, <1>11, EndStep
  <1> QED
    BY <1>3, <1>4, <1>12 DEF Judges

(* A worker's result is recorded or refused.                               *)
LEMMA RecordResultInv ==
    ASSUME Inv, NEW m \in Milestones, NEW r \in WorkRoles(m),
           NEW g \in DOMAIN db.work[m][r], RecordResult(m, r, g)
    PROVE  Step /\ (Stutters \/ Judges(m))
  <1>1. /\ Idling /\ UNCHANGED <<git, harness>> /\ db.work[m][r][g].ph = "queued"
        /\ r = "executor" => g <= MaxExec
    BY DEF RecordResult
  <1>2. CASE r = "executor"
    <2>0. PICK o \in CommitOutcomes :
             db' = Accept(ExecutorResultOk(db, m, g, o.status, o.cand), db,
                          ExecutorResult(db, m, g, o.status, o.cand, o.blk),
                          m, "executor", g)
      BY <1>2 DEF RecordResult, RecordExecutor, EvidenceOutcomes
    <2> DEFINE status == o.status
               cand == o.cand
               blk == o.blk
    <2>1. /\ db' = Accept(ExecutorResultOk(db, m, g, status, cand), db,
                          ExecutorResult(db, m, g, status, cand, blk),
                          m, "executor", g)
          /\ cand \in BOOLEAN
      BY <2>0 DEF CommitOutcomes
    <2> HIDE DEF status, cand, blk
    <2>2. CASE ExecutorResultOk(db, m, g, status, cand)
      <3>1. db' = Finish(ExecutorResult(db, m, g, status, cand, blk),
                         m, "executor", g, "recorded")
        BY <2>1, <2>2 DEF Accept
      <3>2. g \in DOMAIN db.work[m]["executor"] /\ g <= MaxExec
        BY <1>1, <1>2
      <3>3. db.work[m]["executor"][g].ph = "queued"
        BY <1>1, <1>2
      <3>4. Idling /\ UNCHANGED <<git, harness>>
        BY <1>1
      <3>5. Step /\ Stutters
        BY <2>1, <2>2, <3>1, <3>2, <3>3, <3>4, ExecutorInv
      <3> QED BY <3>5
    <2>3. CASE ~ExecutorResultOk(db, m, g, status, cand)
      <3>1. db' = Finish(Attention(db, "refused", <<m, g>>), m, r, g, "recorded")
        BY <1>2, <2>1, <2>3 DEF Accept
      <3> QED BY <1>1, <3>1, RefusedInv
    <2> QED BY <2>2, <2>3
  <1>3. CASE r # "executor"
    <2> DEFINE s == db.work[m][r][g].s
    <2>1. PICK v : db' = Accept(ReviewOk(db, m, s), db, Review(db, m, s, r, v),
                                m, r, g)
      BY <1>3 DEF RecordResult, RecordReview
    <2>2. CASE ReviewOk(db, m, s)
      <3>1. db' = Finish(Review(db, m, s, r, v), m, r, g, "recorded")
        BY <2>1, <2>2 DEF Accept
      <3>2. r \in Roles[m]
        BY <1>3 DEF WorkRoles
      <3> QED BY <1>1, <3>1, <3>2, ReviewInv
    <2>3. CASE ~ReviewOk(db, m, s)
      <3>1. db' = Finish(Attention(db, r, <<m, g>>), m, r, g, "recorded")
        BY <1>3, <2>1, <2>3 DEF Accept
      <3> QED BY <1>1, <3>1, RefusedInv
    <2> QED BY <2>2, <2>3
  <1> QED
    BY <1>2, <1>3

(* A candidate is adopted: only that of an integrated milestone disturbs   *)
(* executors and completion, and AdoptsInTime excludes the cases.          *)
LEMMA AdoptInv ==
    ASSUME Inv, NEW m \in Milestones, AdoptCandidate(m)
    PROVE  /\ Inv' /\ Stutters
           /\ Orderly /\ AdoptsInTime => Orderly'
  <1>1. /\ Idling /\ UNCHANGED <<git, harness>> /\ AdoptOk(db, m)
        /\ Len(db.work[m]["executor"]) <= MaxExec /\ db' = Adopt(db, m)
    BY DEF AdoptCandidate
  <1>2. DbOk(db) /\ TrunkOk(db.node, db.prog.head, git) /\ HarnessOk
    BY DEF Inv
  <1>3. DbOk(db') /\ Quiet(db.node, db'.node) /\ db'.prog = db.prog
    BY <1>1, <1>2, AdoptStep
  <1>4. /\ Mode[m] = "git" => ~Closed(db, m)
        /\ \A x \in Milestones \ {m} : db'.node[x] = db.node[x]
    BY <1>1, <1>2, AdoptStep
  <1>5. db.node[m].st = "STARTING" /\ (Mode[m] = "git" \/ Inherits(db.node[m]))
        => db'.node[m].st = "STARTING"
    BY <1>1, <1>2, AdoptStep
  <1>6. \A x \in Milestones : \A q \in WorkRoles(x) :
           \/ db'.work[x][q] = db.work[x][q]
           \/ /\ x = m /\ db.work[x][q] = <<>> /\ Mode[m] = "already"
              /\ db'.work[x][q] = <<[ph |-> "recorded", s |-> 0]>>
    BY <1>1, <1>2, AdoptStep
  <1>7. HarnessOk'
    BY <1>1, <1>2, AtRest
  <1>8. TrunkOk(db'.node, db'.prog.head, git')
    <2>1. TrunkOk(db'.node, db.prog.head, git)
      BY <1>2, <1>3, TrunkQuiet
    <2> QED BY <1>1, <1>3, <2>1
  <1>9. Inv'
    BY <1>3, <1>7, <1>8 DEF Inv
  <1>10. Stutters
    BY <1>1, <1>3 DEF Stutters, Still, Quiet
  <1>11. Completed(db) /\ AdoptsInTime => Completed(db')
    <2>1. SUFFICES ASSUME Completed(db), AdoptsInTime, db.prog.state = "completed"
                   PROVE  FALSE
      BY <1>3 DEF Completed
    <2>2. Mode[m] = "already" => ~Inherits(db.node[m])
      BY <2>1 DEF AdoptsInTime
    <2>3. ~Closed(db, m)
      <3>1. CASE Mode[m] = "git"
        BY <1>4, <3>1
      <3>2. CASE Mode[m] = "already"
        BY <1>1, <2>2, <3>2 DEF AdoptOk, Closed
      <3> QED BY <1>1, <3>1, <3>2, ModeKnown DEF AdoptOk
    <2> QED BY <2>1, <2>3 DEF Completed, AllClosed
  <1>12. OneAtWork(db) /\ AdoptsInTime => OneAtWork(db')
    <2>1. SUFFICES ASSUME OneAtWork(db), AdoptsInTime, NEW x \in Milestones,
                          NEW i \in DOMAIN db'.work[x]["executor"],
                          db'.work[x]["executor"][i].ph \in {"claimed", "queued"}
                   PROVE  /\ i = Len(db'.work[x]["executor"])
                          /\ db'.node[x].st = "STARTING"
      BY DEF OneAtWork
    <2>2. db'.work[x]["executor"] = db.work[x]["executor"]
      BY <1>6, <2>1, RolesKnown
    <2>3. i = Len(db'.work[x]["executor"]) /\ db.node[x].st = "STARTING"
      BY <2>1, <2>2 DEF OneAtWork
    <2>4. x = m => Mode[m] = "git" \/ Inherits(db.node[m])
      BY <1>1, <2>1, <2>3, ModeKnown DEF AdoptsInTime, AdoptOk
    <2>5. db'.node[x].st = "STARTING"
      BY <1>4, <1>5, <2>3, <2>4
    <2> QED BY <2>3, <2>5
  <1> QED
    BY <1>9, <1>10, <1>11, <1>12 DEF Orderly

----------------------------------------------------------------------------
(* The invariant *)

(* At the start nothing is recorded.                                       *)
LEMMA InitInv ==
    ASSUME Init
    PROVE  Inv /\ Orderly
  <1> DEFINE p == [state |-> "registered", rev |-> 0, head |-> 0]
             N == [m \in Milestones |-> NewMilestone]
             W == [m \in Milestones |-> [r \in WorkRoles(m) |-> <<>>]]
  <1>1. db = [prog |-> p, node |-> N, work |-> W, dec |-> <<>>] /\ git = <<>>
    BY DEF Init
  <1>2. /\ harness = [at |-> "idle", key |-> [kind |-> "none", of |-> <<>>]]
    BY DEF Init
  <1>3. p \in [state : ProgramStates, rev : Nat, head : Nat] /\ p.head = 0
        /\ p.state = "registered"
    BY DEF ProgramStates
  <1>4. NewMilestone.integ \in IntegRows /\ NewMilestone.integ.state = "none"
    BY DEF NewMilestone, IntegRows
  <1>5. \A m \in Milestones : NodeOk(m, NewMilestone)
    BY <1>4 DEF NewMilestone, NodeOk, IsNode, States
  <1>6. NodesOk(N) /\ \A m \in Milestones : N[m] = NewMilestone
    BY <1>5 DEF NodesOk
  <1>7. WorkOk(W) /\ \A m \in Milestones : W[m]["executor"] = <<>>
    BY RolesKnown DEF WorkOk
  <1>8. DecsOk(<<>>, N)
    BY DEF DecsOk
  <1> HIDE DEF p, N, W
  <1>9. DbOk(db) /\ db.prog = p /\ db.node = N /\ db.work = W
    BY <1>1, <1>3, <1>6, <1>7, <1>8 DEF DbOk, IsDb, ProgOk
  <1>10. TrunkOk(db.node, db.prog.head, git)
    <2>1. AppliedOf(N) = {}
      BY <1>4, <1>6 DEF AppliedOf
    <2>2. TrunkOk(N, 0, <<>>)
      BY <2>1, FS_EmptySet DEF TrunkOk
    <2> QED BY <1>1, <1>3, <1>9, <2>2
  <1>11. HarnessOk
    BY <1>2 DEF HarnessOk, Inside, AtEffect
  <1>12. OneAtWork(db)
    BY <1>7, <1>9 DEF OneAtWork
  <1>13. Completed(db)
    BY <1>3, <1>9 DEF Completed
  <1> QED
    BY <1>9, <1>10, <1>11, <1>12, <1>13 DEF Inv, Orderly

\* The ways a step may change what the refinement sees.
Approves ==
    /\ git' = git /\ PromotesOne(db, db', Reach(db))
    /\ \A x \in Milestones : db'.node[x].reviews = db.node[x].reviews

Moves ==
    \/ Stutters
    \/ \E m \in Milestones : Judges(m)
    \/ Approves
    \/ Still(db.node, db'.node) /\ (Merges \/ git' = Append(git, Foreign))

\* What every step does.
GoodStep == Inv' /\ Moves /\ (Orderly /\ AdoptsInTime => Orderly')

(* Steps of the harness thread.                                            *)
LEMMA HarnessGood ==
    ASSUME Inv, HarnessStep
    PROVE  GoodStep
  <1>1. CASE ApplyBundle \/ FindSpoiled
    <2>1. Step /\ Stutters
      BY <1>1, ApplyBundleInv, FindSpoiledInv
    <2> QED BY <2>1 DEF Step, GoodStep, Moves
  <1>2. CASE ClaimWorker \/ EnqueueWorker \/ RecordApplied
    <2>1. Step /\ Stutters
      BY <1>2, ClaimWorkerInv, EnqueueWorkerInv, RecordAppliedInv
    <2> QED BY <2>1 DEF Step, GoodStep, Moves
  <1>3. CASE CloseEvidence
    <2>1. Step /\ Approves
      BY <1>3, CloseEvidenceInv DEF Approves
    <2> QED BY <2>1 DEF Step, GoodStep, Moves
  <1>4. CASE Integrate
    <2>1. Step /\ Still(db.node, db'.node) /\ (git' = git \/ Merges)
      BY <1>4, IntegrateInv
    <2> QED BY <2>1 DEF Step, GoodStep, Moves, Stutters
  <1>5. CASE CompleteIntegration \/ Restart
    <2>1. Step /\ Stutters
      BY <1>5, CompleteIntegrationInv, CrashInv
    <2> QED BY <2>1 DEF Step, GoodStep, Moves
  <1> QED
    BY <1>1, <1>2, <1>3, <1>4, <1>5 DEF HarnessStep

(* Steps of controllers.                                                   *)
LEMMA ControllerGood ==
    ASSUME Inv, NEW k \in DOMAIN db.dec,
           Claim(k) \/ LoseClaim(k) \/ Submit(k) \/ Acknowledge(k) \/ Replay(k)
    PROVE  GoodStep
  <1>1. CASE Submit(k)
    <2>1. Step /\ Approves
      BY <1>1, SubmitInv DEF Approves
    <2> QED BY <2>1 DEF Step, GoodStep, Moves
  <1>2. CASE Claim(k) \/ LoseClaim(k)
    <2>1. Step /\ Stutters
      BY <1>2, ClaimInv, LoseClaimInv
    <2> QED BY <2>1 DEF Step, GoodStep, Moves
  <1>3. CASE Acknowledge(k) \/ Replay(k)
    <2>1. Step /\ Stutters
      BY <1>3, AcknowledgeInv, ReplayInv
    <2> QED BY <2>1 DEF Step, GoodStep, Moves
  <1> QED
    BY <1>1, <1>2, <1>3

(* Steps of workers, and candidates that are adopted.                      *)
LEMMA WorkerGood ==
    ASSUME Inv, NEW m \in Milestones,
           \/ \E r \in WorkRoles(m) : \E g \in DOMAIN db.work[m][r] :
                 RecordResult(m, r, g) \/ CancelWorker(m, r, g)
           \/ AdoptCandidate(m) \/ Spoil(m)
    PROVE  GoodStep
  <1>1. ASSUME NEW r \in WorkRoles(m), NEW g \in DOMAIN db.work[m][r],
               RecordResult(m, r, g)
        PROVE  GoodStep
    <2>1. Step /\ (Stutters \/ Judges(m))
      BY <1>1, RecordResultInv
    <2> QED BY <2>1 DEF Step, GoodStep, Moves
  <1>2. ASSUME NEW r \in WorkRoles(m), NEW g \in DOMAIN db.work[m][r],
               CancelWorker(m, r, g)
        PROVE  GoodStep
    <2>1. Step /\ Stutters
      BY <1>2, CancelWorkerInv
    <2> QED BY <2>1 DEF Step, GoodStep, Moves
  <1>3. CASE AdoptCandidate(m)
    BY <1>3, AdoptInv DEF GoodStep, Moves
  <1>4. CASE Spoil(m)
    <2>1. UNCHANGED <<db, git, harness>>
      BY <1>4 DEF Spoil
    <2>2. Step /\ Stutters
      BY <2>1, SpoilInv
    <2> QED BY <2>2 DEF Step, GoodStep, Moves
  <1> QED
    BY <1>1, <1>2, <1>3, <1>4

(* Every step keeps the invariant.                                         *)
LEMMA NextGood ==
    ASSUME Inv, [Next]_vars
    PROVE  GoodStep
  <1>1. CASE OperatorStart \/ Supersede \/ Crash
    <2>1. Step /\ Stutters
      BY <1>1, OperatorStartInv, SupersedeInv, CrashInv
    <2> QED BY <2>1 DEF Step, GoodStep, Moves
  <1>2. CASE ForeignCommit
    <2>1. Step /\ git' = Append(git, Foreign) /\ Still(db.node, db'.node)
      BY <1>2, ForeignInv
    <2> QED BY <2>1 DEF Step, GoodStep, Moves
  <1>3. CASE UNCHANGED vars
    <2>1. UNCHANGED <<db, git, harness>>
      BY <1>3 DEF vars
    <2>2. Step /\ Stutters
      BY <2>1, SpoilInv
    <2> QED BY <2>2 DEF Step, GoodStep, Moves
  <1> QED
    BY <1>1, <1>2, <1>3, HarnessGood, ControllerGood, WorkerGood DEF Next

(* Inv is an inductive invariant: the tables of the ledger are in order,   *)
(* agree with Git, and the thread stands inside an outbox that is owed.    *)
THEOREM ProgramInvariant == Spec => []Inv
  <1>1. Init => Inv
    BY InitInv
  <1>2. Inv /\ [Next]_vars => Inv'
    BY NextGood DEF GoodStep
  <1> QED
    BY <1>1, <1>2, PTL DEF Spec

(* Receipts, decision and outbox agree after every step, and every value   *)
(* is one the tables allow.                                                *)
THEOREM TypesHold == Spec => []TypeOK
  <1>1. Inv => TypeOK
    <2>1. SUFFICES ASSUME Inv PROVE TypeOK
      OBVIOUS
    <2>2. DbOk(db) /\ TrunkOk(db.node, db.prog.head, git) /\ HarnessOk
      BY <2>1 DEF Inv
    <2>3. db.prog \in [state : ProgramStates, rev : Nat, head : 0..Len(git)]
      BY <2>2 DEF DbOk, ProgOk, TrunkOk
    <2>4. \A m \in Milestones :
             /\ db.node[m].st \in States
             /\ db.node[m].subj \in Subjects \union {0}
             /\ db.node[m].integ.state \in {"none", "pending", "applied", "conflict"}
      BY <2>2 DEF DbOk, NodesOk, NodeOk, IntegRows
    <2>5. harness.at \in {"idle", "apply", "effect", "claimed", "done", "git", "down"}
      BY <2>2 DEF HarnessOk, Inside
    <2>6. \A k \in DOMAIN db.dec : DecisionValid(db, k)
      BY <2>2 DEF DbOk, DecsOk, DecOk, DecisionValid, Pending, PendingOf
    <2> QED BY <2>3, <2>4, <2>5, <2>6 DEF TypeOK
  <1> QED
    BY <1>1, ProgramInvariant, PTL

(* What the ledger counts as integrated is exactly what stands on the      *)
(* trunk, through every crash between the Git update and its receipt.      *)
THEOREM LedgerTrunk == Spec => []LedgerTrunkIsGit
  <1>1. Inv => LedgerTrunkIsGit
    BY DEF Inv, TrunkOk, AppliedOf, LedgerTrunkIsGit
  <1> QED
    BY <1>1, ProgramInvariant, PTL

(* A failed effect ends with a human and a decision that says why.         *)
THEOREM FailuresSeen == Spec => []FailuresReachHuman
  <1>1. Inv => FailuresReachHuman
    BY DEF Inv, DbOk, DecsOk, DecOk, FailureKey, EventKey, FailuresReachHuman
  <1> QED
    BY <1>1, ProgramInvariant, PTL

----------------------------------------------------------------------------
(* Executors and completion *)

\* What Orderly and Inv say together.
InOrder == Inv /\ Orderly

(* Only an adoption can disturb executors and completion: that of an       *)
(* integrated milestone which AdoptsInTime names.                          *)
THEOREM ProgramOrderly == Spec /\ [][AdoptsInTime]_vars => []InOrder
  <1>1. Init => InOrder
    BY InitInv DEF InOrder
  <1>2. InOrder /\ [Next]_vars /\ [AdoptsInTime]_vars => InOrder'
    <2>1. SUFFICES ASSUME InOrder, [Next]_vars, [AdoptsInTime]_vars
                   PROVE  InOrder'
      OBVIOUS
    <2>2. CASE AdoptsInTime
      BY <2>1, <2>2, NextGood DEF InOrder, GoodStep
    <2>3. CASE UNCHANGED vars
      <3>1. UNCHANGED <<db, git, harness>>
        BY <2>3 DEF vars
      <3>2. Step
        BY <2>1, <3>1, SpoilInv DEF InOrder
      <3> QED BY <2>1, <3>2 DEF Step, InOrder
    <2> QED BY <2>1, <2>2, <2>3
  <1> QED
    BY <1>1, <1>2, PTL DEF Spec

(* Two executors of a milestone are never at work: a launch asks for a     *)
(* milestone that waits for no executor, and every result moves it on.     *)
THEOREM OneExecutorHolds ==
    Spec /\ [][AdoptsInTime]_vars => []OneExecutor
  <1>1. InOrder => OneExecutor
    <2>1. SUFFICES ASSUME InOrder, NEW m \in Milestones
                   PROVE  Cardinality({g \in DOMAIN db.work[m]["executor"] :
                             db.work[m]["executor"][g].ph \in {"claimed", "queued"}})
                          <= 1
      BY DEF OneExecutor
    <2> DEFINE last == Len(db.work[m]["executor"])
               S == {g \in DOMAIN db.work[m]["executor"] :
                       db.work[m]["executor"][g].ph \in {"claimed", "queued"}}
    <2>2. S \subseteq {last}
      BY <2>1 DEF InOrder, Orderly, OneAtWork
    <2> HIDE DEF S, last
    <2>3. IsFiniteSet({last}) /\ Cardinality({last}) = 1
      BY FS_Singleton
    <2>4. Cardinality(S) <= 1
      BY <2>2, <2>3, FS_Subset
    <2> QED BY <2>4 DEF S
  <1> QED
    BY <1>1, ProgramOrderly, PTL

(* A program reported complete has every milestone closed, where nothing   *)
(* unfinished is adopted into it afterwards.                               *)
THEOREM CompletedHolds ==
    Spec /\ [][AdoptsInTime]_vars => []CompletedMeansClosed
  <1>1. InOrder => CompletedMeansClosed
    BY DEF InOrder, Orderly, Completed, CompletedMeansClosed
  <1> QED
    BY <1>1, ProgramOrderly, PTL

\* Nobody adopts, or no milestone was integrated before the program.
NothingAdopted == "adopt" \notin Faults \/ \A m \in Milestones : Mode[m] # "already"

(* Then the premise of the two theorems holds by itself.                  *)
THEOREM OrderWithoutAdoption ==
    ASSUME NothingAdopted
    PROVE  Spec => [](OneExecutor /\ CompletedMeansClosed)
  <1>1. AdoptsInTime
    BY DEF NothingAdopted, AdoptsInTime, AdoptCandidate
  <1>2. Spec => [][AdoptsInTime]_vars
    BY <1>1, PTL
  <1> QED
    BY <1>2, OneExecutorHolds, CompletedHolds, PTL

----------------------------------------------------------------------------
(* Programs implements ReviewedTrunk *)

VerdictsOf(N) ==
    UNION {{<<m, r.s, r.role, IsAccepted(r), IsBlocking(r)>> :
               r \in N[m].reviews} : m \in Milestones}

ApprovedOf(N) == UNION {{<<m, s>> : s \in N[m].promoted} : m \in Milestones}

(* The variables of the promise.                                           *)
LEMMA TrunkVars ==
    Trunk!vars = <<VerdictsOf(db.node), ApprovedOf(db.node), git>>
  BY DEF Trunk!vars, VerdictsOf, ApprovedOf

(* Its members.                                                            *)
LEMMA VerdictIn ==
    ASSUME NEW N, NEW q
    PROVE  q \in VerdictsOf(N) <=>
              \E m \in Milestones : \E r \in N[m].reviews :
                 q = <<m, r.s, r.role, IsAccepted(r), IsBlocking(r)>>
  BY DEF VerdictsOf

(* The members of the approvals.                                          *)
LEMMA ApprovedIn ==
    ASSUME NEW N, NEW q
    PROVE  q \in ApprovedOf(N) <=>
              \E m \in Milestones : \E s \in N[m].promoted : q = <<m, s>>
  BY DEF ApprovedOf

(* Reviews and promotions that stay are verdicts and approvals that stay.  *)
LEMMA VerdictsStay ==
    ASSUME NEW N, NEW P, \A m \in Milestones : P[m].reviews = N[m].reviews
    PROVE  VerdictsOf(P) = VerdictsOf(N)
  <1>1. \A q : q \in VerdictsOf(P) <=> q \in VerdictsOf(N)
    BY VerdictIn
  <1> QED
    BY <1>1

(* Promotions that stay are approvals that stay.                          *)
LEMMA ApprovedStay ==
    ASSUME NEW N, NEW P, \A m \in Milestones : P[m].promoted = N[m].promoted
    PROVE  ApprovedOf(P) = ApprovedOf(N)
  <1>1. \A q : q \in ApprovedOf(P) <=> q \in ApprovedOf(N)
    BY ApprovedIn
  <1> QED
    BY <1>1

(* One more review is one more verdict.                                    *)
LEMMA VerdictsGrow ==
    ASSUME NEW N, NEW P, NEW m \in Milestones, NEW x,
           P[m].reviews = N[m].reviews \union {x},
           \A y \in Milestones : y # m => P[y].reviews = N[y].reviews
    PROVE  VerdictsOf(P) = VerdictsOf(N) \union
              {<<m, x.s, x.role, IsAccepted(x), IsBlocking(x)>>}
  <1> DEFINE v == <<m, x.s, x.role, IsAccepted(x), IsBlocking(x)>>
  <1>1. ASSUME NEW q \in VerdictsOf(P) PROVE q \in VerdictsOf(N) \/ q = v
    <2>0. PICK y \in Milestones : \E r \in P[y].reviews :
             q = <<y, r.s, r.role, IsAccepted(r), IsBlocking(r)>>
      BY <1>1, VerdictIn
    <2>1. PICK r \in P[y].reviews :
             q = <<y, r.s, r.role, IsAccepted(r), IsBlocking(r)>>
      BY <2>0
    <2>2. CASE r \in N[y].reviews
      BY <2>1, <2>2, VerdictIn
    <2>3. CASE r \notin N[y].reviews
      <3>1. y = m /\ r = x
        BY <2>1, <2>3
      <3> QED BY <2>1, <3>1
    <2> QED BY <2>2, <2>3
  <1>2. ASSUME NEW q \in VerdictsOf(N) PROVE q \in VerdictsOf(P)
    <2>0. PICK y \in Milestones : \E r \in N[y].reviews :
             q = <<y, r.s, r.role, IsAccepted(r), IsBlocking(r)>>
      BY <1>2, VerdictIn
    <2>1. PICK r \in N[y].reviews :
             q = <<y, r.s, r.role, IsAccepted(r), IsBlocking(r)>>
      BY <2>0
    <2>2. r \in P[y].reviews
      BY <2>1
    <2> QED BY <2>1, <2>2, VerdictIn
  <1>3. v \in VerdictsOf(P)
    <2>1. x \in P[m].reviews
      OBVIOUS
    <2> QED BY <2>1, VerdictIn
  <1> HIDE DEF v
  <1>4. VerdictsOf(P) = VerdictsOf(N) \union {v}
    BY <1>1, <1>2, <1>3
  <1> QED
    BY <1>4 DEF v

\* The subject s of m, and nothing else, is promoted.
OnePromoted(N, P, m, s) ==
    /\ P[m].promoted = N[m].promoted \union {s}
    /\ \A y \in Milestones : y # m => P[y].promoted = N[y].promoted

OneApproved(N, P, m, s) == ApprovedOf(P) = ApprovedOf(N) \union {<<m, s>>}

(* One more promotion is one more approval.                                *)
LEMMA ApprovedGrow ==
    ASSUME NEW N, NEW P, NEW m \in Milestones, NEW s, OnePromoted(N, P, m, s)
    PROVE  OneApproved(N, P, m, s)
  <1> USE DEF OnePromoted, OneApproved
  <1>1. ASSUME NEW q \in ApprovedOf(P) PROVE q \in ApprovedOf(N) \/ q = <<m, s>>
    <2>0. PICK y \in Milestones : \E t \in P[y].promoted : q = <<y, t>>
      BY <1>1, ApprovedIn
    <2>1. PICK t \in P[y].promoted : q = <<y, t>>
      BY <2>0
    <2>2. CASE t \in N[y].promoted
      BY <2>1, <2>2, ApprovedIn
    <2>3. CASE t \notin N[y].promoted
      BY <2>1, <2>3
    <2> QED BY <2>2, <2>3
  <1>2. ASSUME NEW q \in ApprovedOf(N) PROVE q \in ApprovedOf(P)
    <2>0. PICK y \in Milestones : \E t \in N[y].promoted : q = <<y, t>>
      BY <1>2, ApprovedIn
    <2>1. PICK t \in N[y].promoted : q = <<y, t>>
      BY <2>0
    <2>2. t \in P[y].promoted
      BY <2>1
    <2> QED BY <2>1, <2>2, ApprovedIn
  <1>3. <<m, s>> \in ApprovedOf(P)
    <2>1. s \in P[m].promoted
      OBVIOUS
    <2> QED BY <2>1, ApprovedIn
  <1> QED
    BY <1>1, <1>2, <1>3

(* A review gives a verdict.                                               *)
LEMMA JudgesTrunk ==
    ASSUME NEW m \in Milestones, Judges(m)
    PROVE  Trunk!Next
  <1>1. PICK s \in Subjects, r \in Roles[m] :
           Reviewed(db.node[m], db'.node[m], s, r)
    BY DEF Judges
  <1>2. PICK x : /\ x.s = s /\ x.role = r
                 /\ db'.node[m].reviews = db.node[m].reviews \union {x}
    BY <1>1 DEF Reviewed
  <1>3. /\ git' = git
        /\ \A y \in Milestones :
              /\ db'.node[y].promoted = db.node[y].promoted
              /\ y # m => db'.node[y].reviews = db.node[y].reviews
    BY DEF Judges
  <1>4. ApprovedOf(db'.node) = ApprovedOf(db.node)
    BY <1>3, ApprovedStay
  <1>5. VerdictsOf(db'.node) = VerdictsOf(db.node) \union
           {<<m, x.s, x.role, IsAccepted(x), IsBlocking(x)>>}
    <2>1. db'.node[m].reviews = db.node[m].reviews \union {x}
      BY <1>2
    <2>2. \A y \in Milestones : y # m => db'.node[y].reviews = db.node[y].reviews
      BY <1>3
    <2> QED BY <2>1, <2>2, VerdictsGrow, SMTT(20)
  <1>6. PICK a \in BOOLEAN, b \in BOOLEAN : a = IsAccepted(x) /\ b = IsBlocking(x)
    BY DEF IsAccepted, IsBlocking
  <1>7. VerdictsOf(db'.node) = VerdictsOf(db.node) \union {<<m, s, r, a, b>>}
    BY <1>2, <1>5, <1>6
  <1>8. Trunk!Judge(<<m, s, r, a, b>>)
    BY <1>3, <1>4, <1>7 DEF Trunk!Judge, VerdictsOf, ApprovedOf
  <1> QED
    BY <1>8 DEF Trunk!Next

(* What a milestone of the program delivered is delivered in the promise.  *)
LEMMA DeliveredTrunk ==
    ASSUME Inv, NEW m \in Milestones, Delivered(db.node, m)
    PROVE  Trunk!Delivered(m)
  <1>1. NodeOk(m, db.node[m]) /\ TrunkOk(db.node, db.prog.head, git)
    BY DEF Inv, DbOk, NodesOk
  <1>2. CASE Mode[m] = "git"
    <2> DEFINE row == db.node[m].integ
    <2>1. m \in AppliedOf(db.node) /\ row.state = "applied"
      BY <1>2 DEF Delivered, AppliedOf
    <2>2. row.s \in Subjects /\ row.base \in Nat
      BY <1>1, <2>1 DEF NodeOk, IntegRows
    <2>3. /\ git[row.base + 1] = <<m, row.s>>
          /\ row.base < db.prog.head /\ db.prog.head <= Len(git)
      BY <1>1, <2>1 DEF TrunkOk
    <2>4. db.prog.head \in Nat /\ Len(git) \in Nat
      BY <1>1 DEF Inv, DbOk, ProgOk, TrunkOk
    <2> HIDE DEF row
    <2>5. row.base + 1 \in 1..Len(git)
      BY <2>2, <2>3, <2>4
    <2>6. Trunk!OnTrunk(m)
      BY <2>2, <2>3, <2>5 DEF Trunk!OnTrunk
    <2> QED BY <1>2, <2>6 DEF Trunk!Delivered
  <1>3. CASE Mode[m] # "git"
    <2>1. PICK s \in Subjects : s \in db.node[m].promoted
      BY <1>1, <1>3 DEF Delivered, NodeOk
    <2>2. <<m, s>> \in ApprovedOf(db.node)
      BY <2>1, ApprovedIn
    <2> QED BY <1>3, <2>2 DEF Trunk!Delivered, ApprovedOf
  <1> QED
    BY <1>2, <1>3

(* The reviews a promotion names endorse its subject.                      *)
LEMMA EndorsedTrunk ==
    ASSUME NEW m \in Milestones, NEW s, NEW named, ReviewSetOk(db, m, s, named)
    PROVE  Trunk!Endorsed(m, s)
  <1>1. ASSUME NEW r \in Roles[m]
        PROVE  \E v \in VerdictsOf(db.node) : v[1] = m /\ v[2] = s /\ v[3] = r /\ v[4]
    <2>1. PICK x \in AcceptedSet(db, m, s) : x.role = r
      BY <1>1 DEF ReviewSetOk
    <2>2. x \in db.node[m].reviews /\ x.s = s /\ IsAccepted(x)
      BY <2>1 DEF AcceptedSet, ReviewsOf
    <2> DEFINE v == <<m, x.s, x.role, IsAccepted(x), IsBlocking(x)>>
    <2>3. v \in VerdictsOf(db.node)
      BY <2>2, VerdictIn
    <2>4. v[1] = m /\ v[2] = s /\ v[3] = r /\ v[4]
      BY <2>1, <2>2
    <2> QED BY <2>3, <2>4
  <1>2. ASSUME NEW v \in VerdictsOf(db.node), v[1] = m, v[2] = s
        PROVE  ~v[5]
    <2>1. PICK y \in Milestones : \E r \in db.node[y].reviews :
             v = <<y, r.s, r.role, IsAccepted(r), IsBlocking(r)>>
      BY <1>2, VerdictIn
    <2>2. PICK x \in db.node[y].reviews :
             v = <<y, x.s, x.role, IsAccepted(x), IsBlocking(x)>>
      BY <2>1
    <2>3. y = m /\ x.s = s
      BY <1>2, <2>2
    <2>4. ~IsBlocking(x)
      BY <2>2, <2>3 DEF ReviewSetOk, ReviewsOf
    <2> QED BY <2>2, <2>4
  <1> QED
    BY <1>1, <1>2 DEF Trunk!Endorsed, VerdictsOf

(* A promotion is an approval.                                             *)
LEMMA ApprovesTrunk ==
    ASSUME Inv, Approves
    PROVE  Trunk!Next \/ UNCHANGED Trunk!vars
  <1>1. /\ git' = git /\ VerdictsOf(db'.node) = VerdictsOf(db.node)
    BY VerdictsStay DEF Approves
  <1>2. CASE \A x \in Milestones : db'.node[x].promoted = db.node[x].promoted
    <2>1. ApprovedOf(db'.node) = ApprovedOf(db.node)
      BY <1>2, ApprovedStay
    <2> QED BY <1>1, <2>1 DEF Trunk!vars, VerdictsOf, ApprovedOf
  <1>3. CASE ~\A x \in Milestones : db'.node[x].promoted = db.node[x].promoted
    <2>0. PICK m \in Milestones \intersect Reach(db), s \in Subjects : \E named :
             /\ ReviewSetOk(db, m, s, named)
             /\ db'.node[m].promoted = db.node[m].promoted \union {s}
             /\ \A x \in Milestones \ {m} :
                   db'.node[x].promoted = db.node[x].promoted
      BY <1>3 DEF Approves, PromotesOne
    <2>1. PICK named :
             /\ ReviewSetOk(db, m, s, named)
             /\ db'.node[m].promoted = db.node[m].promoted \union {s}
             /\ \A x \in Milestones \ {m} :
                   db'.node[x].promoted = db.node[x].promoted
      BY <2>0
    <2>2. ApprovedOf(db'.node) = ApprovedOf(db.node) \union {<<m, s>>}
      <3>1. OnePromoted(db.node, db'.node, m, s)
        BY <2>1 DEF OnePromoted
      <3>2. m \in Milestones
        OBVIOUS
      <3>3. OneApproved(db.node, db'.node, m, s)
        BY <3>1, <3>2, ApprovedGrow
      <3> QED BY <3>3 DEF OneApproved
    <2>3. \A x \in Deps[m] : Trunk!Delivered(x)
      BY <2>1, ModeKnown, DeliveredTrunk DEF Reach
    <2>4. Trunk!Endorsed(m, s)
      BY <2>1, EndorsedTrunk
    <2>5. Trunk!Approve(m, s)
      BY <1>1, <2>2, <2>3, <2>4 DEF Trunk!Approve, VerdictsOf, ApprovedOf
    <2> QED BY <2>1, <2>5 DEF Trunk!Next
  <1> QED
    BY <1>2, <1>3

(* A commit of the program enters the trunk once.                          *)
LEMMA MergesTrunk ==
    ASSUME Inv, Inv', Still(db.node, db'.node), Merges
    PROVE  Trunk!Next
  <1>1. PICK m \in GitMilestones, s \in Subjects :
           s \in db.node[m].promoted /\ git' = Append(git, <<m, s>>)
    BY DEF Merges
  <1>2. /\ VerdictsOf(db'.node) = VerdictsOf(db.node)
        /\ ApprovedOf(db'.node) = ApprovedOf(db.node)
    BY VerdictsStay, ApprovedStay DEF Still
  <1>3. m \in Milestones /\ Mode[m] = "git"
    BY DEF GitMilestones
  <1>4. <<m, s>> \in ApprovedOf(db.node)
    BY <1>1, <1>3, ApprovedIn
  <1>5. ~Trunk!OnTrunk(m)
    <2>1. SUFFICES ASSUME NEW i \in 1..Len(git), NEW t \in Subjects,
                          git[i] = <<m, t>>
                   PROVE  FALSE
      BY DEF Trunk!OnTrunk
    <2>2. git \in Seq((GitMilestones \X Subjects) \union {Foreign})
      BY DEF Inv, TrunkOk
    <2>3. /\ Len(git') = Len(git) + 1 /\ git'[Len(git) + 1] = <<m, s>>
          /\ git'[i] = <<m, t>> /\ Len(git) \in Nat
      BY <1>1, <2>1, <2>2
    <2> DEFINE row == db'.node[m].integ
               h == db'.prog.head
    <2>4. \A j \in 1..Len(git'), u \in Subjects :
             git'[j] = <<m, u>> => Placed(row, h, u, j)
      BY <1>3 DEF Inv, TrunkOk
    <2>5. h \in Nat
      BY DEF Inv, DbOk, ProgOk
    <2> HIDE DEF row, h
    <2>6. Placed(row, h, t, i) /\ Placed(row, h, s, Len(git) + 1)
      BY <2>1, <2>3, <2>4
    <2> QED BY <2>1, <2>3, <2>5, <2>6 DEF Placed
  <1>6. Trunk!Merge(m, s)
    BY <1>1, <1>2, <1>3, <1>4, <1>5 DEF Trunk!Merge, VerdictsOf, ApprovedOf
  <1> QED
    BY <1>3, <1>6 DEF Trunk!Next

(* Others commit to the trunk.                                             *)
LEMMA ForeignTrunk ==
    ASSUME Still(db.node, db'.node), git' = Append(git, Foreign)
    PROVE  Trunk!Next
  <1>1. /\ VerdictsOf(db'.node) = VerdictsOf(db.node)
        /\ ApprovedOf(db'.node) = ApprovedOf(db.node)
    BY VerdictsStay, ApprovedStay DEF Still
  <1>2. Foreign \notin Trunk!Commits
    BY Bounds DEF Foreign, Trunk!Commits
  <1>3. Trunk!Other(Foreign)
    BY <1>1, <1>2 DEF Trunk!Other, VerdictsOf, ApprovedOf
  <1> QED
    BY <1>3 DEF Trunk!Next

(* At the start nothing is judged, approved or merged.                     *)
LEMMA InitTrunk ==
    ASSUME Init
    PROVE  Trunk!Init
  <1>1. \A m \in Milestones :
           db.node[m].reviews = {} /\ db.node[m].promoted = {}
    BY DEF Init, NewMilestone
  <1>2. VerdictsOf(db.node) = {} /\ ApprovedOf(db.node) = {}
    <2>1. \A q : q \notin VerdictsOf(db.node)
      BY <1>1, VerdictIn
    <2>2. \A q : q \notin ApprovedOf(db.node)
      BY <1>1, ApprovedIn
    <2> QED BY <2>1, <2>2
  <1>3. git = <<>>
    BY DEF Init
  <1> QED
    BY <1>2, <1>3 DEF Trunk!Init, VerdictsOf, ApprovedOf

(* A program does what ReviewedTrunk promises: only a subject that every   *)
(* declared reviewer accepted, and whose dependencies were delivered, is   *)
(* promoted, and only a promoted commit enters the trunk, once, whatever   *)
(* crashes, replays, late results and commits of others come in between.   *)
THEOREM ImplementsTrunk == Spec => ImplementsReviewedTrunk
  <1>1. Init => Trunk!Init
    BY InitTrunk
  <1>2. Inv /\ Inv' /\ [Next]_vars => [Trunk!Next]_(Trunk!vars)
    <2>1. SUFFICES ASSUME Inv, [Next]_vars
                   PROVE  Trunk!Next \/ UNCHANGED Trunk!vars
      OBVIOUS
    <2>2. Inv' /\ Moves
      BY <2>1, NextGood DEF GoodStep
    <2>3. CASE Stutters
      <3>1. /\ VerdictsOf(db'.node) = VerdictsOf(db.node)
            /\ ApprovedOf(db'.node) = ApprovedOf(db.node)
        BY <2>3, VerdictsStay, ApprovedStay DEF Stutters, Still
      <3> QED BY <2>3, <3>1 DEF Stutters, Trunk!vars, VerdictsOf, ApprovedOf
    <2> QED
      BY <2>1, <2>2, <2>3, JudgesTrunk, ApprovesTrunk, MergesTrunk, ForeignTrunk
         DEF Moves
  <1> QED
    BY <1>1, <1>2, ProgramInvariant, PTL DEF Spec, ImplementsReviewedTrunk, Trunk!Spec
=============================================================================
