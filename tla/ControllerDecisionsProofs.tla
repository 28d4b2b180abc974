---------------------- MODULE ControllerDecisionsProofs ----------------------
(***************************************************************************)
(* Proofs about ControllerDecisions.                                       *)
(*                                                                         *)
(* The inductive invariant has a part for one decision (RowOK), which the  *)
(* ledger's transactions preserve by themselves, and parts that tie the    *)
(* decisions to the processes that act on them: what a process may still   *)
(* do with the generation, token and thread it remembers (ChildFacts), who *)
(* may read a generation (ReaderFacts), whose thread a generation names    *)
(* (ThreadFacts), and where the harness thread is (PositionFacts,          *)
(* OwedFacts).  Every transaction is first shown to lead from a good row   *)
(* to a good row that keeps what processes rely on (Kept).                 *)
(***************************************************************************)
EXTENDS ControllerDecisions, FiniteSetTheorems, TLAPS

Undelivered == {"pending", "starting", "ambiguous"}

Lost == {"unavailable", "ambiguous"}

\* What only the sequence of transactions guarantees of a row.
RowFacts(b) ==
    /\ b.effects = IF b.effect = "none" THEN 0 ELSE 1
    /\ b.effect = "none" => b.by = 0 /\ ~b.acked
    /\ b.by # 0 => Current(b).thread = b.by
    /\ b.kind = "none" <=> b.token = 0
    /\ b.token <= b.rev
    /\ b.kind = "human" => Current(b).insp \notin {"live", "expired"}
    /\ b.gen = 1 => b.gens[2] = NoGeneration
    /\ b.state = "absent" => b.wake = "absent"
    /\ b.wake = "pending" => b.tries <= 1
    /\ b.wake \in Undelivered =>
          \/ Current(b).state = "prepared"
          \/ Current(b).out \notin {"none", "completed"}

Columns ==
    {"state", "rev", "gen", "kind", "token", "lease", "late", "effect", "by",
     "effects", "acked", "superseded", "wake", "tries", "gens"}

\* BookRow and GenerationRow, column by column.
BookShape(b) == b = [x \in Columns |-> b[x]]

BookColumns(b) ==
    /\ b.state \in DecisionStates /\ b.rev \in Nat /\ b.gen \in 1..2
    /\ b.kind \in {"none", "human", "model"} /\ b.token \in Nat
    /\ b.lease \in {"none", "live", "expired"} /\ b.late \in BOOLEAN
    /\ b.effect \in {"none"} \union Effects /\ b.by \in {0} \union Children
    /\ b.effects \in Nat /\ b.acked \in BOOLEAN /\ b.superseded \in BOOLEAN
    /\ b.wake \in WakeStates /\ b.tries \in 0..2
    /\ b.gens \in [1..2 -> GenerationRow]

TypedBook(b) == BookShape(b) /\ BookColumns(b)

GenerationShape(r) ==
    r = [x \in {"state", "prompt", "thread", "insp", "out", "eff", "rev"}
          |-> r[x]]

GenerationColumns(r) ==
    /\ r.state \in GenerationStates /\ r.prompt \in Nat
    /\ r.thread \in {0} \union Children
    /\ r.insp \in {"none", "live", "expired", "done"}
    /\ r.out \in {"none"} \union InspectionOutcomes
    /\ r.eff \in {"none"} \union Effects /\ r.rev \in Nat

TypedGeneration(r) == GenerationShape(r) /\ GenerationColumns(r)

RowOK(b) == TypedBook(b) /\ BookValid(b) /\ RowFacts(b)

\* The decision was opened and its source task told of it, or it was decided.
Reached(b) ==
    b.state # "absent" /\ (b.wake \notin Undelivered \/ b.effect # "none")

ChildFields ==
    {"d", "mode", "pc", "rev", "gen", "token", "owned", "thread", "eff",
     "waited", "peer", "read", "found"}

ChildShape(c) == c = [x \in ChildFields |-> c[x]]

ChildColumns(c) ==
    /\ c.d \in Decisions /\ c.mode \in {"none", "run", "recover"}
    /\ c.rev \in Nat /\ c.gen \in 0..2 /\ c.token \in Nat
    /\ c.owned \in BOOLEAN
    /\ c.thread \in {"none", "open", "running", "completed", "failed",
                     "interrupted"}
    /\ c.eff \in {"none"} \union Effects /\ c.waited \in BOOLEAN
    /\ c.peer \in {0} \union Children /\ c.read \in 0..2
    /\ c.found \in {"none"} \union InspectionOutcomes

TypedChild(c) == ChildShape(c) /\ ChildColumns(c)

HarnessRow ==
    [at : {"down", "deliver", "wake", "schedule", "launch", "serve"},
     todo : SUBSET Decisions, cur : Decisions,
     mode : {"none", "run", "recover"}, failed : SUBSET Decisions,
     crashes : Nat, humans : Nat]

DispatchRow ==
    [queue : {"active", "attention", "completed", "cancelled"},
     armed : BOOLEAN, source : BOOLEAN]

Typed ==
    /\ book = [d \in Decisions |-> book[d]]
    /\ child = [n \in Children |-> child[n]]
    /\ \A n \in Children : TypedChild(child[n])
    /\ harness \in HarnessRow
    /\ dispatch \in DispatchRow
    /\ held \in [Decisions -> Nat]

\* The process still works with the thread it bound to its generation.
Bound(c) == c.mode = "run" /\ c.pc \in {"turn", "wait", "defer", "renew", "submit"}

\* The process may read, or has read, the thread of generation g.
Reader(c, g) ==
    \/ c.read = g
    \/ c.mode = "recover" /\ c.pc = "inspect" /\ c.gen = g

\* Process n, being as c says, may rely on this of the row b of its decision.
Facts(n, c, b) ==
    /\ c.pc = "unborn" => c = NoChild
    /\ c.pc # "unborn" =>
          /\ c.mode # "none" /\ Reached(b)
          /\ c.mode = "run" => b.wake \notin Undelivered
    /\ c.gen <= b.gen
    /\ c.pc \notin {"unborn", "status"} \union Exited => c.gen # 0
    /\ c.mode = "run" =>
          /\ c.token <= b.rev
          /\ c.token # 0 /\ c.token = b.token => b.kind = "model"
    /\ c.mode = "recover" \/ c.pc = "status" => c.thread = "none"
    /\ c.pc = "bind" => c.thread # "none"
    /\ c.pc = "record" => c.found # "none"
    /\ Bound(c) => c.thread # "none" /\ b.gens[c.gen].thread = n
    /\ \A g \in 1..2 : Reader(c, g) => b.gens[g].insp # "none"

ChildFacts(n) == Facts(n, child[n], book[child[n].d])

ReaderFacts ==
    \A m, n \in Children, g \in 1..2 :
        m # n /\ child[m].d = child[n].d /\ Reader(child[m], g)
        => ~Reader(child[n], g)

\* The thread of a current generation belongs to the process that opened it.
ThreadFacts(d) ==
    LET k == Current(book[d]).thread
    IN  k # 0 => /\ child[k].d = d /\ child[k].gen = book[d].gen
                 /\ child[k].thread # "none"

PositionFacts ==
    /\ harness.at = "wake" => book[harness.cur].wake = "starting"
    /\ harness.at = "launch" =>
          /\ harness.mode # "none"
          /\ Reached(book[harness.cur])
          /\ harness.mode = "run" =>
                book[harness.cur].wake \notin Undelivered

Owed(b) == b.effect # "none" /\ ~b.acked

Attended(d) ==
    \/ d \in Registered \union harness.failed
    \/ Launched = Children
    \/ Current(book[d]).state \in Lost

OwedFacts(d) ==
    Owed(book[d]) =>
        /\ harness.at = "serve" => Attended(d)
        /\ harness.at \in {"schedule", "launch"} =>
              \/ Attended(d)
              \/ d \in harness.todo
              \/ harness.at = "launch" /\ d = harness.cur

\* Decisions are opened in order, the terminal one with the end of the dispatch.
DispatchFacts ==
    /\ dispatch.queue \in {"active", "attention"} => book[0].state = "absent"
    /\ \E k \in 0..MaxCycle : Opened = 1..k

Inv ==
    /\ Typed
    /\ \A d \in Decisions : RowOK(book[d])
    /\ \A n \in Children : ChildFacts(n)
    /\ ReaderFacts
    /\ \A d \in Decisions : ThreadFacts(d) /\ OwedFacts(d)
    /\ PositionFacts
    /\ DispatchFacts

----------------------------------------------------------------------------
(* Transactions on one decision *)

\* A transaction never takes away what processes and people rely on.
Kept(b, c) ==
    /\ c.state = "absent" <=> b.state = "absent"
    /\ b.gen <= c.gen /\ b.rev <= c.rev
    /\ Reached(b) => Reached(c)
    /\ b.wake \notin Undelivered => c.wake \notin Undelivered
    /\ \A g \in 1..2 :
          /\ b.gens[g].insp # "none" => c.gens[g].insp # "none"
          /\ b.gens[g].thread # 0 => c.gens[g].thread = b.gens[g].thread
    /\ \/ c.token = 0
       \/ c.token = b.token /\ c.kind = b.kind
       \/ b.rev < c.token /\ c.token <= c.rev
    /\ b.effect # "none" =>
          /\ c.effect = b.effect /\ c.by = b.by
          /\ b.acked => c.acked
          /\ Current(b).state \in Lost => Current(c).state \in Lost
    /\ b.kind = "human" /\ b.lease = "live" =>
          /\ c.by = 0 /\ c.gen = b.gen
          /\ \/ c.kind = "human"
             \/ Current(c).state = "failed" /\ Current(c).thread = 0

\* It names no new thread, and commits no effect.
SameThread(b, c) ==
    Current(c).thread # 0 =>
        c.gen = b.gen /\ Current(c).thread = Current(b).thread

Calm(b, c) == SameThread(b, c) /\ (Owed(c) => Owed(b))

Sound(b, c) == RowOK(c) /\ Kept(b, c) /\ SameThread(b, c)

Good(b, c) == RowOK(c) /\ Kept(b, c) /\ Calm(b, c)

(* The columns say what BookRow and GenerationRow say.                     *)
LEMMA BookTyped == ASSUME NEW b PROVE TypedBook(b) <=> b \in BookRow
  <1>1. TypedBook(b) => b \in BookRow
    BY DEF TypedBook, BookShape, BookColumns, BookRow, Columns
  <1>2. b \in BookRow => TypedBook(b)
    BY DEF TypedBook, BookShape, BookColumns, BookRow, Columns
  <1>3. QED
    BY <1>1, <1>2

(* A generation's row as the set of its columns' values. *)
LEMMA GenerationTyped ==
    ASSUME NEW r PROVE TypedGeneration(r) <=> r \in GenerationRow
  <1>1. TypedGeneration(r) => r \in GenerationRow
    BY DEF TypedGeneration, GenerationShape, GenerationColumns, GenerationRow
  <1>2. r \in GenerationRow => TypedGeneration(r)
    BY DEF TypedGeneration, GenerationShape, GenerationColumns, GenerationRow
  <1>3. QED
    BY <1>1, <1>2

(* A decision has two generations, and the current one is one of them. *)
LEMMA CurrentTyped ==
    ASSUME NEW b, TypedBook(b)
    PROVE  b.gen \in {1, 2} /\ \A g \in 1..2 : TypedGeneration(b.gens[g])
  BY GenerationTyped DEF TypedBook, BookShape, BookColumns

(* What a process copies of a decision's row is in the range of its own columns. *)
LEMMA RowRange ==
    ASSUME NEW b, RowOK(b)
    PROVE  b.rev \in Nat /\ b.gen \in 1..2 /\ b.gen # 0 /\ b.token \in Nat
  BY DEF RowOK, TypedBook, BookColumns

(* A process at work has copied a generation, and binds it only to a thread it has. *)
LEMMA CopiedGeneration ==
    ASSUME NEW n, NEW c, NEW b, TypedChild(c), Facts(n, c, b),
           c.pc \notin {"unborn", "status"} \union Exited
    PROVE  /\ c.gen \in {1, 2}
           /\ c.pc = "bind" => c.thread # "none"
           /\ c.mode = "recover" => c.thread = "none"
  BY DEF Facts, TypedChild, ChildColumns

(* A transaction that changes nothing.                                     *)
LEMMA SameRow ==
    ASSUME NEW b, RowOK(b)
    PROVE  Good(b, b)
  <1>1. b.gen \in Nat /\ b.rev \in Nat
    BY DEF RowOK, TypedBook, BookColumns
  <1>2. Kept(b, b)
    BY <1>1 DEF Kept, RowOK, RowFacts, BookValid
  <1>3. QED
    BY <1>2 DEF Good, Calm, SameThread

(* Claiming hands out a token nobody has.                                  *)
LEMMA ClaimRow ==
    ASSUME NEW b, RowOK(b), NEW kind \in {"human", "model"},
           NEW rev, NEW g, ClaimOk(b, kind, rev, g), BookValid(Claim(b, kind))
    PROVE  /\ Good(b, Claim(b, kind))
           /\ Claim(b, kind).token = b.rev + 1 /\ Claim(b, kind).rev = b.rev + 1
           /\ Claim(b, kind).kind = kind /\ Claim(b, kind).gen = b.gen
           /\ b.wake \in Undelivered /\ kind = "model"
                => b.state # "pending_delivery"
  <1>0. TypedBook(b)
    BY DEF RowOK
  <1>1. TypedBook(Claim(b, kind))
    <2>1. BookShape(Claim(b, kind))
      BY <1>0 DEF Claim, TypedBook, BookShape, Columns
    <2>2. BookColumns(Claim(b, kind))
      BY <1>0 DEF Claim, TypedBook, BookShape, BookColumns, Columns, DecisionStates, WakeStates
    <2>3. QED
      BY <2>1, <2>2 DEF TypedBook
  <1>2. RowFacts(Claim(b, kind))
    BY
       DEF Claim, ClaimOk, RowOK, RowFacts, TypedBook, BookShape, BookColumns, Columns, Current,
           Undelivered
  <1>3. Kept(b, Claim(b, kind)) /\ Calm(b, Claim(b, kind))
    BY
       DEF Claim, ClaimOk, Kept, Calm, SameThread, RowOK, RowFacts, BookValid, TypedBook,
           BookShape, BookColumns, Columns,
           Current, Undelivered, Reached, Owed, Lost
  <1>4. QED
    BY <1>1, <1>2, <1>3
       DEF Claim, ClaimOk, Good, RowOK, TypedBook, BookShape, BookColumns, Columns, Undelivered

(* Renewing and deferring a claim.                                         *)
LEMMA RenewRow ==
    ASSUME NEW b, RowOK(b), NEW token, NEW rev, RenewOk(b, token, rev),
           BookValid(Renew(b))
    PROVE  Good(b, Renew(b))
  <1>0. TypedBook(b)
    BY DEF RowOK
  <1>1. TypedBook(Renew(b))
    <2>1. BookShape(Renew(b))
      BY <1>0 DEF Renew, TypedBook, BookShape, Columns
    <2>2. BookColumns(Renew(b))
      BY <1>0 DEF Renew, TypedBook, BookShape, BookColumns, Columns
    <2>3. QED
      BY <2>1, <2>2 DEF TypedBook
  <1>2. RowFacts(Renew(b))
    BY
       DEF Renew, RenewOk, RowOK, RowFacts, TypedBook, BookShape, BookColumns, Columns, Current,
           Undelivered
  <1>3. Kept(b, Renew(b)) /\ Calm(b, Renew(b))
    BY
       DEF Renew, RenewOk, Kept, Calm, SameThread, RowOK, RowFacts, BookValid, TypedBook,
           BookShape, BookColumns, Columns,
           Current, Undelivered, Reached, Owed, Lost
  <1>4. QED
    BY <1>1, <1>2, <1>3 DEF Good, RowOK

(* A deferred claim keeps its owner and has its lease renewed. *)
LEMMA DeferRow ==
    ASSUME NEW b, RowOK(b), NEW g, NEW token, NEW rev,
           DeferOk(b, g, token, rev), BookValid(Defer(b))
    PROVE  Good(b, Defer(b))
  <1>0. TypedBook(b)
    BY DEF RowOK
  <1>1. TypedBook(Defer(b))
    <2>1. BookShape(Defer(b))
      BY <1>0 DEF Defer, TypedBook, BookShape, Columns
    <2>2. BookColumns(Defer(b))
      BY <1>0 DEF Defer, TypedBook, BookShape, BookColumns, Columns
    <2>3. QED
      BY <2>1, <2>2 DEF TypedBook
  <1>2. RowFacts(Defer(b))
    BY
       DEF Defer, DeferOk, RenewOk, RowOK, RowFacts, TypedBook, BookShape, BookColumns, Columns,
           Current,
           Undelivered
  <1>3. Kept(b, Defer(b)) /\ Calm(b, Defer(b))
    BY DEF Defer, DeferOk, RenewOk, Kept, Calm, SameThread, RowOK, RowFacts, BookValid,
           TypedBook, BookShape, BookColumns, Columns, Current, Undelivered, Reached, Owed, Lost
  <1>4. QED
    BY <1>1, <1>2, <1>3 DEF Good, RowOK

(* Preparing a generation for its process.                                 *)
LEMMA PrepareRow ==
    ASSUME NEW b, RowOK(b), NEW prompt \in Nat,
           b.state \in {"claimed", "awaiting_claim"},
           b.wake \notin Undelivered,
           Current(b).state \in {"prepared", "delivery_starting"}
    PROVE  Good(b, Prepare(b, prompt))
  <1> DEFINE r == [Current(b) EXCEPT !.state = "delivery_starting",
                                !.prompt = IF prompt # 0 THEN prompt ELSE @]
             c == Prepare(b, prompt)
  <1>1. TypedBook(b) /\ b.gen \in {1, 2} /\ TypedGeneration(b.gens[b.gen])
    BY CurrentTyped DEF RowOK
  <1>2. TypedGeneration(r)
    <2>1. GenerationShape(r)
      BY <1>1 DEF TypedGeneration, GenerationShape, Current
    <2>2. GenerationColumns(r)
      BY <1>1 DEF TypedGeneration, GenerationShape, GenerationColumns,
         Current, GenerationStates, InspectionOutcomes, TypedBook,
         BookColumns
    <2>3. QED
      BY <2>1, <2>2 DEF TypedGeneration
  <1>3. /\ r.state = "delivery_starting" /\ r.thread = Current(b).thread
        /\ r.insp = Current(b).insp /\ r.out = Current(b).out
        /\ r.eff = Current(b).eff /\ r.rev = Current(b).rev
    BY <1>1 DEF TypedGeneration, GenerationShape, Current
  <1>4. /\ BookShape(c) /\ c.gens = [b.gens EXCEPT ![b.gen] = r]
        /\ c.state = b.state /\ c.rev = b.rev /\ c.gen = b.gen
        /\ c.kind = b.kind /\ c.token = b.token /\ c.lease = b.lease
        /\ c.late = b.late /\ c.effect = b.effect /\ c.by = b.by
        /\ c.effects = b.effects /\ c.acked = b.acked
        /\ c.superseded = b.superseded /\ c.wake = b.wake
        /\ c.tries = b.tries
    BY <1>1 DEF Prepare, TypedBook, BookShape, Columns, Current, SetGen
  <1> HIDE DEF r, c
  <1>5. /\ c.gens \in [1..2 -> GenerationRow]
        /\ c.gens[b.gen] = r /\ \A h \in 1..2 : h # b.gen => c.gens[h] = b.gens[h]
    BY <1>1, <1>2, <1>4, GenerationTyped DEF TypedBook, BookColumns
  <1>6. TypedBook(c)
    BY <1>1, <1>4, <1>5 DEF TypedBook, BookColumns, DecisionStates,
       WakeStates, Prepare
  <1>7. BookValid(c)
    BY SMTT(30), <1>1, <1>3, <1>4, <1>5, CurrentTyped DEF Prepare, BookValid,
       TypedBook, BookColumns, RowOK, RowFacts, Undelivered, Current,
       TypedGeneration, GenerationColumns, InspectionOutcomes,
       GenerationStates, NoGeneration, WakeStates
  <1>8. RowFacts(c)
    BY <1>1, <1>3, <1>4, <1>5, <1>7 DEF RowOK, RowFacts, BookValid,
       TypedBook, BookColumns, Current, Undelivered
  <1>9. Kept(b, c)
    BY <1>1, <1>3, <1>4, <1>5, <1>7 DEF Kept, RowOK, RowFacts, BookValid,
       TypedBook, BookColumns, Current, Undelivered, Reached, Lost,
       NoGeneration
  <1>10. Calm(b, c)
    BY <1>1, <1>3, <1>4, <1>5, <1>7 DEF Calm, SameThread, Owed, Current,
       RowOK, BookValid, RowFacts, NoGeneration
  <1>11. QED
    BY <1>6, <1>7, <1>8, <1>9, <1>10 DEF Good, RowOK, c

(* A generation without a thread gets one, of the process that asks.       *)
LEMMA BindRow ==
    ASSUME NEW b, RowOK(b), NEW n \in Children,
           NEW g,
           BindThreadOk(b, g, n),
           Current(b).thread # n,
           BookValid(BindThread(b, n))
    PROVE  /\ RowOK(BindThread(b, n)) /\ Kept(b, BindThread(b, n))
           /\ Current(BindThread(b, n)).thread = n
           /\ BindThread(b, n).gen = b.gen
           /\ Owed(BindThread(b, n)) <=> Owed(b)
  <1> DEFINE r == [Current(b) EXCEPT !.state = "active", !.thread = n]
             c == BindThread(b, n)
  <1>1. TypedBook(b) /\ b.gen \in {1, 2} /\ TypedGeneration(b.gens[b.gen])
    BY CurrentTyped DEF RowOK
  <1>2. TypedGeneration(r)
    <2>1. GenerationShape(r)
      BY <1>1 DEF TypedGeneration, GenerationShape, Current
    <2>2. GenerationColumns(r)
      BY <1>1 DEF TypedGeneration, GenerationShape, GenerationColumns,
         Current, GenerationStates, InspectionOutcomes, TypedBook,
         BookColumns
    <2>3. QED
      BY <2>1, <2>2 DEF TypedGeneration
  <1>3. /\ r.state = "active" /\ r.prompt = Current(b).prompt
        /\ r.thread = n /\ r.insp = Current(b).insp
        /\ r.out = Current(b).out /\ r.eff = Current(b).eff
        /\ r.rev = Current(b).rev
    BY <1>1 DEF TypedGeneration, GenerationShape, Current
  <1>4. /\ BookShape(c) /\ c.gens = [b.gens EXCEPT ![b.gen] = r]
        /\ c.state = b.state /\ c.rev = b.rev /\ c.gen = b.gen
        /\ c.kind = b.kind /\ c.token = b.token /\ c.lease = b.lease
        /\ c.late = b.late /\ c.effect = b.effect /\ c.by = b.by
        /\ c.effects = b.effects /\ c.acked = b.acked
        /\ c.superseded = b.superseded /\ c.wake = b.wake
        /\ c.tries = b.tries
    BY <1>1 DEF BindThread, BindThreadOk, TypedBook, BookShape, Columns,
       Current, SetGen
  <1> HIDE DEF r, c
  <1>5. /\ c.gens \in [1..2 -> GenerationRow]
        /\ c.gens[b.gen] = r /\ \A h \in 1..2 : h # b.gen => c.gens[h] = b.gens[h]
    BY <1>1, <1>2, <1>4, GenerationTyped DEF TypedBook, BookColumns
  <1>6. TypedBook(c)
    BY <1>1, <1>4, <1>5 DEF TypedBook, BookColumns, DecisionStates,
       WakeStates, BindThread, BindThreadOk
  <1>7. BookValid(c)
    BY DEF c
  <1>8. RowFacts(c)
    BY SMTT(30), <1>1, <1>3, <1>4, <1>5, <1>7 DEF BindThreadOk, RowOK,
       RowFacts, BookValid, TypedBook, BookColumns, Current, Undelivered
  <1>9. Kept(b, c)
    BY SMTT(30), <1>1, <1>3, <1>4, <1>5, <1>7 DEF BindThreadOk, Kept, RowOK,
       RowFacts, BookValid, TypedBook, BookColumns, Current, Undelivered,
       Reached, Lost, NoGeneration
  <1>11. QED
    BY <1>1, <1>3, <1>4, <1>5, <1>6, <1>7, <1>8, <1>9 DEF BindThread,
       BindThreadOk, RowOK, Current, Owed, c

(* A process reports how its generation ended.                             *)
LEMMA CompleteRow ==
    ASSUME NEW b, RowOK(b), NEW outcome \in InspectionOutcomes,
           NEW g,
           CompleteOk(b, g, outcome),
           b.wake \notin Undelivered,
           BookValid(Complete(b, outcome))
    PROVE  Good(b, Complete(b, outcome))
  <1> DEFINE r == [Current(b) EXCEPT !.state = outcome]
             c == Complete(b, outcome)
  <1>1. TypedBook(b) /\ b.gen \in {1, 2} /\ TypedGeneration(b.gens[b.gen])
    BY CurrentTyped DEF RowOK
  <1>2. TypedGeneration(r)
    <2>1. GenerationShape(r)
      BY <1>1 DEF TypedGeneration, GenerationShape, Current
    <2>2. GenerationColumns(r)
      BY <1>1 DEF TypedGeneration, GenerationShape, GenerationColumns,
         Current, GenerationStates, InspectionOutcomes, TypedBook,
         BookColumns
    <2>3. QED
      BY <2>1, <2>2 DEF TypedGeneration
  <1>3. /\ r.state = outcome /\ r.prompt = Current(b).prompt
        /\ r.thread = Current(b).thread /\ r.insp = Current(b).insp
        /\ r.out = Current(b).out /\ r.eff = Current(b).eff
        /\ r.rev = Current(b).rev
    BY <1>1 DEF TypedGeneration, GenerationShape, Current
  <1>4. /\ BookShape(c) /\ c.gens = [b.gens EXCEPT ![b.gen] = r]
        /\ c.state = b.state /\ c.rev = b.rev /\ c.gen = b.gen
        /\ c.kind = b.kind /\ c.token = b.token /\ c.lease = b.lease
        /\ c.late = b.late /\ c.effect = b.effect /\ c.by = b.by
        /\ c.effects = b.effects /\ c.acked = b.acked
        /\ c.superseded = b.superseded /\ c.wake = b.wake
        /\ c.tries = b.tries
    BY <1>1 DEF Complete, CompleteOk, OpenGeneration, TypedBook, BookShape,
       Columns, Current, SetGen
  <1> HIDE DEF r, c
  <1>5. /\ c.gens \in [1..2 -> GenerationRow]
        /\ c.gens[b.gen] = r /\ \A h \in 1..2 : h # b.gen => c.gens[h] = b.gens[h]
    BY <1>1, <1>2, <1>4, GenerationTyped DEF TypedBook, BookColumns
  <1>6. TypedBook(c)
    BY <1>1, <1>4, <1>5 DEF TypedBook, BookColumns, DecisionStates,
       WakeStates, Complete, CompleteOk, OpenGeneration
  <1>7. BookValid(c)
    BY DEF c
  <1>8. RowFacts(c)
    BY <1>1, <1>3, <1>4, <1>5, <1>7 DEF CompleteOk, OpenGeneration, RowOK,
       RowFacts, BookValid, TypedBook, BookColumns, Current, Undelivered
  <1>9. Kept(b, c)
    BY <1>1, <1>3, <1>4, <1>5, <1>7 DEF CompleteOk, OpenGeneration, Kept,
       RowOK, RowFacts, BookValid, TypedBook, BookColumns, Current,
       Undelivered, Reached, Lost, NoGeneration
  <1>10. Calm(b, c)
    BY <1>1, <1>3, <1>4, <1>5, <1>7 DEF CompleteOk, OpenGeneration, Calm,
       SameThread, Owed, Current, RowOK, BookValid, RowFacts, NoGeneration
  <1>11. QED
    BY <1>6, <1>7, <1>8, <1>9, <1>10 DEF Good, RowOK, c

(* A claim is given back before there was a thread.                        *)
LEMMA ResetRow ==
    ASSUME NEW b, RowOK(b), NEW g \in {1, 2}, NEW rev, NEW token,
           ResetOk(b, g, rev, token),
           BookValid(Reset(b, g))
    PROVE  Good(b, Reset(b, g))
  <1> DEFINE r == [b.gens[g] EXCEPT !.state = "prepared"]
             c == Reset(b, g)
  <1>1. TypedBook(b) /\ g \in {1, 2} /\ TypedGeneration(b.gens[g])
    BY CurrentTyped DEF RowOK
  <1>2. TypedGeneration(r)
    <2>1. GenerationShape(r)
      BY <1>1 DEF TypedGeneration, GenerationShape, Current
    <2>2. GenerationColumns(r)
      BY <1>1 DEF TypedGeneration, GenerationShape, GenerationColumns,
         Current, GenerationStates, InspectionOutcomes, TypedBook,
         BookColumns
    <2>3. QED
      BY <2>1, <2>2 DEF TypedGeneration
  <1>3. /\ r.state = "prepared" /\ r.prompt = b.gens[g].prompt
        /\ r.thread = b.gens[g].thread /\ r.insp = b.gens[g].insp
        /\ r.out = b.gens[g].out /\ r.eff = b.gens[g].eff
        /\ r.rev = b.gens[g].rev
    BY <1>1 DEF TypedGeneration, GenerationShape, Current
  <1>4. /\ BookShape(c) /\ c.gens = [b.gens EXCEPT ![g] = r]
        /\ c.state = (IF b.state = "claimed" THEN "awaiting_claim" ELSE b.state)
        /\ c.rev = (IF b.state = "claimed" THEN b.rev + 1 ELSE b.rev)
        /\ c.gen = b.gen
        /\ c.kind = (IF b.state = "claimed" THEN "none" ELSE b.kind)
        /\ c.token = (IF b.state = "claimed" THEN 0 ELSE b.token)
        /\ c.lease = (IF b.state = "claimed" THEN "none" ELSE b.lease)
        /\ c.late = b.late /\ c.effect = b.effect /\ c.by = b.by
        /\ c.effects = b.effects /\ c.acked = b.acked
        /\ c.superseded = b.superseded /\ c.wake = b.wake
        /\ c.tries = b.tries
    BY ZenonT(30), <1>1 DEF Reset, ResetOk, Unclaimed, TypedBook, BookShape, Columns,
       Current, SetGen
  <1> HIDE DEF r, c
  <1>5. /\ c.gens \in [1..2 -> GenerationRow]
        /\ c.gens[g] = r /\ \A h \in 1..2 : h # g => c.gens[h] = b.gens[h]
    BY <1>1, <1>2, <1>4, GenerationTyped DEF TypedBook, BookColumns
  <1>6. TypedBook(c)
    BY <1>1, <1>4, <1>5 DEF TypedBook, BookColumns, DecisionStates,
       WakeStates, Reset, ResetOk, Unclaimed
  <1>7. BookValid(c)
    BY DEF c
  <1>8. RowFacts(c)
    BY SMTT(30), <1>1, <1>3, <1>4, <1>5, <1>7 DEF ResetOk, NoGeneration,
       RowOK, RowFacts, BookValid, TypedBook, BookColumns, Current,
       Undelivered
  <1>9. Kept(b, c)
    BY SMTT(30), <1>1, <1>3, <1>4, <1>5, <1>7 DEF ResetOk, Kept, RowOK,
       RowFacts, BookValid, TypedBook, BookColumns, Current, Undelivered,
       Reached, Lost, NoGeneration
  <1>10. Calm(b, c)
    BY SMTT(30), <1>1, <1>3, <1>4, <1>5, <1>7 DEF ResetOk, Calm, SameThread,
       Owed, Current, RowOK, BookValid, RowFacts, NoGeneration
  <1>11. QED
    BY <1>6, <1>7, <1>8, <1>9, <1>10 DEF Good, RowOK, c

(* A failed profile check closes a generation without a thread.            *)
LEMMA DriftRow ==
    ASSUME NEW b, RowOK(b),
           ProfileDriftOk(b),
           b.state # "human_attention_required",
           BookValid(ProfileDrift(b))
    PROVE  Good(b, ProfileDrift(b))
  <1> DEFINE r == [Current(b) EXCEPT !.state = "failed"]
             c == ProfileDrift(b)
  <1>1. TypedBook(b) /\ b.gen \in {1, 2} /\ TypedGeneration(b.gens[b.gen])
    BY CurrentTyped DEF RowOK
  <1>2. TypedGeneration(r)
    <2>1. GenerationShape(r)
      BY <1>1 DEF TypedGeneration, GenerationShape, Current
    <2>2. GenerationColumns(r)
      BY <1>1 DEF TypedGeneration, GenerationShape, GenerationColumns,
         Current, GenerationStates, InspectionOutcomes, TypedBook,
         BookColumns
    <2>3. QED
      BY <2>1, <2>2 DEF TypedGeneration
  <1>3. /\ r.state = "failed" /\ r.prompt = Current(b).prompt
        /\ r.thread = Current(b).thread /\ r.insp = Current(b).insp
        /\ r.out = Current(b).out /\ r.eff = Current(b).eff
        /\ r.rev = Current(b).rev
    BY <1>1 DEF TypedGeneration, GenerationShape, Current
  <1>4. /\ BookShape(c) /\ c.gens = [b.gens EXCEPT ![b.gen] = r]
        /\ c.state = "human_attention_required" /\ c.rev = b.rev + 1
        /\ c.gen = b.gen /\ c.kind = "none" /\ c.token = 0
        /\ c.lease = "none" /\ c.late = b.late /\ c.effect = b.effect
        /\ c.by = b.by /\ c.effects = b.effects /\ c.acked = b.acked
        /\ c.superseded = b.superseded /\ c.wake = b.wake
        /\ c.tries = b.tries
    BY <1>1 DEF ProfileDrift, ProfileDriftOk, Complete, Unclaimed,
       TypedBook, BookShape, Columns, Current, SetGen
  <1> HIDE DEF r, c
  <1>5. /\ c.gens \in [1..2 -> GenerationRow]
        /\ c.gens[b.gen] = r /\ \A h \in 1..2 : h # b.gen => c.gens[h] = b.gens[h]
    BY <1>1, <1>2, <1>4, GenerationTyped DEF TypedBook, BookColumns
  <1>6. TypedBook(c)
    BY <1>1, <1>4, <1>5 DEF TypedBook, BookColumns, DecisionStates,
       WakeStates, ProfileDrift, ProfileDriftOk, Complete, Unclaimed
  <1>7. BookValid(c)
    BY DEF c
  <1>8. RowFacts(c)
    BY SMTT(30), <1>1, <1>3, <1>4, <1>5, <1>7 DEF ProfileDriftOk, RowOK,
       RowFacts, BookValid, TypedBook, BookColumns, Current, Undelivered
  <1>9. Kept(b, c)
    BY SMTT(30), <1>1, <1>3, <1>4, <1>5, <1>7 DEF ProfileDriftOk, Kept,
       RowOK, RowFacts, BookValid, TypedBook, BookColumns, Current,
       Undelivered, Reached, Lost, NoGeneration
  <1>10. Calm(b, c)
    BY SMTT(30), <1>1, <1>3, <1>4, <1>5, <1>7 DEF ProfileDriftOk, Calm,
       SameThread, Owed, Current, RowOK, BookValid, RowFacts, NoGeneration
  <1>11. QED
    BY <1>6, <1>7, <1>8, <1>9, <1>10 DEF Good, RowOK, c

(* The service refresh reopens what a profile drift closed.                *)
LEMMA RefreshRow ==
    ASSUME NEW b, RowOK(b),
           RefreshOk(b)
    PROVE  Good(b, Refresh(b))
  <1> DEFINE r == [Current(b) EXCEPT !.state = "prepared"]
             c == Refresh(b)
  <1>1. TypedBook(b) /\ b.gen \in {1, 2} /\ TypedGeneration(b.gens[b.gen])
    BY CurrentTyped DEF RowOK
  <1>2. TypedGeneration(r)
    <2>1. GenerationShape(r)
      BY <1>1 DEF TypedGeneration, GenerationShape, Current
    <2>2. GenerationColumns(r)
      BY <1>1 DEF TypedGeneration, GenerationShape, GenerationColumns,
         Current, GenerationStates, InspectionOutcomes, TypedBook,
         BookColumns
    <2>3. QED
      BY <2>1, <2>2 DEF TypedGeneration
  <1>3. /\ r.state = "prepared" /\ r.prompt = Current(b).prompt
        /\ r.thread = Current(b).thread /\ r.insp = Current(b).insp
        /\ r.out = Current(b).out /\ r.eff = Current(b).eff
        /\ r.rev = Current(b).rev
    BY <1>1 DEF TypedGeneration, GenerationShape, Current
  <1>4. /\ BookShape(c) /\ c.gens = [b.gens EXCEPT ![b.gen] = r]
        /\ c.state = "awaiting_claim" /\ c.rev = b.rev + 1 /\ c.gen = b.gen
        /\ c.kind = b.kind /\ c.token = b.token /\ c.lease = b.lease
        /\ c.late = FALSE /\ c.effect = b.effect /\ c.by = b.by
        /\ c.effects = b.effects /\ c.acked = b.acked
        /\ c.superseded = b.superseded /\ c.wake = b.wake
        /\ c.tries = b.tries /\ c.late \in BOOLEAN
    BY <1>1 DEF Refresh, RefreshOk, Complete, TypedBook, BookShape, Columns,
       Current, SetGen
  <1> HIDE DEF r, c
  <1>5. /\ c.gens \in [1..2 -> GenerationRow]
        /\ c.gens[b.gen] = r /\ \A h \in 1..2 : h # b.gen => c.gens[h] = b.gens[h]
    BY <1>1, <1>2, <1>4, GenerationTyped DEF TypedBook, BookColumns
  <1>6. TypedBook(c)
    BY <1>1, <1>4, <1>5 DEF TypedBook, BookColumns, DecisionStates,
       WakeStates
  <1>7. BookValid(c)
    BY <1>1, <1>3, <1>4, <1>5, CurrentTyped DEF Refresh, RefreshOk,
       Complete, BookValid, TypedBook, BookColumns, RowOK, RowFacts,
       Undelivered, Current, TypedGeneration, GenerationColumns,
       InspectionOutcomes, GenerationStates, NoGeneration, WakeStates
  <1>8. RowFacts(c)
    BY <1>1, <1>3, <1>4, <1>5, <1>7 DEF RefreshOk, RowOK, RowFacts,
       BookValid, TypedBook, BookColumns, Current, Undelivered
  <1>9. Kept(b, c)
    BY <1>1, <1>3, <1>4, <1>5, <1>7 DEF RefreshOk, Kept, RowOK, RowFacts,
       BookValid, TypedBook, BookColumns, Current, Undelivered, Reached,
       Lost, NoGeneration
  <1>10. Calm(b, c)
    BY <1>1, <1>3, <1>4, <1>5, <1>7 DEF RefreshOk, Calm, SameThread, Owed,
       Current, RowOK, BookValid, RowFacts, NoGeneration
  <1>11. QED
    BY <1>6, <1>7, <1>8, <1>9, <1>10 DEF Good, RowOK, c

(* An ambiguous generation is handed to a human.                           *)
LEMMA AmbiguousRow ==
    ASSUME NEW b, RowOK(b),
           b.kind # "human",
           BookValid(Ambiguous(b))
    PROVE  Good(b, Ambiguous(b))
  <1> DEFINE r == [Current(b) EXCEPT !.state = "ambiguous", !.insp = "done",
                                !.out = "ambiguous"]
             c == Ambiguous(b)
  <1>1. TypedBook(b) /\ b.gen \in {1, 2} /\ TypedGeneration(b.gens[b.gen])
    BY CurrentTyped DEF RowOK
  <1>2. TypedGeneration(r)
    <2>1. GenerationShape(r)
      BY <1>1 DEF TypedGeneration, GenerationShape, Current
    <2>2. GenerationColumns(r)
      BY <1>1 DEF TypedGeneration, GenerationShape, GenerationColumns,
         Current, GenerationStates, InspectionOutcomes, TypedBook,
         BookColumns
    <2>3. QED
      BY <2>1, <2>2 DEF TypedGeneration
  <1>3. /\ r.state = "ambiguous" /\ r.prompt = Current(b).prompt
        /\ r.thread = Current(b).thread /\ r.insp = "done"
        /\ r.out = "ambiguous" /\ r.eff = Current(b).eff
        /\ r.rev = Current(b).rev
    BY <1>1 DEF TypedGeneration, GenerationShape, Current
  <1>4. /\ BookShape(c) /\ c.gens = [b.gens EXCEPT ![b.gen] = r]
        /\ c.state = "human_attention_required" /\ c.rev = b.rev + 1
        /\ c.gen = b.gen /\ c.kind = "none" /\ c.token = 0
        /\ c.lease = "none" /\ c.late = b.late /\ c.effect = b.effect
        /\ c.by = b.by /\ c.effects = b.effects /\ c.acked = b.acked
        /\ c.superseded = b.superseded /\ c.wake = b.wake
        /\ c.tries = b.tries
    BY <1>1 DEF Ambiguous, Unclaimed, TypedBook, BookShape, Columns,
       Current, SetGen
  <1> HIDE DEF r, c
  <1>5. /\ c.gens \in [1..2 -> GenerationRow]
        /\ c.gens[b.gen] = r /\ \A h \in 1..2 : h # b.gen => c.gens[h] = b.gens[h]
    BY <1>1, <1>2, <1>4, GenerationTyped DEF TypedBook, BookColumns
  <1>6. TypedBook(c)
    BY <1>1, <1>4, <1>5 DEF TypedBook, BookColumns, DecisionStates,
       WakeStates, Ambiguous, Unclaimed
  <1>7. BookValid(c)
    BY DEF c
  <1>8. RowFacts(c)
    BY SMTT(30), <1>1, <1>3, <1>4, <1>5, <1>7 DEF RowOK, RowFacts,
       BookValid, TypedBook, BookColumns, Current, Undelivered
  <1>9. Kept(b, c)
    BY SMTT(30), <1>1, <1>3, <1>4, <1>5, <1>7 DEF Kept, RowOK, RowFacts,
       BookValid, TypedBook, BookColumns, Current, Undelivered, Reached,
       Lost, NoGeneration
  <1>10. Calm(b, c)
    BY SMTT(30), <1>1, <1>3, <1>4, <1>5, <1>7 DEF Calm, SameThread, Owed,
       Current, RowOK, BookValid, RowFacts, NoGeneration
  <1>11. QED
    BY <1>6, <1>7, <1>8, <1>9, <1>10 DEF Good, RowOK, c

(* The one inspection of a generation is reserved.                         *)
LEMMA ReserveRow ==
    ASSUME NEW b, RowOK(b),
           ReserveOk(b),
           BookValid(Reserve(b))
    PROVE  Good(b, Reserve(b))
  <1> DEFINE r == [Current(b) EXCEPT !.insp = IF b.late THEN "expired" ELSE "live"]
             c == Reserve(b)
  <1>1. TypedBook(b) /\ b.gen \in {1, 2} /\ TypedGeneration(b.gens[b.gen])
    BY CurrentTyped DEF RowOK
  <1>2. TypedGeneration(r)
    <2>1. GenerationShape(r)
      BY <1>1 DEF TypedGeneration, GenerationShape, Current
    <2>2. GenerationColumns(r)
      BY <1>1 DEF TypedGeneration, GenerationShape, GenerationColumns,
         Current, GenerationStates, InspectionOutcomes, TypedBook,
         BookColumns
    <2>3. QED
      BY <2>1, <2>2 DEF TypedGeneration
  <1>3. /\ r.state = Current(b).state /\ r.prompt = Current(b).prompt
        /\ r.thread = Current(b).thread
        /\ r.insp = (IF b.late THEN "expired" ELSE "live")
        /\ r.out = Current(b).out /\ r.eff = Current(b).eff
        /\ r.rev = Current(b).rev
    BY <1>1 DEF TypedGeneration, GenerationShape, Current
  <1>4. /\ BookShape(c) /\ c.gens = [b.gens EXCEPT ![b.gen] = r]
        /\ c.state = b.state /\ c.rev = b.rev /\ c.gen = b.gen
        /\ c.kind = b.kind /\ c.token = b.token /\ c.lease = b.lease
        /\ c.late = b.late /\ c.effect = b.effect /\ c.by = b.by
        /\ c.effects = b.effects /\ c.acked = b.acked
        /\ c.superseded = b.superseded /\ c.wake = b.wake
        /\ c.tries = b.tries
    BY <1>1 DEF Reserve, ReserveOk, TypedBook, BookShape, Columns, Current,
       SetGen
  <1> HIDE DEF r, c
  <1>5. /\ c.gens \in [1..2 -> GenerationRow]
        /\ c.gens[b.gen] = r /\ \A h \in 1..2 : h # b.gen => c.gens[h] = b.gens[h]
    BY <1>1, <1>2, <1>4, GenerationTyped DEF TypedBook, BookColumns
  <1>6. TypedBook(c)
    BY <1>1, <1>4, <1>5 DEF TypedBook, BookColumns, DecisionStates,
       WakeStates, Reserve, ReserveOk
  <1>7. BookValid(c)
    BY DEF c
  <1>8. RowFacts(c)
    BY SMTT(30), <1>1, <1>3, <1>4, <1>5, <1>7 DEF ReserveOk, RowOK,
       RowFacts, BookValid, TypedBook, BookColumns, Current, Undelivered
  <1>9. Kept(b, c)
    BY SMTT(30), <1>1, <1>3, <1>4, <1>5, <1>7 DEF ReserveOk, Kept, RowOK,
       RowFacts, BookValid, TypedBook, BookColumns, Current, Undelivered,
       Reached, Lost, NoGeneration
  <1>10. Calm(b, c)
    BY SMTT(30), <1>1, <1>3, <1>4, <1>5, <1>7 DEF ReserveOk, Calm,
       SameThread, Owed, Current, RowOK, BookValid, RowFacts, NoGeneration
  <1>11. QED
    BY <1>6, <1>7, <1>8, <1>9, <1>10 DEF Good, RowOK, c

\* The rows the harness loop and time write.
WakeClaimed(b) == [b EXCEPT !.wake = "starting", !.tries = @ + 1]

WakeLost(b) ==
    [b EXCEPT !.wake = IF @ = "starting" THEN "ambiguous" ELSE @]

ClaimExpired(b) ==
    [b EXCEPT !.lease = "expired", !.late = @ \/ b.rev = b.token]

Closed(b) ==
    LET c == IF Outstanding(b) /\ b.effect = "none" THEN Supersede(b) ELSE b
    IN  [c EXCEPT !.wake = IF c.effect = "none" /\ c.state # "absent"
                              /\ @ # "delivered"
                           THEN "suppressed" ELSE @]

Retired(b) ==
    [IF Outstanding(b) THEN Supersede(b) ELSE b EXCEPT !.wake = "absent"]

(* A wake is about to be delivered.                                        *)
LEMMA WakeClaimedRow ==
    ASSUME NEW b, RowOK(b),
           b.wake = "pending",
           BookValid(WakeClaimed(b))
    PROVE  Good(b, WakeClaimed(b))
  <1> DEFINE c == WakeClaimed(b)
  <1>0. TypedBook(b)
    BY DEF RowOK
  <1>1. TypedBook(c)
    <2>1. BookShape(c)
      BY <1>0 DEF WakeClaimed, TypedBook, BookShape, Columns
    <2>2. BookColumns(c)
      BY <1>0
         DEF WakeClaimed, RowOK, RowFacts, TypedBook, BookShape, BookColumns, Columns,
             DecisionStates, WakeStates
    <2>3. QED
      BY <2>1, <2>2 DEF TypedBook
  <1>2. RowFacts(c)
    BY <1>0 DEF WakeClaimed, RowOK, RowFacts, BookValid, TypedBook,
       BookShape, BookColumns, Columns, Current, Undelivered
  <1>3. Kept(b, c)
    BY <1>0 DEF WakeClaimed, Kept, RowOK, RowFacts, BookValid, TypedBook,
       BookShape, BookColumns, Columns, Current, Undelivered, Reached
  <1>4. Calm(b, c)
    BY <1>0
       DEF WakeClaimed, Calm, SameThread, Owed, RowOK, BookValid, TypedBook, BookShape, Columns,
           Current
  <1>5. QED
    BY <1>1, <1>2, <1>3, <1>4 DEF Good, RowOK

(* A wake caught by a restart is ambiguous.                                *)
LEMMA WakeLostRow ==
    ASSUME NEW b, RowOK(b),
           b.wake = "starting"
    PROVE  Good(b, WakeLost(b))
  <1> DEFINE c == WakeLost(b)
  <1>0. TypedBook(b)
    BY DEF RowOK
  <1>1. TypedBook(c)
    <2>1. BookShape(c)
      BY <1>0 DEF WakeLost, TypedBook, BookShape, Columns
    <2>2. BookColumns(c)
      BY <1>0
         DEF WakeLost, TypedBook, BookShape, BookColumns, Columns, DecisionStates, WakeStates
    <2>3. QED
      BY <2>1, <2>2 DEF TypedBook
  <1>v. BookValid(c)
    BY <1>0 DEF WakeLost, RowOK, BookValid, TypedBook, BookShape,
       BookColumns, Columns, Current
  <1>2. RowFacts(c)
    BY <1>0 DEF WakeLost, RowOK, RowFacts, BookValid, TypedBook,
       BookShape, BookColumns, Columns, Current, Undelivered
  <1>3. Kept(b, c)
    BY <1>0 DEF WakeLost, Kept, RowOK, RowFacts, BookValid, TypedBook,
       BookShape, BookColumns, Columns, Current, Undelivered, Reached
  <1>4. Calm(b, c)
    BY <1>0
       DEF WakeLost, Calm, SameThread, Owed, RowOK, BookValid, TypedBook, BookShape, Columns,
           Current
  <1>5. QED
    BY <1>1, <1>v, <1>2, <1>3, <1>4 DEF Good, RowOK

(* WakeRecorded by cases. *)
LEMMA WakeRecordedCases ==
    ASSUME NEW b, TypedBook(b)
    PROVE  /\ WakeRecorded(b, "delivered") =
                [b EXCEPT !.wake = "delivered", !.state = "awaiting_claim",
                          !.rev = @ + 1]
           /\ WakeRecorded(b, "ambiguous") =
                [b EXCEPT !.wake = "ambiguous",
                          !.state = "human_attention_required"]
           /\ b.tries < 2 =>
                WakeRecorded(b, "failed") = [b EXCEPT !.wake = "pending"]
           /\ ~(b.tries < 2) =>
                WakeRecorded(b, "failed") =
                [b EXCEPT !.wake = "failed", !.state = "awaiting_claim",
                          !.rev = @ + 1, !.late = FALSE]
  BY DEF WakeRecorded, TypedBook, BookColumns

(* A wake is recorded as delivered.                                        *)
LEMMA WakeDeliveredRow ==
    ASSUME NEW b, RowOK(b),
           b.wake = "starting",
           BookValid(WakeRecorded(b, "delivered"))
    PROVE  Good(b, WakeRecorded(b, "delivered"))
  <1> DEFINE c == WakeRecorded(b, "delivered")
  <1>1. TypedBook(b)
    BY DEF RowOK
  <1>2. /\ c.wake = "delivered"
        /\ c.state = "awaiting_claim" /\ c.rev = b.rev + 1
        /\ c.gen = b.gen /\ c.kind = b.kind /\ c.token = b.token
        /\ c.lease = b.lease /\ c.late = b.late /\ c.effect = b.effect
        /\ c.by = b.by /\ c.effects = b.effects /\ c.acked = b.acked
        /\ c.superseded = b.superseded /\ c.tries = b.tries
        /\ c.gens = b.gens
        /\ BookShape(c)
    <2>1. c = [b EXCEPT !.wake = "delivered", !.state = "awaiting_claim", !.rev = @ + 1]
      BY <1>1, WakeRecordedCases
    <2>2. QED
      BY <1>1, <2>1 DEF TypedBook, BookShape, BookColumns, Columns
  <1> HIDE DEF c
  <1>3. TypedBook(c)
    BY <1>1, <1>2 DEF TypedBook, BookColumns, DecisionStates, WakeStates
  <1>4. BookValid(c)
    BY DEF c
  <1>5. RowFacts(c)
    BY <1>1, <1>2, <1>4 DEF RowOK, RowFacts, BookValid, BookColumns,
       TypedBook, Current, Undelivered, Outstanding
  <1>6. Kept(b, c)
    BY <1>1, <1>2, <1>4 DEF Kept, RowOK, RowFacts, BookValid, TypedBook,
       BookColumns, Current, Undelivered, Reached, Outstanding
  <1>7. Calm(b, c)
    BY <1>1, <1>2, <1>4 DEF Calm, SameThread, Owed, Current, RowOK, BookValid, RowFacts
  <1>8. QED
    BY <1>3, <1>4, <1>5, <1>6, <1>7 DEF Good, RowOK, c

(* A wake is recorded as ambiguous.                                        *)
LEMMA WakeUnclearRow ==
    ASSUME NEW b, RowOK(b),
           b.wake = "starting",
           BookValid(WakeRecorded(b, "ambiguous"))
    PROVE  Good(b, WakeRecorded(b, "ambiguous"))
  <1> DEFINE c == WakeRecorded(b, "ambiguous")
  <1>1. TypedBook(b)
    BY DEF RowOK
  <1>2. /\ c.wake = "ambiguous"
        /\ c.state = "human_attention_required"
        /\ c.rev = b.rev /\ c.gen = b.gen /\ c.kind = b.kind
        /\ c.token = b.token /\ c.lease = b.lease /\ c.late = b.late
        /\ c.effect = b.effect /\ c.by = b.by /\ c.effects = b.effects
        /\ c.acked = b.acked /\ c.superseded = b.superseded
        /\ c.tries = b.tries /\ c.gens = b.gens
        /\ BookShape(c)
    <2>1. c = [b EXCEPT !.wake = "ambiguous", !.state = "human_attention_required"]
      BY <1>1, WakeRecordedCases
    <2>2. QED
      BY <1>1, <2>1 DEF TypedBook, BookShape, BookColumns, Columns
  <1> HIDE DEF c
  <1>3. TypedBook(c)
    BY <1>1, <1>2 DEF TypedBook, BookColumns, DecisionStates, WakeStates
  <1>4. BookValid(c)
    BY DEF c
  <1>5. RowFacts(c)
    BY <1>1, <1>2, <1>4 DEF RowOK, RowFacts, BookValid, BookColumns,
       TypedBook, Current, Undelivered, Outstanding
  <1>6. Kept(b, c)
    BY <1>1, <1>2, <1>4 DEF Kept, RowOK, RowFacts, BookValid, TypedBook,
       BookColumns, Current, Undelivered, Reached, Outstanding
  <1>7. Calm(b, c)
    BY <1>1, <1>2, <1>4 DEF Calm, SameThread, Owed, Current, RowOK, BookValid, RowFacts
  <1>8. QED
    BY <1>3, <1>4, <1>5, <1>6, <1>7 DEF Good, RowOK, c

(* A wake is recorded as failed.                                           *)
LEMMA WakeRetriedRow ==
    ASSUME NEW b, RowOK(b),
           b.wake = "starting",
           b.tries < 2,
           BookValid(WakeRecorded(b, "failed"))
    PROVE  Good(b, WakeRecorded(b, "failed"))
  <1> DEFINE c == WakeRecorded(b, "failed")
  <1>1. TypedBook(b)
    BY DEF RowOK
  <1>2. /\ c.wake = "pending"
        /\ c.state = b.state /\ c.rev = b.rev /\ c.gen = b.gen
        /\ c.kind = b.kind /\ c.token = b.token /\ c.lease = b.lease
        /\ c.late = b.late /\ c.effect = b.effect /\ c.by = b.by
        /\ c.effects = b.effects /\ c.acked = b.acked
        /\ c.superseded = b.superseded /\ c.tries = b.tries
        /\ c.gens = b.gens
        /\ BookShape(c)
    <2>1. c = [b EXCEPT !.wake = "pending"]
      BY <1>1, WakeRecordedCases
    <2>2. QED
      BY <1>1, <2>1 DEF TypedBook, BookShape, BookColumns, Columns
  <1> HIDE DEF c
  <1>3. TypedBook(c)
    BY <1>1, <1>2 DEF TypedBook, BookColumns, DecisionStates, WakeStates
  <1>4. BookValid(c)
    BY DEF c
  <1>5. RowFacts(c)
    BY <1>1, <1>2, <1>4 DEF RowOK, RowFacts, BookValid, BookColumns,
       TypedBook, Current, Undelivered, Outstanding
  <1>6. Kept(b, c)
    BY <1>1, <1>2, <1>4 DEF Kept, RowOK, RowFacts, BookValid, TypedBook,
       BookColumns, Current, Undelivered, Reached, Outstanding
  <1>7. Calm(b, c)
    BY <1>1, <1>2, <1>4 DEF Calm, SameThread, Owed, Current, RowOK, BookValid, RowFacts
  <1>8. QED
    BY <1>3, <1>4, <1>5, <1>6, <1>7 DEF Good, RowOK, c

(* A wake is recorded as failed.                                           *)
LEMMA WakeFailedRow ==
    ASSUME NEW b, RowOK(b),
           b.wake = "starting",
           ~(b.tries < 2),
           BookValid(WakeRecorded(b, "failed"))
    PROVE  Good(b, WakeRecorded(b, "failed"))
  <1> DEFINE c == WakeRecorded(b, "failed")
  <1>1. TypedBook(b)
    BY DEF RowOK
  <1>2. /\ c.wake = "failed" /\ c.state = "awaiting_claim"
        /\ c.rev = b.rev + 1 /\ c.late = FALSE
        /\ c.gen = b.gen /\ c.kind = b.kind /\ c.token = b.token
        /\ c.lease = b.lease /\ c.effect = b.effect /\ c.by = b.by
        /\ c.effects = b.effects /\ c.acked = b.acked
        /\ c.superseded = b.superseded /\ c.tries = b.tries
        /\ c.gens = b.gens /\ c.late \in BOOLEAN
        /\ BookShape(c)
    <2>1. c = [b EXCEPT !.wake = "failed", !.state = "awaiting_claim", !.rev = @ + 1,
                        !.late = FALSE]
      BY <1>1, WakeRecordedCases
    <2>2. QED
      BY <1>1, <2>1 DEF TypedBook, BookShape, BookColumns, Columns
  <1> HIDE DEF c
  <1>3. TypedBook(c)
    BY <1>1, <1>2 DEF TypedBook, BookColumns, DecisionStates, WakeStates
  <1>4. BookValid(c)
    BY DEF c
  <1>5. RowFacts(c)
    BY <1>1, <1>2, <1>4 DEF RowOK, RowFacts, BookValid, BookColumns,
       TypedBook, Current, Undelivered, Outstanding
  <1>6. Kept(b, c)
    BY <1>1, <1>2, <1>4 DEF Kept, RowOK, RowFacts, BookValid, TypedBook,
       BookColumns, Current, Undelivered, Reached, Outstanding
  <1>7. Calm(b, c)
    BY <1>1, <1>2, <1>4 DEF Calm, SameThread, Owed, Current, RowOK, BookValid, RowFacts
  <1>8. QED
    BY <1>3, <1>4, <1>5, <1>6, <1>7 DEF Good, RowOK, c

(* A claim runs out.                                                       *)
LEMMA ClaimExpiredRow ==
    ASSUME NEW b, RowOK(b),
           b.lease = "live"
    PROVE  Good(b, ClaimExpired(b))
  <1> DEFINE c == ClaimExpired(b)
  <1>0. TypedBook(b)
    BY DEF RowOK
  <1>1. TypedBook(c)
    <2>1. BookShape(c)
      BY <1>0 DEF ClaimExpired, TypedBook, BookShape, Columns
    <2>2. BookColumns(c)
      BY <1>0
         DEF ClaimExpired, TypedBook, BookShape, BookColumns, Columns, DecisionStates,
             WakeStates
    <2>3. QED
      BY <2>1, <2>2 DEF TypedBook
  <1>v. BookValid(c)
    BY <1>0 DEF ClaimExpired, RowOK, BookValid, TypedBook, BookShape,
       BookColumns, Columns, Current
  <1>2. RowFacts(c)
    BY <1>0 DEF ClaimExpired, RowOK, RowFacts, BookValid, TypedBook,
       BookShape, BookColumns, Columns, Current, Undelivered
  <1>3. Kept(b, c)
    BY <1>0 DEF ClaimExpired, Kept, RowOK, RowFacts, BookValid, TypedBook,
       BookShape, BookColumns, Columns, Current, Undelivered, Reached
  <1>4. Calm(b, c)
    BY <1>0
       DEF ClaimExpired, Calm, SameThread, Owed, RowOK, BookValid, TypedBook, BookShape,
           Columns, Current
  <1>5. QED
    BY <1>1, <1>v, <1>2, <1>3, <1>4 DEF Good, RowOK

(* A checkpoint of a finished dispatch is closed.                          *)
LEMMA ClosedRow ==
    ASSUME NEW b, RowOK(b),
           TRUE,
           BookValid(Closed(b))
    PROVE  Good(b, Closed(b))
  <1> DEFINE z == Outstanding(b) /\ b.effect = "none"
             c == Closed(b)
  <1>1. TypedBook(b)
    BY DEF RowOK
  <1>2. /\ c.state = (IF z THEN "superseded" ELSE b.state)
        /\ c.lease = (IF z THEN "none" ELSE b.lease)
        /\ c.superseded = (IF z THEN TRUE ELSE b.superseded)
        /\ c.wake = (IF b.effect = "none" /\ b.state # "absent" /\ b.wake # "delivered"
                     THEN "suppressed" ELSE b.wake)
        /\ c.rev = b.rev /\ c.gen = b.gen /\ c.kind = b.kind
        /\ c.token = b.token /\ c.late = b.late /\ c.effect = b.effect
        /\ c.by = b.by /\ c.effects = b.effects /\ c.acked = b.acked
        /\ c.tries = b.tries /\ c.gens = b.gens /\ c.superseded \in BOOLEAN
        /\ BookShape(c)
    BY ZenonT(30), <1>1 DEF Closed, Outstanding, Supersede, TypedBook, BookShape,
       BookColumns, Columns
  <1> HIDE DEF c
  <1>3. TypedBook(c)
    BY <1>1, <1>2 DEF TypedBook, BookColumns, DecisionStates, WakeStates
  <1>4. BookValid(c)
    BY DEF c
  <1>5. RowFacts(c)
    BY <1>1, <1>2, <1>4 DEF RowOK, RowFacts, BookValid, BookColumns,
       TypedBook, Current, Undelivered, Outstanding
  <1>6. Kept(b, c)
    BY <1>1, <1>2, <1>4 DEF Kept, RowOK, RowFacts, BookValid, TypedBook,
       BookColumns, Current, Undelivered, Reached, Outstanding
  <1>7. Calm(b, c)
    BY <1>1, <1>2, <1>4 DEF Calm, SameThread, Owed, Current, RowOK, BookValid, RowFacts
  <1>8. QED
    BY <1>3, <1>4, <1>5, <1>6, <1>7 DEF Good, RowOK, c

(* A checkpoint of a cancelled dispatch is retired.                        *)
LEMMA RetiredRow ==
    ASSUME NEW b, RowOK(b),
           TRUE,
           BookValid(Retired(b))
    PROVE  Good(b, Retired(b))
  <1> DEFINE c == Retired(b)
  <1>0. TypedBook(b)
    BY DEF RowOK
  <1>1. TypedBook(c)
    <2>1. BookShape(c)
      BY <1>0 DEF Retired, Outstanding, Supersede, TypedBook, BookShape, Columns
    <2>2. BookColumns(c)
      BY ZenonT(30), <1>0
         DEF Retired, Outstanding, Supersede, TypedBook, BookShape, BookColumns, Columns,
             DecisionStates, WakeStates
    <2>3. QED
      BY <2>1, <2>2 DEF TypedBook
  <1>2. RowFacts(c)
    BY <1>0 DEF Retired, Outstanding, Supersede, RowOK, RowFacts, BookValid, TypedBook,
       BookShape, BookColumns, Columns, Current, Undelivered
  <1>3. Kept(b, c)
    BY <1>0 DEF Retired, Outstanding, Supersede, Kept, RowOK, RowFacts, BookValid, TypedBook,
       BookShape, BookColumns, Columns, Current, Undelivered, Reached
  <1>4. Calm(b, c)
    BY <1>0
       DEF Retired, Outstanding, Supersede, Calm, SameThread, Owed, RowOK, BookValid, TypedBook,
           BookShape, Columns, Current
  <1>5. QED
    BY <1>1, <1>2, <1>3, <1>4 DEF Good, RowOK

(* The receipt of a committed effect is acknowledged.                      *)
LEMMA AckRow ==
    ASSUME NEW b, RowOK(b),
           b.effect # "none",
           BookValid(Ack(b))
    PROVE  Good(b, Ack(b))
  <1> DEFINE c == Ack(b)
  <1>0. TypedBook(b)
    BY DEF RowOK
  <1>1. TypedBook(c)
    <2>1. BookShape(c)
      BY <1>0 DEF Ack, TypedBook, BookShape, Columns
    <2>2. BookColumns(c)
      BY <1>0 DEF Ack, TypedBook, BookShape, BookColumns, Columns, DecisionStates, WakeStates
    <2>3. QED
      BY <2>1, <2>2 DEF TypedBook
  <1>2. RowFacts(c)
    BY <1>0 DEF Ack, RowOK, RowFacts, BookValid, TypedBook,
       BookShape, BookColumns, Columns, Current, Undelivered
  <1>3. Kept(b, c)
    BY <1>0 DEF Ack, Kept, RowOK, RowFacts, BookValid, TypedBook,
       BookShape, BookColumns, Columns, Current, Undelivered, Reached
  <1>4. Calm(b, c)
    BY <1>0
       DEF Ack, Calm, SameThread, Owed, RowOK, BookValid, TypedBook, BookShape, Columns, Current
  <1>5. QED
    BY <1>1, <1>2, <1>3, <1>4 DEF Good, RowOK

(* A bundle commits its effect, once.                                      *)
LEMMA SubmitRow ==
    ASSUME NEW b, RowOK(b), NEW eff \in Effects, NEW n \in {0} \union Children,
           b.effect = "none",
           b.state \in {"claimed", "awaiting_claim"},
           n # 0 => Current(b).thread = n,
           b.kind = "human" /\ b.lease = "live" => n = 0,
           BookValid(Submit(b, eff, n))
    PROVE  /\ RowOK(Submit(b, eff, n)) /\ Kept(b, Submit(b, eff, n))
           /\ Current(Submit(b, eff, n)) = Current(b)
           /\ Submit(b, eff, n).gen = b.gen
  <1> DEFINE c == Submit(b, eff, n)
  <1>0. TypedBook(b)
    BY DEF RowOK
  <1>1. TypedBook(c)
    <2>1. BookShape(c)
      BY <1>0 DEF Submit, TypedBook, BookShape, Columns
    <2>2. BookColumns(c)
      BY <1>0, ControllerBounds
         DEF Submit, TypedBook, BookShape, BookColumns, Columns, DecisionStates, WakeStates
    <2>3. QED
      BY <2>1, <2>2 DEF TypedBook
  <1>2. RowFacts(c)
    BY <1>0, ControllerBounds DEF Submit, RowOK, RowFacts, BookValid, TypedBook,
       BookShape, BookColumns, Columns, Current, Undelivered
  <1>3. Kept(b, c)
    BY <1>0, ControllerBounds DEF Submit, Kept, RowOK, RowFacts, BookValid, TypedBook,
       BookShape, BookColumns, Columns, Current, Undelivered, Reached
  <1>5. QED
    BY <1>0, <1>1, <1>2, <1>3, ControllerBounds
       DEF Submit, RowOK, TypedBook, BookShape, BookColumns,
       Columns, Current

(* Whatever the delivery came to, the row stays good.                      *)
LEMMA WakeRecordedRow ==
    ASSUME NEW b, RowOK(b), b.wake = "starting",
           NEW outcome \in {"delivered", "ambiguous", "failed"},
           BookValid(WakeRecorded(b, outcome))
    PROVE  Good(b, WakeRecorded(b, outcome))
  <1>1. CASE outcome = "delivered"
    BY <1>1, WakeDeliveredRow
  <1>2. CASE outcome = "ambiguous"
    BY <1>2, WakeUnclearRow
  <1>3. CASE outcome = "failed" /\ b.tries < 2
    BY <1>3, WakeRetriedRow
  <1>4. CASE outcome = "failed" /\ ~(b.tries < 2)
    BY <1>4, WakeFailedRow
  <1>5. QED
    BY <1>1, <1>2, <1>3, <1>4

\* The deadline of a decision passes, or of the read of its generation.
Overdue(b) ==
    [b EXCEPT !.late = TRUE,
              !.lease = IF @ = "live" /\ b.rev # b.token
                        THEN "expired" ELSE @,
              !.gens[b.gen].insp = IF @ = "live" THEN "expired" ELSE @]

ReadExpired(b) == [b EXCEPT !.gens[b.gen].insp = "expired"]

\* The inspected generation is replaced by the second one.
Replaces(b, outcome) ==
    /\ outcome \in {"failed", "interrupted", "unavailable"}
    /\ b.gen < 2
    /\ outcome = "unavailable" \/ b.lease # "live"

(* The deadline of a decision passes.                                      *)
LEMMA OverdueRow ==
    ASSUME NEW b, RowOK(b),
           Outstanding(b)
    PROVE  Good(b, Overdue(b))
  <1> DEFINE r == [Current(b) EXCEPT !.insp = IF @ = "live" THEN "expired" ELSE @]
             c == Overdue(b)
  <1>1. TypedBook(b) /\ b.gen \in {1, 2} /\ TypedGeneration(b.gens[b.gen])
    BY CurrentTyped DEF RowOK
  <1>2. TypedGeneration(r)
    <2>1. GenerationShape(r)
      BY <1>1 DEF TypedGeneration, GenerationShape, Current
    <2>2. GenerationColumns(r)
      BY <1>1 DEF TypedGeneration, GenerationShape, GenerationColumns,
         Current, GenerationStates, InspectionOutcomes, TypedBook,
         BookColumns
    <2>3. QED
      BY <2>1, <2>2 DEF TypedGeneration
  <1>3. /\ r.state = Current(b).state /\ r.prompt = Current(b).prompt
        /\ r.thread = Current(b).thread
        /\ r.insp = (IF Current(b).insp = "live" THEN "expired" ELSE Current(b).insp)
        /\ r.out = Current(b).out /\ r.eff = Current(b).eff
        /\ r.rev = Current(b).rev
    BY <1>1 DEF TypedGeneration, GenerationShape, Current
  <1>4. /\ BookShape(c) /\ c.gens = [b.gens EXCEPT ![b.gen] = r]
        /\ c.state = b.state /\ c.rev = b.rev /\ c.gen = b.gen
        /\ c.kind = b.kind /\ c.token = b.token
        /\ c.lease = (IF b.lease = "live" /\ b.rev # b.token THEN "expired" ELSE b.lease)
        /\ c.late = TRUE /\ c.effect = b.effect /\ c.by = b.by
        /\ c.effects = b.effects /\ c.acked = b.acked
        /\ c.superseded = b.superseded /\ c.wake = b.wake
        /\ c.tries = b.tries /\ c.late \in BOOLEAN
    BY <1>1 DEF Overdue, TypedBook, BookShape, Columns, Current, SetGen
  <1> HIDE DEF r, c
  <1>5. /\ c.gens \in [1..2 -> GenerationRow]
        /\ c.gens[b.gen] = r /\ \A h \in 1..2 : h # b.gen => c.gens[h] = b.gens[h]
    BY <1>1, <1>2, <1>4, GenerationTyped DEF TypedBook, BookColumns
  <1>6. TypedBook(c)
    BY <1>1, <1>4, <1>5 DEF TypedBook, BookColumns, DecisionStates,
       WakeStates, Overdue
  <1>7. BookValid(c)
    <2>1. BookValid(b) /\ (c.lease = "none" <=> b.lease = "none")
      BY <1>4 DEF RowOK
    <2>2. \A g \in 1..2 :
             /\ c.gens[g].out = b.gens[g].out /\ c.gens[g].state = b.gens[g].state
             /\ c.gens[g].thread = b.gens[g].thread /\ c.gens[g].eff = b.gens[g].eff
      BY <1>1, <1>3, <1>5 DEF Current
    <2>3. QED
      BY <1>1, <1>4, <2>1, <2>2 DEF BookValid, Current
  <1>8. RowFacts(c)
    BY <1>1, <1>3, <1>4, <1>5, <1>7 DEF RowOK, RowFacts, BookValid,
       TypedBook, BookColumns, Current, Undelivered
  <1>9. Kept(b, c)
    BY <1>1, <1>3, <1>4, <1>5, <1>7 DEF Kept, RowOK, RowFacts, BookValid,
       TypedBook, BookColumns, Current, Undelivered, Reached, Lost,
       NoGeneration
  <1>10. Calm(b, c)
    BY <1>1, <1>3, <1>4, <1>5, <1>7 DEF Calm, SameThread, Owed, Current,
       RowOK, BookValid, RowFacts, NoGeneration
  <1>11. QED
    BY <1>6, <1>7, <1>8, <1>9, <1>10 DEF Good, RowOK, c

(* The reserved read of a generation runs out.                             *)
LEMMA ReadExpiredRow ==
    ASSUME NEW b, RowOK(b),
           Current(b).insp = "live"
    PROVE  Good(b, ReadExpired(b))
  <1> DEFINE r == [Current(b) EXCEPT !.insp = "expired"]
             c == ReadExpired(b)
  <1>1. TypedBook(b) /\ b.gen \in {1, 2} /\ TypedGeneration(b.gens[b.gen])
    BY CurrentTyped DEF RowOK
  <1>2. TypedGeneration(r)
    <2>1. GenerationShape(r)
      BY <1>1 DEF TypedGeneration, GenerationShape, Current
    <2>2. GenerationColumns(r)
      BY <1>1 DEF TypedGeneration, GenerationShape, GenerationColumns,
         Current, GenerationStates, InspectionOutcomes, TypedBook,
         BookColumns
    <2>3. QED
      BY <2>1, <2>2 DEF TypedGeneration
  <1>3. /\ r.state = Current(b).state /\ r.prompt = Current(b).prompt
        /\ r.thread = Current(b).thread /\ r.insp = "expired"
        /\ r.out = Current(b).out /\ r.eff = Current(b).eff
        /\ r.rev = Current(b).rev
    BY <1>1 DEF TypedGeneration, GenerationShape, Current
  <1>4. /\ BookShape(c) /\ c.gens = [b.gens EXCEPT ![b.gen] = r]
        /\ c.state = b.state /\ c.rev = b.rev /\ c.gen = b.gen
        /\ c.kind = b.kind /\ c.token = b.token /\ c.lease = b.lease
        /\ c.late = b.late /\ c.effect = b.effect /\ c.by = b.by
        /\ c.effects = b.effects /\ c.acked = b.acked
        /\ c.superseded = b.superseded /\ c.wake = b.wake
        /\ c.tries = b.tries
    BY <1>1 DEF ReadExpired, TypedBook, BookShape, Columns, Current, SetGen
  <1> HIDE DEF r, c
  <1>5. /\ c.gens \in [1..2 -> GenerationRow]
        /\ c.gens[b.gen] = r /\ \A h \in 1..2 : h # b.gen => c.gens[h] = b.gens[h]
    BY <1>1, <1>2, <1>4, GenerationTyped DEF TypedBook, BookColumns
  <1>6. TypedBook(c)
    BY <1>1, <1>4, <1>5 DEF TypedBook, BookColumns, DecisionStates,
       WakeStates, ReadExpired
  <1>7. BookValid(c)
    BY SMTT(30), <1>1, <1>3, <1>4, <1>5, CurrentTyped DEF ReadExpired, BookValid,
       TypedBook, BookColumns, RowOK, RowFacts, Undelivered, Current,
       TypedGeneration, GenerationColumns, InspectionOutcomes,
       GenerationStates, NoGeneration, WakeStates
  <1>8. RowFacts(c)
    BY <1>1, <1>3, <1>4, <1>5, <1>7 DEF RowOK, RowFacts, BookValid,
       TypedBook, BookColumns, Current, Undelivered
  <1>9. Kept(b, c)
    BY <1>1, <1>3, <1>4, <1>5, <1>7 DEF Kept, RowOK, RowFacts, BookValid,
       TypedBook, BookColumns, Current, Undelivered, Reached, Lost,
       NoGeneration
  <1>10. Calm(b, c)
    BY <1>1, <1>3, <1>4, <1>5, <1>7 DEF Calm, SameThread, Owed, Current,
       RowOK, BookValid, RowFacts, NoGeneration
  <1>11. QED
    BY <1>6, <1>7, <1>8, <1>9, <1>10 DEF Good, RowOK, c

(* A read that found the turn running or completed.                        *)
LEMMA ReadRow ==
    ASSUME NEW b, RowOK(b), NEW outcome \in InspectionOutcomes, 
           NEW eff \in {"none"} \union Effects, NEW g, NEW rev, NEW bundle,
           InspectedOk(b, g, rev, outcome, bundle),
           outcome \in {"active", "completed"},
           outcome = "completed" => b.wake \notin Undelivered,
           BookValid(Inspected(b, outcome, eff))
    PROVE  Good(b, Inspected(b, outcome, eff))
  <1> DEFINE r == [Current(b) EXCEPT
                !.state = outcome, !.insp = "done", !.out = outcome,
                !.eff = eff,
                !.rev = IF outcome = "completed" THEN b.rev ELSE 0]
             c == Inspected(b, outcome, eff)
  <1>1. TypedBook(b) /\ b.gen \in {1, 2} /\ TypedGeneration(b.gens[b.gen])
    BY CurrentTyped DEF RowOK
  <1>2. TypedGeneration(r)
    <2>1. GenerationShape(r)
      BY <1>1 DEF TypedGeneration, GenerationShape, Current
    <2>2. GenerationColumns(r)
      BY <1>1 DEF TypedGeneration, GenerationShape, GenerationColumns,
         Current, GenerationStates, InspectionOutcomes, TypedBook,
         BookColumns
    <2>3. QED
      BY <2>1, <2>2 DEF TypedGeneration
  <1>3. /\ r.state = outcome /\ r.prompt = Current(b).prompt
        /\ r.thread = Current(b).thread /\ r.insp = "done"
        /\ r.out = outcome /\ r.eff = eff
        /\ r.rev = (IF outcome = "completed" THEN b.rev ELSE 0)
    BY <1>1 DEF TypedGeneration, GenerationShape, Current
  <1>4. /\ BookShape(c) /\ c.gens = [b.gens EXCEPT ![b.gen] = r]
        /\ c.state = b.state /\ c.rev = b.rev /\ c.gen = b.gen
        /\ c.kind = b.kind /\ c.token = b.token /\ c.lease = b.lease
        /\ c.late = b.late /\ c.effect = b.effect /\ c.by = b.by
        /\ c.effects = b.effects /\ c.acked = b.acked
        /\ c.superseded = b.superseded /\ c.wake = b.wake
        /\ c.tries = b.tries
    BY <1>1 DEF Inspected, InspectedOk, TypedBook, BookShape, Columns,
       Current, SetGen
  <1> HIDE DEF r, c
  <1>5. /\ c.gens \in [1..2 -> GenerationRow]
        /\ c.gens[b.gen] = r /\ \A h \in 1..2 : h # b.gen => c.gens[h] = b.gens[h]
    BY <1>1, <1>2, <1>4, GenerationTyped DEF TypedBook, BookColumns
  <1>6. TypedBook(c)
    BY <1>1, <1>4, <1>5 DEF TypedBook, BookColumns, DecisionStates,
       WakeStates, Inspected, InspectedOk
  <1>7. BookValid(c)
    BY DEF c
  <1>8. RowFacts(c)
    BY SMTT(30), <1>1, <1>3, <1>4, <1>5, <1>7 DEF InspectedOk, RowOK,
       RowFacts, BookValid, TypedBook, BookColumns, Current, Undelivered
  <1>9. Kept(b, c)
    BY SMTT(30), <1>1, <1>3, <1>4, <1>5, <1>7 DEF InspectedOk, Kept, RowOK,
       RowFacts, BookValid, TypedBook, BookColumns, Current, Undelivered,
       Reached, Lost, NoGeneration
  <1>10. Calm(b, c)
    BY SMTT(30), <1>1, <1>3, <1>4, <1>5, <1>7 DEF InspectedOk, Calm,
       SameThread, Owed, Current, RowOK, BookValid, RowFacts, NoGeneration
  <1>11. QED
    BY <1>6, <1>7, <1>8, <1>9, <1>10 DEF Good, RowOK, c

(* A read that leaves the decision to a human.                             *)
LEMMA LostRow ==
    ASSUME NEW b, RowOK(b), NEW outcome \in InspectionOutcomes, 
           NEW eff \in {"none"} \union Effects, NEW g, NEW rev, NEW bundle,
           InspectedOk(b, g, rev, outcome, bundle),
           outcome \notin {"active", "completed"},
           ~Replaces(b, outcome),
           BookValid(Inspected(b, outcome, eff))
    PROVE  Good(b, Inspected(b, outcome, eff))
  <1> DEFINE r == [Current(b) EXCEPT
                !.state = outcome, !.insp = "done", !.out = outcome,
                !.eff = eff,
                !.rev = IF outcome = "completed" THEN b.rev ELSE 0]
             c == Inspected(b, outcome, eff)
  <1>1. TypedBook(b) /\ b.gen \in {1, 2} /\ TypedGeneration(b.gens[b.gen])
    BY CurrentTyped DEF RowOK
  <1>2. TypedGeneration(r)
    <2>1. GenerationShape(r)
      BY <1>1 DEF TypedGeneration, GenerationShape, Current
    <2>2. GenerationColumns(r)
      BY <1>1 DEF TypedGeneration, GenerationShape, GenerationColumns,
         Current, GenerationStates, InspectionOutcomes, TypedBook,
         BookColumns
    <2>3. QED
      BY <2>1, <2>2 DEF TypedGeneration
  <1>3. /\ r.state = outcome /\ r.prompt = Current(b).prompt
        /\ r.thread = Current(b).thread /\ r.insp = "done"
        /\ r.out = outcome /\ r.eff = eff
        /\ r.rev = (IF outcome = "completed" THEN b.rev ELSE 0)
    BY <1>1 DEF TypedGeneration, GenerationShape, Current
  <1>4. /\ BookShape(c) /\ c.gens = [b.gens EXCEPT ![b.gen] = r]
        /\ c.state = "human_attention_required" /\ c.rev = b.rev + 1
        /\ c.gen = b.gen /\ c.kind = "none" /\ c.token = 0
        /\ c.lease = "none" /\ c.late = b.late /\ c.effect = b.effect
        /\ c.by = b.by /\ c.effects = b.effects /\ c.acked = b.acked
        /\ c.superseded = b.superseded /\ c.wake = b.wake
        /\ c.tries = b.tries
    <2>1. c = [[Unclaimed(SetGen(b, b.gen, r)) EXCEPT !.rev = @ + 1]
                 EXCEPT !.state = "human_attention_required"]
      BY DEF Inspected, Replaces
    <2>2. QED
      BY ZenonT(30), <1>1, <2>1 DEF Unclaimed, SetGen, TypedBook, BookShape, Columns,
         Current
  <1> HIDE DEF r, c
  <1>5. /\ c.gens \in [1..2 -> GenerationRow]
        /\ c.gens[b.gen] = r /\ \A h \in 1..2 : h # b.gen => c.gens[h] = b.gens[h]
    BY <1>1, <1>2, <1>4, GenerationTyped DEF TypedBook, BookColumns
  <1>6. TypedBook(c)
    BY <1>1, <1>4, <1>5 DEF TypedBook, BookColumns, DecisionStates,
       WakeStates, Inspected, InspectedOk, Unclaimed, Replaces
  <1>7. BookValid(c)
    BY DEF c
  <1>8. RowFacts(c)
    <2>1. b.effect = "none" /\ b.effects = 0 /\ b.by = 0 /\ ~b.acked /\ b.wake # "pending"
      BY DEF InspectedOk, RowOK, RowFacts, BookValid
    <2>2. Current(c) = r /\ r.out = outcome /\ outcome \notin {"none", "completed"}
      BY <1>3, <1>4, <1>5 DEF Current, InspectionOutcomes
    <2>3. c.token <= c.rev /\ c.token = 0
      BY <1>1, <1>4 DEF TypedBook, BookColumns
    <2>4. c.gen = 1 => c.gens[2] = NoGeneration
      BY <1>1, <1>4, <1>5 DEF RowOK, RowFacts
    <2>5. QED
      BY <1>4, <2>1, <2>2, <2>3, <2>4 DEF RowFacts
  <1>9. Kept(b, c)
    <2>1. b.state # "absent" /\ c.state # "absent" /\ b.kind # "human" /\ c.token = 0
      BY <1>4 DEF InspectedOk
    <2>2. b.gen <= c.gen /\ b.rev <= c.rev
      BY <1>1, <1>4 DEF TypedBook, BookColumns
    <2>3. Reached(b) => Reached(c)
      BY <1>4, <2>1 DEF Reached
    <2>4. \A g1 \in 1..2 :
              /\ b.gens[g1].insp # "none" => c.gens[g1].insp # "none"
              /\ b.gens[g1].thread # 0 => c.gens[g1].thread = b.gens[g1].thread
      BY <1>3, <1>5 DEF Current
    <2>5. b.effect # "none" =>
              /\ c.effect = b.effect /\ c.by = b.by /\ (b.acked => c.acked)
              /\ Current(b).state \in Lost => Current(c).state \in Lost
      BY <1>1, <1>3, <1>4, <1>5 DEF InspectedOk, RowOK, RowFacts, BookValid, Current, Lost
    <2>6. QED
      BY <1>4, <2>1, <2>2, <2>3, <2>4, <2>5 DEF Kept
  <1>10. Calm(b, c)
    BY SMTT(30), <1>1, <1>3, <1>4, <1>5, <1>7 DEF InspectedOk, Calm,
       SameThread, Owed, Current, RowOK, BookValid, RowFacts, NoGeneration
  <1>11. QED
    BY <1>6, <1>7, <1>8, <1>9, <1>10 DEF Good, RowOK, c

(* A read that leaves the decision to the second generation.               *)
LEMMA ReplacedRow ==
    ASSUME NEW b, RowOK(b), NEW outcome \in InspectionOutcomes,
           NEW eff \in {"none"} \union Effects, NEW g, NEW rev, NEW bundle,
           InspectedOk(b, g, rev, outcome, bundle),
           Replaces(b, outcome),
           BookValid(Inspected(b, outcome, eff))
    PROVE  Good(b, Inspected(b, outcome, eff))
  <1> DEFINE r == [Current(b) EXCEPT
                !.state = outcome, !.insp = "done", !.out = outcome,
                !.eff = eff,
                !.rev = IF outcome = "completed" THEN b.rev ELSE 0]
             s == [NoGeneration EXCEPT !.state = "prepared"]
             c == Inspected(b, outcome, eff)
  <1>1. TypedBook(b) /\ b.gen = 1 /\ TypedGeneration(b.gens[b.gen])
    BY CurrentTyped DEF RowOK, Replaces
  <1>2. TypedGeneration(r) /\ TypedGeneration(s)
    <2>1. GenerationShape(r) /\ GenerationShape(s)
      BY <1>1 DEF TypedGeneration, GenerationShape, Current, NoGeneration
    <2>2. GenerationColumns(r)
      BY <1>1 DEF TypedGeneration, GenerationShape, GenerationColumns,
         Current, GenerationStates, InspectionOutcomes, TypedBook,
         BookColumns
    <2>3. GenerationColumns(s)
      BY DEF GenerationColumns, GenerationStates, NoGeneration
    <2>4. QED
      BY <2>1, <2>2, <2>3 DEF TypedGeneration
  <1>3. /\ r.thread = Current(b).thread /\ r.insp = "done" /\ r.out = outcome
        /\ r.state = outcome
        /\ s.state = "prepared" /\ s.thread = 0 /\ s.insp = "none"
        /\ s.out = "none"
    BY <1>1 DEF TypedGeneration, GenerationShape, Current, NoGeneration
  <1>4. /\ BookShape(c) /\ c.gens = [[b.gens EXCEPT ![1] = r] EXCEPT ![2] = s]
        /\ c.state = "awaiting_claim" /\ c.rev = b.rev + 1 /\ c.gen = 2
        /\ c.kind = "none" /\ c.token = 0 /\ c.lease = "none"
        /\ c.late = b.late /\ c.effect = b.effect /\ c.by = b.by
        /\ c.effects = b.effects /\ c.acked = b.acked
        /\ c.superseded = b.superseded /\ c.wake = b.wake
        /\ c.tries = b.tries
    <2> DEFINE k == [[[Unclaimed(SetGen(b, b.gen, r)) EXCEPT !.rev = @ + 1]
                       EXCEPT !.state = "awaiting_claim"] EXCEPT !.gen = 2]
    <2>1. c = [k EXCEPT !.gens[2] = s]
      BY DEF Inspected, Replaces, InspectionOutcomes
    <2>2. /\ BookShape(k) /\ k.gens = [b.gens EXCEPT ![1] = r]
          /\ k.state = "awaiting_claim" /\ k.rev = b.rev + 1 /\ k.gen = 2
          /\ k.kind = "none" /\ k.token = 0 /\ k.lease = "none"
          /\ k.late = b.late /\ k.effect = b.effect /\ k.by = b.by
          /\ k.effects = b.effects /\ k.acked = b.acked
          /\ k.superseded = b.superseded /\ k.wake = b.wake
          /\ k.tries = b.tries
      BY ZenonT(30), <1>1 DEF Unclaimed, SetGen, TypedBook, BookShape, Columns, Current
    <2> HIDE DEF k, c
    <2>3. QED
      BY <2>1, <2>2 DEF BookShape, Columns
  <1> HIDE DEF r, s, c
  <1>5. /\ c.gens \in [1..2 -> GenerationRow]
        /\ c.gens[1] = r /\ c.gens[2] = s
    BY <1>1, <1>2, <1>4, GenerationTyped DEF TypedBook, BookColumns
  <1>6. TypedBook(c)
    BY <1>1, <1>4, <1>5 DEF TypedBook, BookColumns, DecisionStates
  <1>7. BookValid(c)
    BY DEF c
  <1>8. RowFacts(c)
    BY <1>1, <1>3, <1>4, <1>5, <1>7 DEF InspectedOk, RowOK, RowFacts,
       BookValid, TypedBook, BookColumns, Current, Undelivered
  <1>9. Kept(b, c)
    BY <1>1, <1>3, <1>4, <1>5, <1>7 DEF InspectedOk, Kept, RowOK, RowFacts,
       BookValid, TypedBook, BookColumns, Current, Undelivered, Reached,
       NoGeneration
  <1>10. Calm(b, c)
    BY <1>1, <1>3, <1>4, <1>5, <1>7 DEF Calm, SameThread, Owed, Current
  <1>11. QED
    BY <1>6, <1>7, <1>8, <1>9, <1>10 DEF Good, RowOK, c

(* The record of a read, whatever was found.                               *)
LEMMA InspectedRow ==
    ASSUME NEW b, RowOK(b), NEW outcome \in InspectionOutcomes,
           NEW eff \in {"none"} \union Effects, NEW g, NEW rev, NEW bundle,
           InspectedOk(b, g, rev, outcome, bundle),
           outcome = "completed" => b.wake \notin Undelivered,
           BookValid(Inspected(b, outcome, eff))
    PROVE  Good(b, Inspected(b, outcome, eff))
  <1>1. CASE outcome \in {"active", "completed"}
    BY <1>1, ReadRow
  <1>2. CASE outcome \notin {"active", "completed"} /\ ~Replaces(b, outcome)
    BY <1>2, LostRow
  <1>3. CASE Replaces(b, outcome)
    BY <1>3, ReplacedRow
  <1>4. QED
    BY <1>1, <1>2, <1>3 DEF Replaces

(* Reaping a claim before a decision is scheduled.                         *)
LEMMA ReapRow ==
    ASSUME NEW b, RowOK(b), BookValid(Reap(b))
    PROVE  Good(b, Reap(b))
  <1> DEFINE released == [Unclaimed(b) EXCEPT !.state = "awaiting_claim",
                                              !.rev = @ + 1]
             c == Reap(b)
  <1>1. CASE b.effect = "none" /\ Current(b).insp = "expired"
    <2>1. Reap(b) = Ambiguous(b)
      BY <1>1 DEF Reap
    <2>2. b.kind # "human"
      BY <1>1 DEF RowOK, RowFacts
    <2>3. QED
      BY <2>1, <2>2, AmbiguousRow
  <1>2. CASE Reap(b) = b
    BY <1>2, SameRow
  <1>3. CASE /\ b.lease = "expired"
             /\ Reap(b) \in {released,
                             [released EXCEPT !.state = "human_attention_required"]}
    <2>1. TypedBook(b)
      BY DEF RowOK
    <2>2. /\ BookShape(c) /\ c.gens = b.gens /\ c.rev = b.rev + 1
          /\ c.gen = b.gen /\ c.kind = "none" /\ c.token = 0
          /\ c.lease = "none" /\ c.late = b.late /\ c.effect = b.effect
          /\ c.by = b.by /\ c.effects = b.effects /\ c.acked = b.acked
          /\ c.superseded = b.superseded /\ c.wake = b.wake
          /\ c.tries = b.tries
          /\ c.state \in {"awaiting_claim", "human_attention_required"}
      BY ZenonT(30), <1>3, <2>1 DEF Unclaimed, TypedBook, BookShape, Columns
    <2> HIDE DEF c
    <2>3. TypedBook(c)
      BY <2>1, <2>2 DEF TypedBook, BookColumns, DecisionStates
    <2>4. BookValid(c)
      BY DEF c
    <2>5. RowFacts(c) /\ Kept(b, c) /\ Calm(b, c)
      BY <1>3, <2>1, <2>2, <2>4 DEF RowFacts, RowOK, BookValid, TypedBook,
         BookColumns, Kept, Calm, SameThread, Owed, Reached, Current, Undelivered
    <2>6. QED
      BY <2>3, <2>4, <2>5 DEF Good, RowOK, c
  <1>4. CASE b.lease = "expired" /\ Reap(b) = [b EXCEPT !.state = "awaiting_claim", !.lease = "none"]
    <2>1. TypedBook(b)
      BY DEF RowOK
    <2>2. /\ BookShape(c) /\ c.gens = b.gens /\ c.rev = b.rev
          /\ c.gen = b.gen /\ c.kind = b.kind /\ c.token = b.token
          /\ c.lease = "none" /\ c.late = b.late /\ c.effect = b.effect
          /\ c.by = b.by /\ c.effects = b.effects /\ c.acked = b.acked
          /\ c.superseded = b.superseded /\ c.wake = b.wake
          /\ c.tries = b.tries /\ c.state = "awaiting_claim"
      BY <1>4, <2>1 DEF TypedBook, BookShape, Columns
    <2> HIDE DEF c
    <2>3. TypedBook(c)
      BY <2>1, <2>2 DEF TypedBook, BookColumns, DecisionStates
    <2>4. BookValid(c)
      BY DEF c
    <2>5. RowFacts(c) /\ Kept(b, c) /\ Calm(b, c)
      BY <1>4, <2>1, <2>2, <2>4 DEF RowFacts, RowOK, BookValid, TypedBook,
         BookColumns, Kept, Calm, SameThread, Owed, Reached, Current, Undelivered
    <2>6. QED
      BY <2>3, <2>4, <2>5 DEF Good, RowOK, c
  <1>5. \/ b.effect = "none" /\ Current(b).insp = "expired"
        \/ c = b
        \/ /\ b.lease = "expired"
           /\ c \in {released, [released EXCEPT !.state = "human_attention_required"],
                     [b EXCEPT !.state = "awaiting_claim", !.lease = "none"]}
    BY DEF Reap
  <1>6. QED
    BY <1>1, <1>2, <1>3, <1>4, <1>5

(* Every new decision is a good row.                                       *)
LEMMA NewRow ==
    ASSUME NEW source \in BOOLEAN, NEW closed \in BOOLEAN
    PROVE  RowOK(NewDecision(source, closed)) /\ NewDecision(source, closed).state # "absent"
  <1> DEFINE s == [NoGeneration EXCEPT !.state = "prepared"]
             c == NewDecision(source, closed)
  <1>1. TypedGeneration(NoGeneration) /\ TypedGeneration(s)
    BY DEF TypedGeneration, GenerationShape, GenerationColumns, NoGeneration,
       GenerationStates
  <1>2. /\ s.state = "prepared" /\ s.thread = 0 /\ s.insp = "none"
        /\ s.out = "none" /\ NoGeneration.out = "none"
        /\ NoGeneration.thread = 0 /\ NoGeneration.state = "absent"
        /\ NoGeneration.insp = "none"
    BY DEF NoGeneration
  <1>3. /\ BookShape(c)
        /\ c.gens = [[g \in 1..2 |-> NoGeneration] EXCEPT ![1] = s]
        /\ c.state = (IF source THEN "pending_delivery"
                      ELSE IF closed THEN "legacy_closed"
                      ELSE "awaiting_claim")
        /\ c.wake = (IF source THEN "pending" ELSE "not_applicable")
        /\ c.rev = 0 /\ c.gen = 1 /\ c.kind = "none" /\ c.token = 0
        /\ c.lease = "none" /\ c.late = FALSE /\ c.effect = "none"
        /\ c.by = 0 /\ c.effects = 0 /\ c.acked = FALSE
        /\ c.superseded = FALSE /\ c.tries = 0
        /\ c.late \in BOOLEAN /\ c.acked \in BOOLEAN /\ c.superseded \in BOOLEAN
    <2> DEFINE k == [NoBook EXCEPT
                       !.state = IF source THEN "pending_delivery"
                                 ELSE IF closed THEN "legacy_closed"
                                 ELSE "awaiting_claim",
                       !.wake = IF source THEN "pending" ELSE "not_applicable"]
    <2>1. c = [k EXCEPT !.gens[1] = [k.gens[1] EXCEPT !.state = "prepared"]]
      BY DEF NewDecision
    <2>2. /\ BookShape(k)
          /\ k.gens = [g \in 1..2 |-> NoGeneration]
          /\ k.state = (IF source THEN "pending_delivery"
                        ELSE IF closed THEN "legacy_closed"
                        ELSE "awaiting_claim")
          /\ k.wake = (IF source THEN "pending" ELSE "not_applicable")
          /\ k.rev = 0 /\ k.gen = 1 /\ k.kind = "none" /\ k.token = 0
          /\ k.lease = "none" /\ k.late = FALSE /\ k.effect = "none"
          /\ k.by = 0 /\ k.effects = 0 /\ k.acked = FALSE
          /\ k.superseded = FALSE /\ k.tries = 0
          /\ k.late \in BOOLEAN /\ k.acked \in BOOLEAN
          /\ k.superseded \in BOOLEAN
      BY DEF NoBook, BookShape, Columns
    <2> HIDE DEF k, c
    <2>3. k.gens[1] = NoGeneration
      BY <2>2
    <2>4. QED
      BY <2>1, <2>2, <2>3 DEF BookShape, Columns
  <1> HIDE DEF s, c
  <1>4. /\ c.gens \in [1..2 -> GenerationRow]
        /\ c.gens[1] = s /\ c.gens[2] = NoGeneration
    BY <1>1, <1>3, GenerationTyped
  <1>5. TypedBook(c)
    BY <1>3, <1>4 DEF TypedBook, BookColumns, DecisionStates, WakeStates
  <1>6. BookValid(c) /\ RowFacts(c)
    BY <1>2, <1>3, <1>4 DEF BookValid, RowFacts, Current, Undelivered
  <1>7. QED
    BY <1>3, <1>5, <1>6 DEF RowOK, c

(* So is the row of a decision that is not open yet.                       *)
LEMMA NoRow == RowOK(NoBook) /\ NoBook.state = "absent"
  <1> DEFINE c == NoBook
  <1>1. /\ TypedGeneration(NoGeneration) /\ NoGeneration.out = "none"
        /\ NoGeneration.thread = 0 /\ NoGeneration.state = "absent"
        /\ NoGeneration.insp = "none"
    BY DEF TypedGeneration, GenerationShape, GenerationColumns, NoGeneration,
       GenerationStates
  <1>2. /\ BookShape(c) /\ c.gens = [g \in 1..2 |-> NoGeneration]
        /\ c.state = "absent" /\ c.wake = "absent"
        /\ c.rev = 0 /\ c.gen = 1 /\ c.kind = "none" /\ c.token = 0
        /\ c.lease = "none" /\ c.late = FALSE /\ c.effect = "none"
        /\ c.by = 0 /\ c.effects = 0 /\ c.acked = FALSE
        /\ c.superseded = FALSE /\ c.tries = 0
        /\ c.late \in BOOLEAN /\ c.acked \in BOOLEAN /\ c.superseded \in BOOLEAN
    BY DEF NoBook, BookShape, Columns
  <1> HIDE DEF c
  <1>3. TypedBook(c)
    BY <1>1, <1>2, GenerationTyped DEF TypedBook, BookColumns, DecisionStates, WakeStates
  <1>4. BookValid(c) /\ RowFacts(c)
    BY <1>1, <1>2 DEF BookValid, RowFacts, Current, Undelivered
  <1>5. QED
    BY <1>2, <1>3, <1>4 DEF RowOK, c

----------------------------------------------------------------------------
(* Steps *)

\* What the two action properties ask of a row.
RowAct(b, c) ==
    /\ b.effect # "none" =>
          c.effect = b.effect /\ c.by = b.by /\ (b.acked => c.acked)
    /\ b.kind = "human" /\ b.lease = "live" =>
          /\ c.by = 0 /\ c.gen = b.gen
          /\ \/ c.kind = "human"
             \/ Current(c).state = "failed" /\ Current(c).thread = 0

Step == Inv' /\ \A d \in Decisions : RowAct(book[d], book'[d])

\* c2 is what is left of process c: it may have ended, and knows no more.
Weaker(c, c2) ==
    /\ c2.d = c.d /\ c2.mode = c.mode /\ c2.read = c.read
    /\ \/ c2.pc = c.pc /\ c2.found = c.found
       \/ c2.pc \in Exited /\ c.pc # "unborn"
    /\ \/ c2.gen = c.gen
       \/ c2.gen = 0 /\ c2.pc \in Exited /\ c.thread = "none"
    /\ c2.token = c.token \/ c2.token = 0
    /\ c2.thread = "none" <=> c.thread = "none"
    /\ c.pc = "unborn" => c2 = c

(* A process may rely on the same things after any transaction.            *)
LEMMA FactsKept ==
    ASSUME NEW n \in Children, NEW c, TypedChild(c), NEW b, RowOK(b),
           NEW b2, RowOK(b2), Kept(b, b2), Facts(n, c, b)
    PROVE  Facts(n, c, b2)
  <1>1. /\ b.gen \in Nat /\ b2.gen \in Nat /\ b.rev \in Nat /\ b2.rev \in Nat
        /\ b2.token \in Nat /\ b.token \in Nat /\ c.gen \in 0..2
        /\ c.token \in Nat /\ n # 0
    BY DEF RowOK, TypedBook, BookColumns, TypedChild, ChildColumns, Children
  <1>2. Bound(c) => c.gen \in 1..2
    BY <1>1 DEF Facts, Bound, Exited
  <1>3. QED
    BY <1>1, <1>2 DEF Facts, Kept

(* So may what is left of it.                                              *)
LEMMA FactsWeaker ==
    ASSUME NEW n \in Children, NEW c, TypedChild(c), NEW c2, TypedChild(c2),
           NEW b, RowOK(b), Weaker(c, c2), Facts(n, c, b)
    PROVE  Facts(n, c2, b)
  <1>1. /\ b.gen \in Nat /\ b.rev \in Nat /\ c.gen \in 0..2 /\ c.token \in Nat
        /\ c2.gen \in 0..2 /\ c2.token \in Nat
    BY DEF RowOK, TypedBook, BookColumns, TypedChild, ChildColumns
  <1>2. Bound(c2) => Bound(c) /\ c2.gen = c.gen
    BY DEF Bound, Weaker, Exited
  <1>3. \A g \in 1..2 : Reader(c2, g) => Reader(c, g)
    BY DEF Reader, Weaker, Exited
  <1>4. QED
    BY <1>1, <1>2, <1>3 DEF Facts, Weaker, Exited

(* Kept rows satisfy the action properties.                                *)
LEMMA KeptActs == ASSUME NEW b, NEW c, Kept(b, c) PROVE RowAct(b, c)
  BY DEF Kept, RowAct

(* Nothing is opened or forgotten by a step that keeps the rows.           *)
LEMMA DispatchKept ==
    ASSUME Inv, \A d \in Decisions : Kept(book[d], book'[d]),
           dispatch'.queue \in {"active", "attention"} =>
               dispatch.queue \in {"active", "attention"}
    PROVE  DispatchFacts'
  <1>1. \A d \in Decisions : book'[d].state = "absent" <=> book[d].state = "absent"
    BY DEF Kept
  <1>2. Opened' = Opened
    BY <1>1 DEF Opened, Checkpoints, Decisions
  <1>3. 0 \in Decisions
    BY ControllerBounds DEF Decisions
  <1>4. QED
    BY <1>1, <1>2, <1>3 DEF Inv, DispatchFacts

(* The loop goes on with the wakes.                                        *)
LEMMA TriggerTyped ==
    ASSUME harness \in HarnessRow, Trigger
    PROVE  harness' \in HarnessRow /\ harness'.at = "deliver"
  <1> DEFINE h == [harness EXCEPT !.at = "deliver"]
  <1>1. h \in HarnessRow /\ h.at = "deliver"
    BY DEF HarnessRow
  <1>2. 0 \in Decisions
    BY ControllerBounds DEF Decisions
  <1>3. harness' = [h EXCEPT !.cur = 0]
    BY DEF Trigger
  <1> HIDE DEF h
  <1>4. QED
    BY <1>1, <1>2, <1>3 DEF HarnessRow

(* A process makes a call, or a move of its own.                           *)
LEMMA ChildMove ==
    ASSUME Inv, NEW n \in Children, child[n].pc # "unborn",
           NEW b2, RowOK(b2), Kept(book[child[n].d], b2),
           book' = [book EXCEPT ![child[n].d] = b2],
           NEW c2, TypedChild(c2), Facts(n, c2, b2),
           c2.d = child[n].d, c2.pc # "unborn", c2.owned = child[n].owned,
           child' = [child EXCEPT ![n] = c2],
           \A g \in 1..2 :
              Reader(c2, g) => \/ Reader(child[n], g)
                               \/ book[child[n].d].gens[g].insp = "none",
           Current(b2).thread = n => c2.thread # "none" /\ c2.gen = b2.gen,
           Current(b2).thread \notin {0, n} =>
              /\ b2.gen = book[child[n].d].gen
              /\ Current(b2).thread = Current(book[child[n].d]).thread,
           \/ /\ UNCHANGED harness
              /\ Owed(b2) => Owed(book[child[n].d])
              /\ harness.at = "wake" => b2.wake = book[child[n].d].wake
           \/ Trigger,
           dispatch' \in DispatchRow,
           dispatch'.queue \in {"active", "attention"} =>
              dispatch.queue \in {"active", "attention"},
           UNCHANGED held
    PROVE  Step
  <1> DEFINE d == child[n].d
             b == book[d]
  <1>1. /\ d \in Decisions /\ book = [e \in Decisions |-> book[e]] /\ RowOK(b)
        /\ child = [m \in Children |-> child[m]] /\ harness \in HarnessRow
        /\ \A m \in Children : child[m].d \in Decisions /\ TypedChild(child[m])
        /\ held \in [Decisions -> Nat] /\ n # 0
    BY DEF Inv, Typed, TypedChild, ChildColumns, Children
  <1>2. /\ book'[d] = b2 /\ \A e \in Decisions : e # d => book'[e] = book[e]
        /\ book' = [e \in Decisions |-> book'[e]]
        /\ child'[n] = c2 /\ \A m \in Children : m # n => child'[m] = child[m]
        /\ child' = [m \in Children |-> child'[m]]
    BY <1>1
  <1> HIDE DEF d
  <1>3. \A e \in Decisions : RowOK(book[e]) /\ RowOK(book'[e]) /\ Kept(book[e], book'[e])
    BY <1>1, <1>2, SameRow DEF Inv, Good, d
  <1>4. \A m \in Children : m # n => child'[m].d = child[m].d /\ ChildFacts(m)'
    BY <1>1, <1>2, <1>3, FactsKept DEF Inv, ChildFacts
  <1>5. ChildFacts(n)'
    BY <1>2 DEF ChildFacts, d
  <1>6. harness' \in HarnessRow
    BY <1>1, TriggerTyped
  <1>7. Typed'
    BY <1>1, <1>2, <1>6 DEF Typed
  <1>8. ReaderFacts'
    <2> SUFFICES ASSUME NEW m \in Children, NEW k \in Children, NEW g \in 1..2,
                        m # k, child'[m].d = child'[k].d,
                        Reader(child'[m], g), Reader(child'[k], g)
                 PROVE  FALSE
      BY DEF ReaderFacts
    <2>1. child'[m].d = child[m].d /\ child'[k].d = child[k].d
      BY <1>2 DEF d
    <2>2. ~(Reader(child[m], g) /\ Reader(child[k], g))
      BY <2>1 DEF Inv, ReaderFacts
    <2>3. \A l \in Children : Reader(child[l], g) => book[child[l].d].gens[g].insp # "none"
      BY DEF Inv, ChildFacts, Facts
    <2>4. CASE m = n
      BY <2>1, <2>2, <2>3, <2>4, <1>2 DEF d
    <2>5. CASE k = n
      BY <2>1, <2>2, <2>3, <2>5, <1>2 DEF d
    <2>6. CASE m # n /\ k # n
      BY <2>2, <2>6, <1>2
    <2>7. QED
      BY <2>4, <2>5, <2>6
  <1>9. \A e \in Decisions : ThreadFacts(e)'
    <2> TAKE e \in Decisions
    <2> DEFINE k == Current(book'[e]).thread
    <2> SUFFICES ASSUME k # 0
                 PROVE  /\ child'[k].d = e /\ child'[k].gen = book'[e].gen
                        /\ child'[k].thread # "none"
      BY DEF ThreadFacts, Current
    <2>1. ThreadFacts(e)
      BY DEF Inv
    <2>2. k \in Children
      <3>1. RowOK(book'[e])
        BY <1>3
      <3>2. TypedGeneration(Current(book'[e]))
        BY <3>1, CurrentTyped DEF RowOK, Current
      <3>3. QED
        BY <3>2 DEF TypedGeneration, GenerationColumns
    <2>3. CASE e = d /\ k = n
      BY <2>3, <1>2 DEF d
    <2>4. CASE e = d /\ k # n
      BY <2>1, <2>2, <2>4, <1>2 DEF ThreadFacts, d
    <2>5. CASE e # d
      <3>1. k # n
        BY <2>1, <2>5, <1>2 DEF ThreadFacts, d
      <3>2. QED
        BY <2>1, <2>2, <2>5, <3>1, <1>2 DEF ThreadFacts
    <2>6. QED
      BY <2>3, <2>4, <2>5
  <1>10. \A e \in Decisions : OwedFacts(e)'
    <2>1. CASE Trigger
      <3>1. harness'.at = "deliver"
        BY <2>1, <1>1 DEF Trigger, HarnessRow
      <3>2. QED
        BY <3>1 DEF OwedFacts
    <2>2. CASE UNCHANGED harness /\ (Owed(b2) => Owed(b))
      <3> TAKE e \in Decisions
      <3> SUFFICES ASSUME Owed(book'[e])
                   PROVE  /\ harness.at = "serve" => Attended(e)'
                          /\ harness.at \in {"schedule", "launch"} =>
                                \/ Attended(e)'
                                \/ e \in harness.todo
                                \/ harness.at = "launch" /\ e = harness.cur
        BY <2>2 DEF OwedFacts
      <3>1. Owed(book[e])
        BY <2>2, <1>2
      <3>2. Registered' = Registered /\ Launched' = Launched
        BY <1>2 DEF Registered, Launched, d
      <3>3. Attended(e) => Attended(e)'
        BY <2>2, <3>1, <3>2, <1>3 DEF Attended, Kept, Owed
      <3>4. QED
        BY <3>1, <3>3 DEF Inv, OwedFacts
    <2>3. QED
      BY <2>1, <2>2 DEF d
  <1>11. PositionFacts'
    <2>1. CASE Trigger
      <3>1. harness'.at = "deliver"
        BY <2>1, <1>1 DEF Trigger, HarnessRow
      <3>2. QED
        BY <3>1 DEF PositionFacts
    <2>2. CASE UNCHANGED harness /\ (harness.at = "wake" => b2.wake = b.wake)
      <3>1. harness.cur \in Decisions
        BY <1>1 DEF HarnessRow
      <3>2. PositionFacts /\ Kept(book[harness.cur], book'[harness.cur])
        BY <3>1, <1>3 DEF Inv
      <3>3. harness.at = "wake" => book'[harness.cur].wake = book[harness.cur].wake
        BY <2>2, <3>1, <1>2
      <3>4. QED
        BY <2>2, <3>2, <3>3 DEF PositionFacts, Kept
    <2>3. QED
      BY <2>1, <2>2 DEF d
  <1>12. DispatchFacts'
    BY <1>3, DispatchKept
  <1>13. QED
    BY <1>3, <1>4, <1>5, <1>7, <1>8, <1>9, <1>10, <1>11, <1>12, KeptActs
       DEF Step, Inv

\* The rows may change, and processes may end.
RowsMoved ==
    /\ book' = [d \in Decisions |-> book'[d]]
    /\ \A d \in Decisions : Sound(book[d], book'[d])
    /\ child' = [n \in Children |-> child'[n]]
    /\ \A n \in Children : TypedChild(child'[n]) /\ Weaker(child[n], child'[n])
    /\ harness' \in HarnessRow /\ dispatch' \in DispatchRow
    /\ held' \in [Decisions -> Nat]
    /\ dispatch'.queue \in {"active", "attention"} =>
          dispatch.queue \in {"active", "attention"}

(* Such a step leaves only the place of the harness thread to be shown.    *)
LEMMA RowsMove ==
    ASSUME Inv, RowsMoved, \A d \in Decisions : OwedFacts(d)', PositionFacts'
    PROVE  Step
  <1>1. \A d \in Decisions : /\ RowOK(book[d]) /\ RowOK(book'[d])
                             /\ Kept(book[d], book'[d])
                             /\ SameThread(book[d], book'[d])
    BY DEF Inv, RowsMoved, Sound
  <1>2. \A n \in Children : /\ TypedChild(child[n]) /\ TypedChild(child'[n])
                            /\ child[n].d \in Decisions
                            /\ Weaker(child[n], child'[n])
                            /\ child'[n].d = child[n].d
    BY DEF Inv, Typed, TypedChild, ChildColumns, RowsMoved, Weaker
  <1>3. Typed'
    BY <1>2 DEF RowsMoved, Typed
  <1>4. \A n \in Children : ChildFacts(n)'
    <2> TAKE n \in Children
    <2>1. Facts(n, child[n], book[child[n].d])
      BY DEF Inv, ChildFacts
    <2>2. Facts(n, child[n], book'[child[n].d])
      BY <1>1, <1>2, <2>1, FactsKept
    <2>3. Facts(n, child'[n], book'[child[n].d])
      BY <1>1, <1>2, <2>2, FactsWeaker
    <2>4. QED
      BY <1>2, <2>3 DEF ChildFacts
  <1>5. ReaderFacts'
    <2>1. \A n \in Children, g \in 1..2 : Reader(child'[n], g) => Reader(child[n], g)
      BY <1>2 DEF Reader, Weaker, Exited
    <2>2. ReaderFacts
      BY DEF Inv
    <2>3. QED
      BY <1>2, <2>1, <2>2 DEF ReaderFacts
  <1>6. \A d \in Decisions : ThreadFacts(d)'
    <2> TAKE d \in Decisions
    <2> DEFINE k == Current(book'[d]).thread
    <2> SUFFICES ASSUME k # 0
                 PROVE  /\ child'[k].d = d /\ child'[k].gen = book'[d].gen
                        /\ child'[k].thread # "none"
      BY DEF ThreadFacts, Current
    <2>1. k \in Children
      <3>1. TypedGeneration(Current(book'[d]))
        BY <1>1, CurrentTyped DEF RowOK, Current
      <3>2. QED
        BY <3>1 DEF TypedGeneration, GenerationColumns
    <2>2. k = Current(book[d]).thread /\ book'[d].gen = book[d].gen
      BY <1>1 DEF SameThread
    <2>3. /\ child[k].d = d /\ child[k].gen = book[d].gen
          /\ child[k].thread # "none"
      BY <2>2 DEF Inv, ThreadFacts
    <2>4. QED
      BY <1>2, <2>1, <2>2, <2>3 DEF Weaker
  <1>7. DispatchFacts'
    BY <1>1, DispatchKept DEF RowsMoved
  <1>8. QED
    BY <1>1, <1>3, <1>4, <1>5, <1>6, <1>7, KeptActs DEF Step, Inv

(* A step after which the harness thread is down or before its wakes.      *)
LEMMA TriggerMove ==
    ASSUME Inv, RowsMoved, harness'.at \in {"down", "deliver"}
    PROVE  Step
  BY RowsMove DEF OwedFacts, PositionFacts

(* A step the harness thread and the processes do not notice.              *)
LEMMA QuietMove ==
    ASSUME Inv, RowsMoved, UNCHANGED child,
           \A d \in Decisions : Owed(book'[d]) => Owed(book[d]),
           harness'.at = harness.at /\ harness'.cur = harness.cur,
           harness'.todo = harness.todo /\ harness'.mode = harness.mode,
           harness'.failed = harness.failed,
           harness.at = "wake" =>
              book'[harness.cur].wake = book[harness.cur].wake
    PROVE  Step
  <1>1. \A d \in Decisions : Kept(book[d], book'[d])
    BY DEF RowsMoved, Sound
  <1>2. \A d \in Decisions : OwedFacts(d)'
    <2> TAKE d \in Decisions
    <2>1. Registered' = Registered /\ Launched' = Launched
      BY DEF Registered, Launched
    <2>2. Owed(book'[d]) => Owed(book[d])
      OBVIOUS
    <2>3. Owed(book'[d]) /\ Attended(d) => Attended(d)'
      BY <1>1, <2>1, <2>2 DEF Attended, Kept, Owed
    <2>4. OwedFacts(d)
      BY DEF Inv
    <2>5. QED
      BY <2>2, <2>3, <2>4 DEF OwedFacts
  <1>3. PositionFacts'
    <2>1. harness.cur \in Decisions /\ PositionFacts
      BY DEF Inv, Typed, HarnessRow
    <2>2. Kept(book[harness.cur], book'[harness.cur])
      BY <1>1, <2>1
    <2>3. QED
      BY <2>1, <2>2 DEF PositionFacts, Kept
  <1>4. QED
    BY <1>2, <1>3, RowsMove

(* A process that stays as it is, or ends.                                 *)
LEMMA WeakerSame ==
    ASSUME NEW c
    PROVE  Weaker(c, c)
  BY DEF Weaker

(* A process that ends keeps its identity and owns no more than before. *)
LEMMA EndedTyped ==
    ASSUME NEW c, TypedChild(c), c.pc # "unborn", NEW pc \in Exited
    PROVE  /\ TypedChild(Ended(c, pc)) /\ Weaker(c, Ended(c, pc))
           /\ Ended(c, pc).owned = c.owned /\ Ended(c, pc).d = c.d
           /\ Ended(c, pc).pc = pc
  <1> DEFINE e == Ended(c, pc)
  <1>1. ChildShape(e)
    BY ZenonT(30) DEF Ended, NoChild, ChildShape, ChildFields
  <1>2. /\ e.d = c.d /\ e.mode = c.mode /\ e.pc = pc /\ e.owned = c.owned
        /\ e.read = c.read
        /\ e.gen = (IF c.thread = "none" THEN 0 ELSE c.gen)
        /\ e.token = (IF c.thread = "none" THEN 0 ELSE c.token)
        /\ e.thread = (IF c.thread = "running" THEN "interrupted" ELSE c.thread)
        /\ e.eff = (IF c.thread = "completed" THEN c.eff ELSE "none")
        /\ e.rev = 0 /\ e.waited = FALSE /\ e.peer = 0 /\ e.found = "none"
        /\ e.waited \in BOOLEAN
    BY DEF Ended, NoChild
  <1> HIDE DEF e
  <1>3. ChildColumns(e)
    BY <1>2 DEF TypedChild, ChildColumns
  <1>4. Weaker(c, e)
    BY <1>2 DEF Weaker, TypedChild, ChildColumns
  <1>5. QED
    BY <1>1, <1>2, <1>3, <1>4 DEF TypedChild, e

(* One transaction on one decision, and no process changes.                *)
LEMMA OneRow ==
    ASSUME Inv, NEW d \in Decisions, NEW b2, Sound(book[d], b2),
           book' = [book EXCEPT ![d] = b2], UNCHANGED child,
           harness' \in HarnessRow, dispatch' \in DispatchRow,
           held' \in [Decisions -> Nat],
           dispatch'.queue \in {"active", "attention"} =>
              dispatch.queue \in {"active", "attention"}
    PROVE  RowsMoved /\ book'[d] = b2 /\ \A e \in Decisions : e # d => book'[e] = book[e]
  <1>1. book = [e \in Decisions |-> book[e]]
    BY DEF Inv, Typed
  <1>2. book'[d] = b2 /\ \A e \in Decisions : e # d => book'[e] = book[e]
    BY <1>1
  <1>3. \A e \in Decisions : Sound(book[e], book'[e])
    BY <1>2, SameRow DEF Inv, Good, Sound, Calm
  <1>4. child = [n \in Children |-> child[n]] /\ \A n \in Children : TypedChild(child[n])
    BY DEF Inv, Typed
  <1>5. book' = [e \in Decisions |-> book'[e]]
    BY <1>1
  <1>6. QED
    BY <1>2, <1>3, <1>4, <1>5, WeakerSame DEF RowsMoved

(* A step of one decision that no process makes: the other decisions, and so what their
   processes know of them, are left alone. *)
LEMMA OneGoodRow ==
    ASSUME Inv, NEW d \in Decisions, NEW b2, Good(book[d], b2),
           book' = [book EXCEPT ![d] = b2], UNCHANGED child,
           harness' \in HarnessRow, dispatch' \in DispatchRow,
           held' \in [Decisions -> Nat],
           dispatch'.queue \in {"active", "attention"} =>
              dispatch.queue \in {"active", "attention"}
    PROVE  /\ RowsMoved /\ book'[d] = b2
           /\ \A e \in Decisions : e # d => book'[e] = book[e]
           /\ \A e \in Decisions : Owed(book'[e]) => Owed(book[e])
  <1>1. Sound(book[d], b2) /\ (Owed(b2) => Owed(book[d]))
    BY DEF Good, Sound, Calm
  <1>2. /\ RowsMoved /\ book'[d] = b2
        /\ \A e \in Decisions : e # d => book'[e] = book[e]
    BY <1>1, OneRow
  <1>3. QED
    BY <1>1, <1>2

(* No row changes.                                                         *)
LEMMA NoRowMoves ==
    ASSUME Inv, UNCHANGED <<book, dispatch, held>>, harness' \in HarnessRow,
           child' = [n \in Children |-> child'[n]],
           \A n \in Children : TypedChild(child'[n]) /\ Weaker(child[n], child'[n])
    PROVE  RowsMoved
  BY SameRow DEF RowsMoved, Inv, Typed, Good, Sound, Calm

----------------------------------------------------------------------------
(* Time *)

(* The claim's lease runs out. *)
LEMMA ExpireClaimStep ==
    ASSUME Inv, NEW d \in Decisions, ExpireClaim(d) PROVE Step
  <1>1. RowOK(book[d]) /\ book[d].lease = "live" /\ book = [e \in Decisions |-> book[e]]
    BY DEF Inv, Typed, ExpireClaim
  <1>2. Good(book[d], ClaimExpired(book[d]))
    BY <1>1, ClaimExpiredRow
  <1>3. book' = [book EXCEPT ![d] = ClaimExpired(book[d])]
    BY <1>1 DEF ExpireClaim, ClaimExpired
  <1>4. /\ RowsMoved /\ \A e \in Decisions : Owed(book'[e]) => Owed(book[e])
        /\ book'[d] = ClaimExpired(book[d])
        /\ \A e \in Decisions : e # d => book'[e] = book[e]
    BY <1>2, <1>3, OneGoodRow DEF ExpireClaim, Inv, Typed
  <1>5. \A e \in Decisions : book'[e].wake = book[e].wake
    BY ZenonT(30), <1>1, <1>4 DEF ClaimExpired, RowOK, TypedBook, BookShape, Columns
  <1>6. QED
    BY <1>4, <1>5, QuietMove DEF ExpireClaim, Inv, Typed, HarnessRow

(* The decision's deadline passes. *)
LEMMA PassDeadlineStep ==
    ASSUME Inv, NEW d \in Decisions, PassDeadline(d) PROVE Step
  <1>1. RowOK(book[d]) /\ Outstanding(book[d]) /\ book = [e \in Decisions |-> book[e]]
    BY DEF Inv, Typed, PassDeadline
  <1>2. Good(book[d], Overdue(book[d]))
    BY <1>1, OverdueRow
  <1>3. book' = [book EXCEPT ![d] = Overdue(book[d])]
    BY <1>1 DEF PassDeadline, Overdue
  <1>4. /\ RowsMoved /\ \A e \in Decisions : Owed(book'[e]) => Owed(book[e])
        /\ book'[d] = Overdue(book[d])
        /\ \A e \in Decisions : e # d => book'[e] = book[e]
    BY <1>2, <1>3, OneGoodRow DEF PassDeadline, Inv, Typed
  <1>5. \A e \in Decisions : book'[e].wake = book[e].wake
    BY ZenonT(30), <1>1, <1>4 DEF Overdue, RowOK, TypedBook, BookShape, Columns
  <1>6. QED
    BY <1>4, <1>5, QuietMove DEF PassDeadline, Inv, Typed, HarnessRow

(* The inspection's lease runs out. *)
LEMMA ExpireInspectionStep ==
    ASSUME Inv, NEW d \in Decisions, ExpireInspection(d) PROVE Step
  <1>1. RowOK(book[d]) /\ Current(book[d]).insp = "live" /\ book = [e \in Decisions |-> book[e]]
    BY DEF Inv, Typed, ExpireInspection
  <1>2. Good(book[d], ReadExpired(book[d]))
    BY <1>1, ReadExpiredRow
  <1>3. book' = [book EXCEPT ![d] = ReadExpired(book[d])]
    BY <1>1 DEF ExpireInspection, ReadExpired
  <1>4. /\ RowsMoved /\ \A e \in Decisions : Owed(book'[e]) => Owed(book[e])
        /\ book'[d] = ReadExpired(book[d])
        /\ \A e \in Decisions : e # d => book'[e] = book[e]
    BY <1>2, <1>3, OneGoodRow DEF ExpireInspection, Inv, Typed
  <1>5. \A e \in Decisions : book'[e].wake = book[e].wake
    BY <1>1, <1>4 DEF ReadExpired, RowOK, TypedBook, BookShape, Columns
  <1>6. QED
    BY <1>4, <1>5, QuietMove DEF ExpireInspection, Inv, Typed, HarnessRow

----------------------------------------------------------------------------
(* People *)

(* Counting a command of an operator.                                      *)
LEMMA HumanCounted ==
    ASSUME Inv, harness' = [harness EXCEPT !.humans = @ + 1]
    PROVE  /\ harness' \in HarnessRow /\ harness'.at = harness.at
           /\ harness'.cur = harness.cur /\ harness'.todo = harness.todo
           /\ harness'.mode = harness.mode /\ harness'.failed = harness.failed
  BY DEF Inv, Typed, HarnessRow

(* An operator claims the decision over the socket (claim_controller_decision). *)
LEMMA OperatorClaimStep ==
    ASSUME Inv, NEW d \in Decisions, NEW kind \in {"human", "model"},
           OperatorClaim(d, kind)
    PROVE  Step
  <1>1. RowOK(book[d]) /\ book[d].rev \in Nat /\ held \in [Decisions -> Nat]
    BY DEF Inv, Typed, RowOK, TypedBook, BookColumns
  <1>2. Good(book[d], Claim(book[d], kind))
    BY <1>1, ClaimRow DEF OperatorClaim, Commit
  <1>3. RowsMoved /\ \A e \in Decisions : Owed(book'[e]) => Owed(book[e])
    BY <1>1, <1>2, HumanCounted, OneGoodRow DEF OperatorClaim, Commit, Inv, Typed
  <1>4. QED
    BY <1>3, HumanCounted, QuietMove DEF OperatorClaim, Serving

\* What a bundle does to the dispatch it belongs to.
LEMMA AppliedTyped ==
    ASSUME Inv, NEW eff, EffectAllowed(eff, dispatch.queue)
    PROVE  /\ Applied(eff) \in DispatchRow
           /\ Applied(eff).queue \in {"active", "attention"} =>
                 dispatch.queue \in {"active", "attention"}
  <1> DEFINE a == [dispatch EXCEPT !.armed = @ \/ eff = "rearm_checkpoint"]
  <1>1. a \in DispatchRow /\ a.queue = dispatch.queue
    BY DEF Inv, Typed, DispatchRow
  <1>2. Applied(eff) = [a EXCEPT !.queue = IF eff = "retry_dispatch" THEN "active" ELSE @]
    BY DEF Applied
  <1> HIDE DEF a
  <1>3. QED
    BY <1>1, <1>2 DEF DispatchRow, EffectAllowed

(* An operator acknowledges the bundle it committed under its claim. *)
LEMMA OperatorAckStep ==
    ASSUME Inv, NEW d \in Decisions, OperatorAck(d) PROVE Step
  <1>1. RowOK(book[d])
    BY DEF Inv
  <1>2. Good(book[d], Ack(book[d]))
    BY <1>1, AckRow DEF OperatorAck, Commit, AckOk, Replay
  <1>3. RowsMoved /\ \A e \in Decisions : Owed(book'[e]) => Owed(book[e])
    BY <1>2, OneGoodRow DEF OperatorAck, Commit, Inv, Typed
  <1>4. QED
    BY <1>3, QuietMove DEF OperatorAck, Serving

(* Two transactions, one after the other.                                  *)
LEMMA GoodTrans ==
    ASSUME NEW b, RowOK(b), NEW c, Good(b, c), NEW e, Good(c, e),
           c.token = b.token /\ c.kind = b.kind /\ c.lease = b.lease
    PROVE  Good(b, e)
  <1>1. /\ b.gen \in Nat /\ c.gen \in Nat /\ e.gen \in Nat
        /\ b.rev \in Nat /\ c.rev \in Nat /\ e.rev \in Nat
        /\ b.token \in Nat /\ c.token \in Nat /\ e.token \in Nat
    BY DEF Good, RowOK, TypedBook, BookColumns
  <1>2. Kept(b, e)
    BY <1>1 DEF Good, Kept
  <1>3. QED
    BY <1>1, <1>2 DEF Good, Calm, SameThread

(* An operator submits a bundle under the claim it holds. *)
LEMMA OperatorSubmitStep ==
    ASSUME Inv, NEW d \in Decisions, NEW eff \in Effects,
           OperatorSubmit(d, eff)
    PROVE  Step
  <1> DEFINE b2 == Submit(book[d], eff, 0)
  <1>1. RowOK(book[d])
    BY DEF Inv
  <1>2. RowOK(b2) /\ Kept(book[d], b2) /\ Current(b2) = Current(book[d])
        /\ b2.gen = book[d].gen
    BY <1>1, SubmitRow DEF OperatorSubmit, Commit, SubmitOk
  <1>3. Sound(book[d], b2)
    BY <1>2 DEF Sound, SameThread
  <1>4. /\ harness' \in HarnessRow /\ harness'.at = "deliver"
        /\ dispatch' \in DispatchRow
        /\ dispatch'.queue \in {"active", "attention"} =>
              dispatch.queue \in {"active", "attention"}
    BY TriggerTyped, AppliedTyped DEF OperatorSubmit, Inv, Typed
  <1>5. RowsMoved
    BY <1>3, <1>4, OneRow DEF OperatorSubmit, Commit, Inv, Typed
  <1>6. QED
    BY <1>4, <1>5, TriggerMove

(* An operator reserves an inspection and records its outcome. *)
LEMMA OperatorRecoverStep ==
    ASSUME Inv, NEW d \in Decisions, NEW outcome \in InspectionOutcomes,
           OperatorRecover(d, outcome)
    PROVE  Step
  <1> DEFINE b == book[d]
             reserved == Reserve(b)
             done == Inspected(reserved, outcome, "none")
             b2 == book'[d]
  <1>1. RowOK(b) /\ Good(b, reserved)
    BY ReserveRow DEF Inv, OperatorRecover
  <1>2. reserved.token = b.token /\ reserved.kind = b.kind /\ reserved.lease = b.lease
    BY <1>1 DEF Reserve, SetGen, RowOK, TypedBook, BookShape, Columns
  <1>3. /\ outcome # "completed"
        /\ InspectedOk(reserved, b.gen, b.rev, outcome, 0)
        /\ BookValid(done)
        => Good(reserved, done)
    BY <1>1, InspectedRow DEF Good
  <1>4. book' = [book EXCEPT ![d] =
                   IF /\ outcome # "completed"
                      /\ InspectedOk(reserved, b.gen, b.rev, outcome, 0)
                      /\ BookValid(done)
                   THEN done ELSE reserved]
    BY DEF OperatorRecover
  <1> HIDE DEF reserved, done
  <1>5. PICK c : Good(b, c) /\ book' = [book EXCEPT ![d] = c]
    BY <1>1, <1>2, <1>3, <1>4, GoodTrans
  <1>6. RowsMoved /\ \A e \in Decisions : Owed(book'[e]) => Owed(book[e])
    BY <1>5, HumanCounted, OneGoodRow DEF OperatorRecover, Inv, Typed
  <1>7. QED
    BY <1>6, HumanCounted, QuietMove DEF OperatorRecover, Serving

----------------------------------------------------------------------------
(* The dispatch *)

(* A decision is opened, and others may be closed in the same transaction. *)
LEMMA OpenMove ==
    ASSUME Inv, NEW d \in Decisions, book[d].state = "absent",
           NEW source \in BOOLEAN, NEW closed \in BOOLEAN,
           book' = [e \in Decisions |-> book'[e]],
           book'[d] = NewDecision(source, closed),
           \A e \in Decisions : e # d => Sound(book[e], book'[e]),
           UNCHANGED <<child, held>>, Trigger,
           dispatch' \in DispatchRow, DispatchFacts'
    PROVE  Step
  <1> DEFINE b2 == NewDecision(source, closed)
  <1>1. RowOK(b2) /\ b2.state # "absent"
    BY NewRow
  <1>2. b2.gen = 1 /\ b2.gens[1].thread = 0 /\ Current(b2).thread = 0
    BY DEF NewDecision, NoBook, NoGeneration, Current
  <1> HIDE DEF b2
  <1>3. harness' \in HarnessRow /\ harness'.at = "deliver"
    BY TriggerTyped DEF Inv, Typed
  <1>4. Typed'
    BY <1>3 DEF Inv, Typed
  <1>5. \A e \in Decisions : RowOK(book[e]) /\ RowOK(book'[e])
    BY <1>1 DEF Inv, Sound, b2
  <1>6. \A n \in Children : ChildFacts(n)'
    <2> TAKE n \in Children
    <2>1. /\ Facts(n, child[n], book[child[n].d]) /\ TypedChild(child[n])
          /\ child[n].d \in Decisions
      BY DEF Inv, ChildFacts, Typed, TypedChild, ChildColumns
    <2>2. CASE child[n].d # d
      <3>1. Kept(book[child[n].d], book'[child[n].d])
        BY <2>1, <2>2 DEF Sound
      <3>2. QED
        BY <1>5, <2>1, <3>1, FactsKept DEF ChildFacts
    <2>3. CASE child[n].d = d
      <3>1. child[n] = NoChild
        BY <2>1, <2>3 DEF Facts, Reached
      <3>2. /\ NoChild.pc = "unborn" /\ NoChild.gen = 0 /\ NoChild.mode = "none"
            /\ NoChild.thread = "none" /\ NoChild.read = 0
        BY DEF NoChild
      <3>3. Facts(n, NoChild, b2)
        BY <1>2, <3>2 DEF Facts, Bound, Reader
      <3>4. QED
        BY <2>3, <3>1, <3>3 DEF ChildFacts, b2
    <2>4. QED
      BY <2>2, <2>3
  <1>7. ReaderFacts'
    BY DEF Inv, ReaderFacts
  <1>8. \A e \in Decisions : ThreadFacts(e)'
    <2> TAKE e \in Decisions
    <2>1. CASE e = d
      BY <1>2, <2>1 DEF ThreadFacts, Current, b2
    <2>2. CASE e # d
      <3>1. SameThread(book[e], book'[e]) /\ ThreadFacts(e)
        BY <2>2 DEF Inv, Sound
      <3>2. QED
        BY <3>1 DEF ThreadFacts, SameThread, Current
    <2>3. QED
      BY <2>1, <2>2
  <1>9. (\A e \in Decisions : OwedFacts(e)') /\ PositionFacts'
    BY <1>3 DEF OwedFacts, PositionFacts
  <1>10. \A e \in Decisions : RowAct(book[e], book'[e])
    <2> TAKE e \in Decisions
    <2>1. CASE e = d
      BY <2>1 DEF Inv, RowOK, BookValid, RowAct
    <2>2. CASE e # d
      BY <2>2, KeptActs DEF Sound
    <2>3. QED
      BY <2>1, <2>2
  <1>11. QED
    BY <1>4, <1>5, <1>6, <1>7, <1>8, <1>9, <1>10 DEF Step, Inv

(* A checkpoint falls due and emits a decision. *)
LEMMA CheckpointDueStep ==
    ASSUME Inv, CheckpointDue PROVE Step
  <1>1. PICK k \in 0..MaxCycle : Opened = 1..k
    BY DEF Inv, DispatchFacts
  <1>2. MaxCycle \in Nat
    BY ControllerBounds
  <1>3. Cardinality(Opened) + 1 = k + 1
    <2>1. Cardinality(1..k) = IF 1 > k THEN 0 ELSE k - 1 + 1
      BY <1>1, <1>2, FS_Interval
    <2>2. QED
      BY <1>1, <1>2, <2>1
  <1>4. k < MaxCycle
    BY <1>1, <1>2 DEF CheckpointDue, Checkpoints
  <1>5. k + 1 \in Decisions /\ k + 1 \in Checkpoints /\ k + 1 \notin Opened /\ k + 1 # 0
    BY <1>1, <1>2, <1>4 DEF Decisions, Checkpoints
  <1>6. /\ book[k + 1].state = "absent" /\ book = [e \in Decisions |-> book[e]]
        /\ dispatch \in DispatchRow /\ dispatch.source \in BOOLEAN
    BY <1>5 DEF Opened, Inv, Typed, DispatchRow
  <1>7. /\ book'[k + 1] = NewDecision(dispatch.source, FALSE)
        /\ \A e \in Decisions : e # k + 1 => book'[e] = book[e]
        /\ book' = [e \in Decisions |-> book'[e]]
    BY <1>3, <1>5, <1>6 DEF CheckpointDue
  <1>8. \A e \in Decisions : e # k + 1 => Sound(book[e], book'[e])
    BY <1>7, SameRow DEF Inv, Good, Sound, Calm
  <1>9. dispatch' \in DispatchRow /\ dispatch'.queue = dispatch.queue
    BY <1>6 DEF CheckpointDue, DispatchRow
  <1>10. DispatchFacts'
    <2>1. NewDecision(dispatch.source, FALSE).state # "absent"
      BY <1>6, NewRow
    <2>2. Opened' = 1..(k + 1)
      <3>1. \A e \in Checkpoints : e \in Opened' <=> (e \in Opened \/ e = k + 1)
        <4> TAKE e \in Checkpoints
        <4>1. e \in Decisions
          BY <1>2 DEF Checkpoints, Decisions
        <4>2. CASE e = k + 1
          BY <1>7, <2>1, <4>2 DEF Opened
        <4>3. CASE e # k + 1
          <5>1. book'[e] = book[e]
            BY <1>7, <4>1, <4>3
          <5>2. QED
            BY <4>3, <5>1 DEF Opened
        <4>4. QED
          BY <4>2, <4>3
      <3>2. QED
        BY <1>1, <1>2, <1>4, <3>1 DEF Opened, Checkpoints
    <2>3. k + 1 \in 0..MaxCycle
      BY <1>2, <1>4
    <2>4. book'[0].state = book[0].state
      BY <1>2, <1>5, <1>7 DEF Decisions
    <2>5. QED
      BY <1>9, <2>2, <2>3, <2>4 DEF Inv, DispatchFacts
  <1>11. QED
    BY <1>5, <1>6, <1>7, <1>8, <1>9, <1>10, OpenMove DEF CheckpointDue

(* The dispatch ends: its terminal decision is opened, the others are closed unless a
   bundle was committed, all in one transaction. *)
LEMMA FinalizeStep ==
    ASSUME Inv, Finalize PROVE Step
  <1> DEFINE next == [e \in Decisions |->
                        IF e = 0 THEN NewDecision(dispatch.source, TRUE)
                        ELSE Closed(book[e])]
  <1>1. book' = next /\ \A e \in Decisions : BookValid(next[e])
    BY DEF Finalize, Closed
  <1>2. 0 \in Decisions
    BY ControllerBounds DEF Decisions
  <1>3. /\ book[0].state = "absent" /\ dispatch \in DispatchRow
        /\ dispatch.source \in BOOLEAN
    BY DEF Finalize, Inv, Typed, DispatchFacts, DispatchRow
  <1>4. \A e \in Decisions : e # 0 => Sound(book[e], book'[e])
    <2> TAKE e \in Decisions
    <2> HAVE e # 0
    <2>1. book'[e] = Closed(book[e]) /\ BookValid(Closed(book[e]))
      BY <1>1
    <2>2. Good(book[e], Closed(book[e]))
      BY <2>1, ClosedRow DEF Inv
    <2>3. QED
      BY <2>1, <2>2 DEF Good, Sound, Calm
  <1>5. dispatch' \in DispatchRow /\ dispatch'.queue = "completed"
    <2> DEFINE a == [dispatch EXCEPT !.queue = "completed"]
    <2>1. a \in DispatchRow /\ a.queue = "completed"
      BY <1>3 DEF DispatchRow
    <2>2. dispatch' = [a EXCEPT !.armed = FALSE]
      BY DEF Finalize
    <2> HIDE DEF a
    <2>3. QED
      BY <2>1, <2>2 DEF DispatchRow
  <1>6. DispatchFacts'
    <2>1. \A e \in Checkpoints : book'[e].state = "absent" <=> book[e].state = "absent"
      BY <1>4, ControllerBounds DEF Checkpoints, Decisions, Sound, Kept
    <2>2. Opened' = Opened
      BY <2>1 DEF Opened
    <2>3. QED
      BY <1>5, <2>2 DEF Inv, DispatchFacts
  <1>7. book'[0] = NewDecision(dispatch.source, TRUE) /\ book' = [e \in Decisions |-> book'[e]]
    BY <1>1, <1>2
  <1>8. QED
    BY <1>2, <1>3, <1>4, <1>5, <1>6, <1>7, OpenMove DEF Finalize

(* The dispatch is cancelled: its outstanding decisions are superseded. *)
LEMMA CancelStep ==
    ASSUME Inv, Cancel PROVE Step
  <1> DEFINE next == [e \in Decisions |->
                        IF e = 0 THEN book[e] ELSE Retired(book[e])]
  <1>1. book' = next /\ \A e \in Decisions : BookValid(next[e])
    BY DEF Cancel, Retired
  <1>2. \A e \in Decisions : Sound(book[e], book'[e])
    <2> TAKE e \in Decisions
    <2>1. CASE e = 0
      BY <1>1, <2>1, SameRow DEF Inv, Good, Sound, Calm
    <2>2. CASE e # 0
      <3>1. book'[e] = Retired(book[e]) /\ BookValid(Retired(book[e]))
        BY <1>1, <2>2
      <3>2. Good(book[e], Retired(book[e]))
        BY <3>1, RetiredRow DEF Inv
      <3>3. QED
        BY <3>1, <3>2 DEF Good, Sound, Calm
    <2>3. QED
      BY <2>1, <2>2
  <1>3. /\ dispatch' \in DispatchRow /\ dispatch'.queue = "cancelled"
        /\ harness' \in HarnessRow /\ harness'.at = "deliver"
    BY TriggerTyped DEF Cancel, Inv, Typed, DispatchRow
  <1>4. RowsMoved
    BY <1>1, <1>2, <1>3, WeakerSame DEF RowsMoved, Cancel, Inv, Typed
  <1>5. QED
    BY <1>3, <1>4, TriggerMove

(* A worker needs a human: the checkpoint timer may be rearmed, no decision changes. *)
LEMMA WorkerAttentionStep ==
    ASSUME Inv, WorkerAttention PROVE Step
  <1>1. dispatch' \in DispatchRow
    <2> DEFINE a == [dispatch EXCEPT !.queue = "attention"]
    <2>1. a \in DispatchRow
      BY DEF Inv, Typed, DispatchRow
    <2>2. dispatch' = [a EXCEPT !.armed = @ \/ RearmAllowed]
      BY DEF WorkerAttention
    <2> HIDE DEF a
    <2>3. QED
      BY <2>1, <2>2 DEF DispatchRow
  <1>2. harness' \in HarnessRow /\ harness'.at = "deliver"
    BY TriggerTyped DEF WorkerAttention, Inv, Typed
  <1>3. RowsMoved
    BY <1>1, <1>2, SameRow, WeakerSame
       DEF RowsMoved, WorkerAttention, Inv, Typed, Good, Sound, Calm
  <1>4. QED
    BY <1>2, <1>3, TriggerMove

(* A process loses the harness, and may be terminated by it.               *)
LEMMA OwnedCleared ==
    ASSUME NEW c, TypedChild(c), c.pc = "unborn" => c = NoChild
    PROVE  /\ TypedChild([c EXCEPT !.owned = FALSE])
           /\ Weaker(c, [c EXCEPT !.owned = FALSE])
           /\ TypedChild([Die(c) EXCEPT !.owned = FALSE])
           /\ Weaker(c, [Die(c) EXCEPT !.owned = FALSE])
  <1>1. \A e : TypedChild(e) =>
           /\ TypedChild([e EXCEPT !.owned = FALSE])
           /\ Weaker(c, e) /\ (c.pc = "unborn" => e = NoChild)
                => Weaker(c, [e EXCEPT !.owned = FALSE])
    <2> TAKE e
    <2> HAVE TypedChild(e)
    <2> DEFINE f == [e EXCEPT !.owned = FALSE]
    <2>1. /\ ChildShape(f) /\ f.d = e.d /\ f.mode = e.mode /\ f.pc = e.pc
          /\ f.rev = e.rev /\ f.gen = e.gen /\ f.token = e.token
          /\ f.owned \in BOOLEAN /\ f.thread = e.thread /\ f.eff = e.eff
          /\ f.waited = e.waited /\ f.peer = e.peer /\ f.read = e.read
          /\ f.found = e.found
      BY DEF TypedChild, ChildShape, ChildFields
    <2>2. e = NoChild => f = NoChild
      <3> HAVE e = NoChild
      <3>1. NoChild = [x \in ChildFields |-> NoChild[x]] /\ NoChild.owned = FALSE
        BY DEF NoChild, ChildFields
      <3>2. f = [NoChild EXCEPT !["owned"] = FALSE]
        OBVIOUS
      <3>3. QED
        BY <3>1, <3>2 DEF ChildFields
    <2> HIDE DEF f
    <2>3. TypedChild(f)
      BY <2>1 DEF TypedChild, ChildColumns
    <2>4. Weaker(c, e) /\ (c.pc = "unborn" => e = NoChild) => Weaker(c, f)
      BY <2>1, <2>2 DEF Weaker
    <2>5. QED
      BY <2>3, <2>4 DEF f
  <1>2. TypedChild(Die(c)) /\ Weaker(c, Die(c)) /\ (c.pc = "unborn" => Die(c) = NoChild)
    <2>1. CASE c.pc \in Exited \union {"unborn"}
      BY <2>1, WeakerSame DEF Die
    <2>2. CASE c.pc \notin Exited \union {"unborn"}
      <3>1. Die(c) = Ended(c, "dead") /\ "dead" \in Exited
        BY <2>2 DEF Die, Exited
      <3>2. QED
        BY <2>2, <3>1, EndedTyped
    <2>3. QED
      BY <2>1, <2>2
  <1>3. Weaker(c, c)
    BY WeakerSame
  <1>4. QED
    BY <1>1, <1>2, <1>3

(* The harness process ends, and perhaps its children.                     *)
LEMMA DownMove ==
    ASSUME Inv, harness' = Down, UNCHANGED <<book, dispatch, held>>,
           \/ child' = [n \in Children |-> [child[n] EXCEPT !.owned = FALSE]]
           \/ child' = [n \in Children |->
                          [IF child[n].owned THEN Die(child[n]) ELSE child[n]
                             EXCEPT !.owned = FALSE]]
    PROVE  Step
  <1>1. harness' \in HarnessRow /\ harness'.at = "down"
    BY ControllerBounds DEF Inv, Typed, HarnessRow, Down, Decisions
  <1>2. \A n \in Children : TypedChild(child[n]) /\ (child[n].pc = "unborn" => child[n] = NoChild)
    BY DEF Inv, Typed, ChildFacts, Facts
  <1>3. \A n \in Children : TypedChild(child'[n]) /\ Weaker(child[n], child'[n])
    <2> TAKE n \in Children
    <2>1. \/ child'[n] = [child[n] EXCEPT !.owned = FALSE]
          \/ child'[n] = [Die(child[n]) EXCEPT !.owned = FALSE]
      OBVIOUS
    <2>2. /\ TypedChild([child[n] EXCEPT !.owned = FALSE])
          /\ Weaker(child[n], [child[n] EXCEPT !.owned = FALSE])
          /\ TypedChild([Die(child[n]) EXCEPT !.owned = FALSE])
          /\ Weaker(child[n], [Die(child[n]) EXCEPT !.owned = FALSE])
      <3> DEFINE c == child[n]
      <3>1. TypedChild(c) /\ (c.pc = "unborn" => c = NoChild)
        BY <1>2
      <3> HIDE DEF c
      <3>2. /\ TypedChild([c EXCEPT !.owned = FALSE])
            /\ Weaker(c, [c EXCEPT !.owned = FALSE])
            /\ TypedChild([Die(c) EXCEPT !.owned = FALSE])
            /\ Weaker(c, [Die(c) EXCEPT !.owned = FALSE])
        BY <3>1, OwnedCleared
      <3>3. QED
        BY <3>2 DEF c
    <2>3. QED
      BY <2>1, <2>2
  <1>4. child' = [n \in Children |-> child'[n]]
    OBVIOUS
  <1>5. RowsMoved
    BY <1>1, <1>3, <1>4, NoRowMoves
  <1>6. QED
    BY <1>1, <1>5, TriggerMove

(* The refusal of a 65th checkpoint leaves the loop, as a stop does, with its transaction
   undone. *)
LEMMA CheckpointExhaustedStep ==
    ASSUME Inv, CheckpointExhausted PROVE Step
  BY DownMove DEF CheckpointExhausted, StopProcess

(* The harness dies; its controller processes live on in their own sessions. *)
LEMMA CrashStep == ASSUME Inv, Crash PROVE Step
  BY DownMove DEF Crash

(* A stop kills the controller processes the harness owns and changes no decision. *)
LEMMA StopStep == ASSUME Inv, Stop PROVE Step
  BY DownMove DEF Stop, StopProcess

----------------------------------------------------------------------------
(* The harness thread *)

HarnessFields == {"at", "todo", "cur", "mode", "failed", "crashes", "humans"}

(* HarnessRow, column by column.                                           *)
LEMMA HarnessTyped ==
    ASSUME NEW h,
           h = [x \in HarnessFields |-> h[x]],
           h.at \in {"down", "deliver", "wake", "schedule", "launch", "serve"},
           h.todo \in SUBSET Decisions, h.cur \in Decisions,
           h.mode \in {"none", "run", "recover"},
           h.failed \in SUBSET Decisions, h.crashes \in Nat, h.humans \in Nat
    PROVE  h \in HarnessRow
  BY DEF HarnessRow, HarnessFields

(* The columns of the harness's own state. *)
LEMMA HarnessColumns ==
    ASSUME NEW h \in HarnessRow
    PROVE  /\ h = [x \in HarnessFields |-> h[x]]
           /\ h.at \in {"down", "deliver", "wake", "schedule", "launch", "serve"}
           /\ h.todo \in SUBSET Decisions /\ h.cur \in Decisions
           /\ h.mode \in {"none", "run", "recover"}
           /\ h.failed \in SUBSET Decisions /\ h.crashes \in Nat /\ h.humans \in Nat
  BY DEF HarnessRow, HarnessFields

(* The harness comes back: what was being delivered is ambiguous.          *)
LEMMA RestartStep == ASSUME Inv, Restart PROVE Step
  <1>1. \A d \in Decisions : Good(book[d], WakeLost(book[d]))
    <2> TAKE d \in Decisions
    <2>1. RowOK(book[d])
      BY DEF Inv
    <2>2. CASE book[d].wake = "starting"
      BY <2>1, <2>2, WakeLostRow
    <2>3. CASE book[d].wake # "starting"
      <3>1. WakeLost(book[d]) = book[d]
        BY <2>1, <2>3 DEF WakeLost, RowOK, TypedBook, BookShape, Columns
      <3>2. QED
        BY <2>1, <3>1, SameRow
    <2>4. QED
      BY <2>2, <2>3
  <1>2. book' = [d \in Decisions |-> WakeLost(book[d])]
    BY DEF Restart, WakeLost
  <1>3. harness' \in HarnessRow /\ harness'.at = "deliver"
    BY TriggerTyped DEF Restart, Inv, Typed
  <1>4. RowsMoved
    BY <1>1, <1>2, <1>3, WeakerSame
       DEF RowsMoved, Restart, Inv, Typed, Good, Sound, Calm
  <1>5. QED
    BY <1>3, <1>4, TriggerMove

(* The refresh reopens every decision a profile drift closed.              *)
LEMMA ProfileRefreshStep == ASSUME Inv, ProfileRefresh PROVE Step
  <1>1. \A d \in Decisions : Good(book[d], book'[d])
    <2> TAKE d \in Decisions
    <2>1. RowOK(book[d])
      BY DEF Inv
    <2>2. CASE RefreshOk(book[d])
      <3>1. book'[d] = Refresh(book[d])
        BY <2>2 DEF ProfileRefresh
      <3>2. QED
        BY <2>1, <2>2, <3>1, RefreshRow
    <2>3. CASE ~RefreshOk(book[d])
      <3>1. book'[d] = book[d]
        BY <2>3 DEF ProfileRefresh
      <3>2. QED
        BY <2>1, <3>1, SameRow
    <2>4. QED
      BY <2>2, <2>3
  <1>2. book' = [d \in Decisions |-> book'[d]]
    BY DEF ProfileRefresh
  <1>3. harness' \in HarnessRow /\ harness'.at = "down"
    BY DEF ProfileRefresh, Inv, Typed
  <1>4. RowsMoved
    BY <1>1, <1>2, <1>3, WeakerSame
       DEF RowsMoved, ProfileRefresh, Inv, Typed, Good, Sound, Calm
  <1>5. QED
    BY <1>3, <1>4, TriggerMove

(* A wake is taken from the outbox.                                        *)
LEMMA ClaimWakeStep ==
    ASSUME Inv, NEW d \in Decisions, ClaimWake(d) PROVE Step
  <1> DEFINE b2 == WakeClaimed(book[d])
  <1>1. RowOK(book[d]) /\ harness \in HarnessRow
    BY DEF Inv, Typed
  <1>2. BookValid(b2) /\ book' = [book EXCEPT ![d] = b2] /\ book[d].wake = "pending"
    BY DEF ClaimWake, Commit, WakeClaimed
  <1>3. Good(book[d], b2)
    BY <1>1, <1>2, WakeClaimedRow
  <1>4. b2.wake = "starting"
    BY <1>1 DEF WakeClaimed, RowOK, TypedBook, BookShape, Columns
  <1> HIDE DEF b2
  <1>5. harness' \in HarnessRow /\ harness'.at = "wake" /\ harness'.cur = d
    <2>1. /\ harness' = [x \in HarnessFields |-> harness'[x]]
          /\ harness'.at = "wake" /\ harness'.cur = d
          /\ harness'.todo = harness.todo /\ harness'.mode = harness.mode
          /\ harness'.failed = harness.failed
          /\ harness'.crashes = harness.crashes
          /\ harness'.humans = harness.humans
      BY <1>1, HarnessColumns DEF ClaimWake, HarnessFields
    <2>2. QED
      BY <1>1, <2>1, HarnessColumns, HarnessTyped
  <1>6. RowsMoved /\ book'[d] = b2
    BY <1>2, <1>3, <1>5, OneGoodRow DEF ClaimWake, Inv, Typed
  <1>7. (\A e \in Decisions : OwedFacts(e)') /\ PositionFacts'
    BY <1>4, <1>5, <1>6 DEF OwedFacts, PositionFacts
  <1>8. QED
    BY <1>6, <1>7, RowsMove

(* Its outcome is recorded.                                                *)
LEMMA RecordWakeStep ==
    ASSUME Inv, NEW outcome \in {"delivered", "ambiguous", "failed"},
           RecordWake(outcome)
    PROVE  Step
  <1>1. PICK d \in Decisions : d = harness.cur
    BY DEF Inv, Typed, HarnessRow
  <1>2. RowOK(book[d]) /\ book[d].wake = "starting"
    BY <1>1 DEF Inv, PositionFacts, RecordWake
  <1>3. /\ BookValid(WakeRecorded(book[d], outcome))
        /\ book' = [book EXCEPT ![d] = WakeRecorded(book[d], outcome)]
    BY <1>1 DEF RecordWake, Commit
  <1>4. Good(book[d], WakeRecorded(book[d], outcome))
    BY <1>2, <1>3, WakeRecordedRow
  <1>5. harness' \in HarnessRow /\ harness'.at = "deliver"
    BY TriggerTyped DEF RecordWake, Inv, Typed
  <1>6. RowsMoved
    BY <1>3, <1>4, <1>5, OneGoodRow DEF RecordWake, Inv, Typed
  <1>7. QED
    BY <1>5, <1>6, TriggerMove

(* A process that ended is taken off the register.                         *)
LEMMA ReapChildStep ==
    ASSUME Inv, NEW n \in Children, ReapChild(n) PROVE Step
  <1> DEFINE d == child[n].d
             b2 == book'[d]
  <1>1. CASE StopProcess /\ UNCHANGED book
    BY <1>1, DownMove DEF ReapChild, StopProcess
  <1>2. CASE /\ \/ UNCHANGED book
                \/ /\ ProfileDriftOk(book[d]) /\ BookValid(ProfileDrift(book[d]))
                   /\ book' = [book EXCEPT ![d] = ProfileDrift(book[d])]
             /\ child' = [child EXCEPT ![n].owned = FALSE]
             /\ Trigger \/ (UNCHANGED harness /\ harness.at = "deliver")
             /\ UNCHANGED <<dispatch, held>>
    <2>1. /\ d \in Decisions /\ RowOK(book[d]) /\ harness \in HarnessRow
          /\ book = [e \in Decisions |-> book[e]]
          /\ child = [m \in Children |-> child[m]]
          /\ \A m \in Children : TypedChild(child[m])
      BY DEF Inv, Typed, TypedChild, ChildColumns
    <2>2. harness' \in HarnessRow /\ harness'.at = "deliver"
      BY <1>2, <2>1, TriggerTyped
    <2>3. Good(book[d], ProfileDrift(book[d])) \/ UNCHANGED book
      <3>1. CASE book[d].state = "human_attention_required"
        BY <2>1, <3>1, SameRow DEF ProfileDrift
      <3>2. CASE book[d].state # "human_attention_required"
        BY <1>2, <2>1, <3>2, DriftRow
      <3>3. QED
        BY <3>1, <3>2
    <2>4. book' = [e \in Decisions |-> book'[e]]
      BY <1>2, <2>1
    <2>5. \A e \in Decisions : Sound(book[e], book'[e])
      <3> TAKE e \in Decisions
      <3>1. Good(book[e], book[e])
        BY SameRow DEF Inv
      <3>2. Good(book[e], book'[e])
        BY <1>2, <2>1, <2>3, <3>1
      <3>3. QED
        BY <3>2 DEF Good, Sound, Calm
    <2>6. \A m \in Children : TypedChild(child'[m]) /\ Weaker(child[m], child'[m])
      <3> TAKE m \in Children
      <3>1. CASE m = n
        <4> DEFINE c == child[n]
        <4>1. TypedChild(c) /\ (c.pc = "unborn" => c = NoChild)
          BY <2>1 DEF Inv, ChildFacts, Facts
        <4>2. child'[n] = [c EXCEPT !.owned = FALSE]
          BY <1>2, <2>1
        <4> HIDE DEF c
        <4>3. /\ TypedChild([c EXCEPT !.owned = FALSE])
              /\ Weaker(c, [c EXCEPT !.owned = FALSE])
          BY <4>1, OwnedCleared
        <4>4. QED
          BY <3>1, <4>2, <4>3 DEF c
      <3>2. CASE m # n
        BY <1>2, <2>1, <3>2, WeakerSame
      <3>3. QED
        BY <3>1, <3>2
    <2>7. child' = [m \in Children |-> child'[m]]
      BY <1>2, <2>1
    <2>8. RowsMoved
      BY <1>2, <2>2, <2>4, <2>5, <2>6, <2>7 DEF RowsMoved, Inv, Typed
    <2>9. QED
      BY <2>2, <2>8, TriggerMove
  <1>3. QED
    BY <1>1, <1>2 DEF ReapChild, Serving, WakesDelivered

(* Everything that was ever opened is scheduled.                           *)
LEMMA BeginScheduleStep == ASSUME Inv, BeginSchedule PROVE Step
  <1> DEFINE open == {d \in Decisions : book[d].state # "absent"}
  <1>1. harness \in HarnessRow /\ open \subseteq Decisions
    BY DEF Inv, Typed
  <1>2. /\ harness' = [x \in HarnessFields |-> harness'[x]]
        /\ harness'.at = (IF open = {} THEN "serve" ELSE "schedule")
        /\ harness'.todo = open /\ harness'.failed = {}
        /\ harness'.cur = harness.cur /\ harness'.mode = harness.mode
        /\ harness'.crashes = harness.crashes /\ harness'.humans = harness.humans
    BY ZenonT(30), <1>1, HarnessColumns DEF BeginSchedule, HarnessFields
  <1> HIDE DEF open
  <1>3. harness' \in HarnessRow
    BY <1>1, <1>2, HarnessColumns, HarnessTyped
  <1>4. RowsMoved
    BY <1>3, WeakerSame, NoRowMoves DEF BeginSchedule, Inv, Typed
  <1>5. \A d \in Decisions : Owed(book[d]) => d \in open
    BY DEF Inv, RowOK, BookValid, Owed, open
  <1>6. (\A d \in Decisions : OwedFacts(d)') /\ PositionFacts'
    <2>1. harness'.at \in {"serve", "schedule"} /\ (harness'.at = "serve" => open = {})
      BY <1>2
    <2>2. book' = book
      BY DEF BeginSchedule
    <2>3. PositionFacts'
      BY <2>1 DEF PositionFacts
    <2>4. ASSUME NEW d \in Decisions PROVE OwedFacts(d)'
      <3>1. Owed(book'[d]) => harness'.at = "schedule" /\ d \in harness'.todo
        BY <1>2, <1>5, <2>1, <2>2
      <3>2. QED
        BY <3>1 DEF OwedFacts
    <2>5. QED
      BY <2>3, <2>4
  <1>7. QED
    BY <1>4, <1>6, RowsMove

(* What the scheduler may do with a decision it has reaped.                *)
LEMMA OwedRow ==
    ASSUME NEW b, RowOK(b), Owed(b)
    PROVE  /\ Reap(b) = b /\ LaunchOwner(b)
           /\ Current(b).state \notin Lost => Wanted(b) = "recover"
  <1>1. /\ b.lease = "none" /\ b.effect # "none" /\ ~b.acked
        /\ b.state \in {"action_committed", "human_attention_required"}
    BY DEF RowOK, BookValid, TypedBook, BookColumns, Owed
  <1>2. Reap(b) = b
    BY <1>1 DEF Reap
  <1>3. LaunchOwner(b)
    BY <1>1 DEF LaunchOwner
  <1>4. Current(b).state \notin Lost => Wanted(b) = "recover"
    BY <1>1 DEF Wanted, Lost
  <1>5. QED
    BY <1>2, <1>3, <1>4

(* What _schedule_controller asks for: a prepared generation to run, or a process that
   inspects the claim of one that is lost. *)
LEMMA WantedRow ==
    ASSUME NEW b, RowOK(b), Wanted(b) # "none"
    PROVE  /\ Wanted(b) \in {"run", "recover"} /\ Reached(b)
           /\ Wanted(b) = "run" =>
                 /\ b.state = "awaiting_claim" /\ b.wake \notin Undelivered
                 /\ Current(b).state = "prepared"
  <1>1. CASE b.state = "awaiting_claim"
    <2>1. b.wake \notin Undelivered
      BY <1>1 DEF RowOK, BookValid, Undelivered
    <2>2. QED
      BY <1>1, <2>1 DEF Wanted, Reached
  <1>2. CASE b.state = "action_committed"
    <2>1. b.effect # "none"
      BY <1>2 DEF RowOK, BookValid
    <2>2. QED
      BY <1>2, <2>1 DEF Wanted, Reached
  <1>3. CASE b.state = "human_attention_required"
    BY <1>3 DEF Wanted, Reached
  <1>4. CASE b.state = "claimed"
    <2>1. Current(b).state # "prepared" /\ Current(b).out \in {"none", "completed"}
      BY <1>4 DEF Wanted
    <2>2. b.wake \notin Undelivered
      BY <2>1 DEF RowOK, RowFacts
    <2>3. QED
      BY <1>4, <2>2 DEF Wanted, Reached
  <1>5. QED
    BY <1>1, <1>2, <1>3, <1>4 DEF Wanted

(* Reaping and then preparing a decision.                                  *)
LEMMA ReservedRow ==
    ASSUME NEW b, RowOK(b), NEW c, Good(b, c), Wanted(c) = "run"
    PROVE  Good(b, Prepare(c, 0))
  <1> DEFINE e == Prepare(c, 0)
  <1>1. RowOK(c)
    BY DEF Good
  <1>2. /\ c.state = "awaiting_claim" /\ c.wake \notin Undelivered
        /\ Current(c).state = "prepared"
    BY <1>1, WantedRow
  <1>3. Good(c, e)
    BY <1>1, <1>2, PrepareRow
  <1>4. e.token = c.token /\ e.kind = c.kind /\ e.by = c.by /\ e.gen = c.gen
    BY <1>1 DEF Prepare, SetGen, RowOK, TypedBook, BookShape, Columns
  <1> HIDE DEF e
  <1>5. /\ b.gen \in Nat /\ c.gen \in Nat /\ e.gen \in Nat
        /\ b.rev \in Nat /\ c.rev \in Nat /\ e.rev \in Nat
        /\ b.token \in Nat /\ c.token \in Nat /\ e.token \in Nat
    BY <1>1, <1>3 DEF Good, RowOK, TypedBook, BookColumns
  <1>6. Kept(b, e)
    BY <1>2, <1>3, <1>4, <1>5 DEF Good, Kept
  <1>7. Good(b, e)
    BY <1>3, <1>5, <1>6 DEF Good, Calm, SameThread
  <1>8. QED
    BY <1>7 DEF e

(* One decision of the scheduling pass.                                    *)
LEMMA ScheduleStep ==
    ASSUME Inv, NEW d \in Decisions, Schedule(d) PROVE Step
  <1> DEFINE old == book[d]
             b == IF BookValid(Reap(old)) THEN Reap(old) ELSE old
             mode == IF d \in Registered \/ Launched = Children THEN "none"
                     ELSE Wanted(b)
             reserved == IF mode = "run" THEN Prepare(b, 0) ELSE b
             start == mode # "none" /\ LaunchOwner(b)
             left == harness.todo \ {d}
  <1>1. /\ book' = [book EXCEPT ![d] = reserved]
        /\ harness' = [harness EXCEPT
                 !.todo = left, !.cur = IF start THEN d ELSE @,
                 !.mode = IF start THEN mode ELSE "none",
                 !.at = IF start THEN "launch"
                        ELSE IF left = {} THEN "serve" ELSE "schedule"]
        /\ harness.at = "schedule" /\ UNCHANGED <<dispatch, child, held>>
    BY DEF Schedule
  <1>2. RowOK(old) /\ harness \in HarnessRow
    BY DEF Inv, Typed
  <1>3. Good(old, b)
    BY <1>2, ReapRow, SameRow
  <1>4. RowOK(b)
    BY <1>3 DEF Good
  <1>5. mode # "none" =>
           /\ mode \in {"run", "recover"} /\ mode = Wanted(b) /\ Reached(b)
           /\ mode = "run" => b.wake \notin Undelivered
    BY <1>4, WantedRow
  <1>6. mode \in {"none", "run", "recover"}
    BY <1>5
  <1>7. Good(old, reserved)
    BY <1>2, <1>3, <1>5, ReservedRow
  <1>8. reserved.wake = b.wake /\ (Reached(b) => Reached(reserved))
    BY <1>4 DEF Prepare, SetGen, RowOK, TypedBook, BookShape, Columns, Reached
  <1>9. Owed(old) => \/ d \in Registered \/ Launched = Children
                     \/ Current(old).state \in Lost
                     \/ start
    <2> SUFFICES ASSUME Owed(old), d \notin Registered, Launched # Children,
                        Current(old).state \notin Lost
                 PROVE  start
      OBVIOUS
    <2>1. Reap(old) = old /\ LaunchOwner(old) /\ Wanted(old) = "recover"
      BY <1>2, OwedRow
    <2>2. QED
      BY <2>1
  <1> HIDE DEF b, mode, reserved, start
  <1>10. /\ harness' = [x \in HarnessFields |-> harness'[x]]
         /\ harness'.todo = left
         /\ harness'.cur = (IF start THEN d ELSE harness.cur)
         /\ harness'.mode = (IF start THEN mode ELSE "none")
         /\ harness'.at = (IF start THEN "launch"
                           ELSE IF left = {} THEN "serve" ELSE "schedule")
         /\ harness'.failed = harness.failed
         /\ harness'.crashes = harness.crashes /\ harness'.humans = harness.humans
    <2> DEFINE h == harness
               at == IF start THEN "launch"
                     ELSE IF left = {} THEN "serve" ELSE "schedule"
               cur == IF start THEN d ELSE h.cur
               m == IF start THEN mode ELSE "none"
    <2>1. h = [x \in HarnessFields |-> h[x]]
      BY <1>2, HarnessColumns
    <2>2. harness' = [h EXCEPT !.todo = left, !.cur = cur, !.mode = m, !.at = at]
      BY <1>1
    <2> HIDE DEF at, cur, m, h, left
    <2>3. /\ harness' = [x \in HarnessFields |-> harness'[x]]
          /\ harness'.todo = left /\ harness'.cur = cur /\ harness'.mode = m
          /\ harness'.at = at /\ harness'.failed = h.failed
          /\ harness'.crashes = h.crashes /\ harness'.humans = h.humans
      BY <2>1, <2>2 DEF HarnessFields
    <2>4. QED
      BY <2>3 DEF at, cur, m, h
  <1>11. harness' \in HarnessRow
    BY <1>2, <1>6, <1>10, HarnessColumns, HarnessTyped
  <1>12. /\ RowsMoved /\ book'[d] = reserved
         /\ \A e \in Decisions : e # d => book'[e] = book[e]
         /\ \A e \in Decisions : Owed(book'[e]) => Owed(book[e])
    BY <1>1, <1>7, <1>11, OneGoodRow DEF Inv, Typed
  <1>13. \A e \in Decisions : OwedFacts(e)'
    <2> TAKE e \in Decisions
    <2> SUFFICES ASSUME Owed(book'[e])
                 PROVE  /\ harness'.at = "serve" => Attended(e)'
                        /\ harness'.at \in {"schedule", "launch"} =>
                              \/ Attended(e)'
                              \/ e \in harness'.todo
                              \/ harness'.at = "launch" /\ e = harness'.cur
      BY DEF OwedFacts
    <2>1. Owed(book[e]) /\ Kept(book[e], book'[e])
      BY <1>12 DEF RowsMoved, Sound
    <2>2. Registered' = Registered /\ Launched' = Launched
      BY <1>1 DEF Registered, Launched
    <2>3. Attended(e) => Attended(e)'
      BY <1>10, <2>1, <2>2 DEF Attended, Kept, Owed
    <2>4. Attended(e) \/ e \in harness.todo
      BY <1>1, <2>1 DEF Inv, OwedFacts
    <2>5. CASE Attended(e)
      BY <2>3, <2>5
    <2>6. CASE ~Attended(e) /\ e # d
      BY <1>10, <2>4, <2>6
    <2>7. CASE ~Attended(e) /\ e = d
      <3>1. start
        BY <1>9, <2>1, <2>7 DEF Attended
      <3>2. QED
        BY <1>10, <2>7, <3>1
    <2>8. QED
      BY <2>5, <2>6, <2>7
  <1>14. PositionFacts'
    <2>1. harness'.at # "wake"
      BY <1>10
    <2>2. CASE start
      <3>1. mode # "none"
        BY <2>2 DEF start
      <3>2. QED
        BY <1>5, <1>8, <1>10, <1>12, <2>2, <3>1 DEF PositionFacts
    <2>3. CASE ~start
      BY <1>10, <2>3 DEF PositionFacts
    <2>4. QED
      BY <2>2, <2>3
  <1>15. QED
    BY <1>12, <1>13, <1>14, RowsMove

(* The pass goes on with the next decision.                                *)
LEMMA NextDecisionTyped ==
    ASSUME Inv, NEW failed \in SUBSET Decisions, NextDecision(failed)
    PROVE  /\ harness' \in HarnessRow /\ harness'.at \in {"serve", "schedule"}
           /\ harness'.at = "serve" => harness.todo = {}
           /\ harness'.todo = harness.todo
           /\ harness'.failed = harness.failed \union failed
  <1>1. harness \in HarnessRow /\ 0 \in Decisions
    BY ControllerBounds DEF Inv, Typed, Decisions
  <1>2. /\ harness' = [x \in HarnessFields |-> harness'[x]]
        /\ harness'.at = (IF harness.todo = {} THEN "serve" ELSE "schedule")
        /\ harness'.todo = harness.todo /\ harness'.cur = 0
        /\ harness'.mode = "none"
        /\ harness'.failed = harness.failed \union failed
        /\ harness'.crashes = harness.crashes /\ harness'.humans = harness.humans
    BY ZenonT(30), <1>1, HarnessColumns DEF NextDecision, HarnessFields
  <1>3. harness' \in HarnessRow
    BY <1>1, <1>2, HarnessColumns, HarnessTyped
  <1>4. QED
    BY <1>2, <1>3

(* The pass goes on, and the decision it was at needs nothing any more.    *)
LEMMA PassMove ==
    ASSUME Inv, RowsMoved, harness.at = "launch", UNCHANGED child,
           NEW failed \in SUBSET Decisions, NextDecision(failed),
           \A e \in Decisions : Owed(book'[e]) => Owed(book[e]),
           Owed(book[harness.cur]) => harness.cur \in failed
    PROVE  Step
  <1>1. /\ harness'.at \in {"serve", "schedule"}
        /\ harness'.at = "serve" => harness.todo = {}
        /\ harness'.todo = harness.todo
        /\ harness'.failed = harness.failed \union failed
    BY NextDecisionTyped
  <1>2. \A e \in Decisions : OwedFacts(e)'
    <2> TAKE e \in Decisions
    <2> SUFFICES ASSUME Owed(book'[e])
                 PROVE  Attended(e)' \/ (harness'.at = "schedule" /\ e \in harness'.todo)
      BY <1>1 DEF OwedFacts
    <2>1. Owed(book[e]) /\ Kept(book[e], book'[e])
      BY DEF RowsMoved, Sound
    <2>2. Registered' = Registered /\ Launched' = Launched
      BY DEF Registered, Launched
    <2>3. Attended(e) => Attended(e)'
      BY <1>1, <2>1, <2>2 DEF Attended, Kept, Owed
    <2>4. Attended(e) \/ e \in harness.todo \/ e = harness.cur
      BY <2>1 DEF Inv, OwedFacts
    <2>5. CASE Attended(e)
      BY <2>3, <2>5
    <2>6. CASE e \in harness.todo
      BY <1>1, <2>6
    <2>7. CASE e = harness.cur
      BY <1>1, <2>1, <2>7 DEF Attended
    <2>8. QED
      BY <2>4, <2>5, <2>6, <2>7
  <1>3. PositionFacts'
    BY <1>1 DEF PositionFacts
  <1>4. QED
    BY <1>2, <1>3, RowsMove

(* The check before a launch refuses a decision that has moved on, or whose claim is stale. *)
LEMMA LaunchRefusedStep == ASSUME Inv, LaunchRefused PROVE Step
  <1>1. PICK d \in Decisions : d = harness.cur
    BY DEF Inv, Typed, HarnessRow
  <1>2. ~Owed(book[d])
    BY <1>1, OwedRow DEF LaunchRefused, Inv
  <1>3. RowsMoved
    BY WeakerSame, NextDecisionTyped, NoRowMoves DEF LaunchRefused, Inv, Typed
  <1>4. QED
    BY <1>1, <1>2, <1>3, PassMove DEF LaunchRefused

(* The process could not be started: its generation is reset, or the inspection recorded
   as ambiguous. *)
LEMMA LaunchFailsStep == ASSUME Inv, LaunchFails PROVE Step
  <1>1. PICK d \in Decisions : d = harness.cur
    BY DEF Inv, Typed, HarnessRow
  <1> DEFINE b == book[d]
  <1>2. RowOK(b) /\ b.gen \in {1, 2} /\ book = [e \in Decisions |-> book[e]]
    BY DEF Inv, Typed, RowOK, TypedBook, BookColumns
  <1>3. PICK b2 : Good(b, b2) /\ book' = [book EXCEPT ![d] = b2]
    <2>1. CASE UNCHANGED book
      <3>1. Good(b, b) /\ book' = [book EXCEPT ![d] = b]
        BY <1>2, <2>1, SameRow
      <3>2. QED
        BY <3>1
    <2>2. CASE /\ ResetOk(b, b.gen, b.rev, 0) /\ BookValid(Reset(b, b.gen))
               /\ book' = [book EXCEPT ![d] = Reset(b, b.gen)]
      BY <1>2, <2>2, ResetRow
    <2>3. CASE /\ LaunchAmbiguousOk(b) /\ BookValid(Ambiguous(b))
               /\ book' = [book EXCEPT ![d] = Ambiguous(b)]
      <3>1. b.kind # "human"
        BY <2>3 DEF LaunchAmbiguousOk
      <3>2. QED
        BY <1>2, <2>3, <3>1, AmbiguousRow
    <2>4. QED
      BY <1>1, <2>1, <2>2, <2>3 DEF LaunchFails
  <1>4. harness' \in HarnessRow
    BY <1>1, NextDecisionTyped DEF LaunchFails
  <1>5. RowsMoved /\ \A e \in Decisions : Owed(book'[e]) => Owed(book[e])
    BY <1>3, <1>4, OneGoodRow DEF LaunchFails, Inv, Typed
  <1>6. QED
    BY <1>1, <1>5, PassMove DEF LaunchFails

(* A process is started for the decision of the pass.                      *)
LEMMA LaunchStep == ASSUME Inv, Launch PROVE Step
  <1>1. PICK d \in Decisions : d = harness.cur
    BY DEF Inv, Typed, HarnessRow
  <1> DEFINE c2 == [NoChild EXCEPT !.d = d, !.mode = harness.mode,
                                   !.pc = "status", !.owned = TRUE]
  <1>2. PICK n \in Children \ Launched : child' = [child EXCEPT ![n] = c2]
    BY <1>1 DEF Launch
  <1>3. /\ child = [m \in Children |-> child[m]] /\ RowOK(book[d])
        /\ harness \in HarnessRow /\ harness.at = "launch"
        /\ UNCHANGED <<book, dispatch, held>> /\ NextDecision({})
    BY DEF Inv, Typed, Launch
  <1>4. /\ ChildShape(c2) /\ c2.d = d /\ c2.mode = harness.mode
        /\ c2.pc = "status" /\ c2.owned = TRUE /\ c2.rev = 0 /\ c2.gen = 0
        /\ c2.token = 0 /\ c2.thread = "none" /\ c2.eff = "none"
        /\ c2.waited = FALSE /\ c2.peer = 0 /\ c2.read = 0 /\ c2.found = "none"
        /\ c2.owned \in BOOLEAN /\ c2.waited \in BOOLEAN
    BY DEF NoChild, ChildShape, ChildFields
  <1> HIDE DEF c2
  <1>5. /\ harness.mode \in {"run", "recover"} /\ Reached(book[d])
        /\ harness.mode = "run" => book[d].wake \notin Undelivered
    BY <1>1, <1>3, HarnessColumns DEF Inv, PositionFacts
  <1>6. TypedChild(c2)
    BY <1>4, <1>5 DEF TypedChild, ChildColumns
  <1>7. Facts(n, c2, book[d])
    BY <1>3, <1>4, <1>5 DEF Facts, Bound, Reader, Exited, RowOK, RowFacts,
       TypedBook, BookColumns
  <1>8. child[n] = NoChild
    BY <1>2 DEF Launched, Inv, ChildFacts, Facts
  <1>9. child'[n] = c2 /\ \A m \in Children : m # n => child'[m] = child[m]
    BY <1>2, <1>3
  <1>10. /\ harness' \in HarnessRow
         /\ harness'.at \in {"serve", "schedule"}
         /\ harness'.at = "serve" => harness.todo = {}
         /\ harness'.todo = harness.todo
         /\ harness'.failed = harness.failed
    <2>1. {} \in SUBSET Decisions
      OBVIOUS
    <2>2. QED
      BY <1>3, <2>1, NextDecisionTyped
  <1>11. Typed'
    BY <1>2, <1>3, <1>6, <1>9, <1>10 DEF Inv, Typed
  <1>12. \A m \in Children : ChildFacts(m)'
    BY <1>3, <1>4, <1>7, <1>9 DEF Inv, ChildFacts
  <1>13. ReaderFacts'
    <2>1. \A m \in Children, g \in 1..2 :
             Reader(child'[m], g) => m # n /\ Reader(child[m], g)
      BY <1>4, <1>9 DEF Reader
    <2>2. QED
      BY <1>9, <2>1 DEF Inv, ReaderFacts
  <1>14. \A e \in Decisions : ThreadFacts(e)'
    <2> TAKE e \in Decisions
    <2>1. ThreadFacts(e)
      BY DEF Inv
    <2>2. RowOK(book[e])
      BY DEF Inv
    <2>3. TypedGeneration(Current(book[e]))
      BY <2>2, CurrentTyped DEF RowOK, Current
    <2>4. Current(book[e]).thread \in {0} \union Children
      BY <2>3 DEF TypedGeneration, GenerationColumns
    <2>5. NoChild.thread = "none"
      BY DEF NoChild
    <2>6. Current(book[e]).thread # 0 => Current(book[e]).thread # n
      BY <1>8, <2>1, <2>5 DEF ThreadFacts
    <2>7. QED
      BY <1>3, <1>9, <2>1, <2>4, <2>6 DEF ThreadFacts, Current
  <1>15. \A e \in Decisions : OwedFacts(e)'
    <2> TAKE e \in Decisions
    <2> SUFFICES ASSUME Owed(book[e])
                 PROVE  Attended(e)' \/ (harness'.at = "schedule" /\ e \in harness'.todo)
      BY <1>3, <1>10 DEF OwedFacts
    <2>1. \A x \in Registered : x \in Registered'
      BY <1>4, <1>8, <1>9 DEF Registered, NoChild
    <2>2. d \in Registered'
      BY <1>4, <1>9 DEF Registered
    <2>3. Launched # Children
      BY <1>2
    <2>4. Attended(e) => Attended(e)'
      BY <1>3, <1>10, <2>1, <2>3 DEF Attended
    <2>5. Attended(e) \/ e \in harness.todo \/ e = d
      BY <1>1, <1>3 DEF Inv, OwedFacts
    <2>6. QED
      BY <1>10, <2>2, <2>4, <2>5 DEF Attended
  <1>16. PositionFacts'
    BY <1>10 DEF PositionFacts
  <1>17. DispatchFacts'
    BY <1>3 DEF Inv, DispatchFacts, Opened
  <1>18. \A e \in Decisions : RowOK(book'[e]) /\ RowAct(book[e], book'[e])
    BY <1>3, SameRow, KeptActs DEF Inv, Good
  <1>19. QED
    BY <1>11, <1>12, <1>13, <1>14, <1>15, <1>16, <1>17, <1>18 DEF Step, Inv

----------------------------------------------------------------------------
(* Processes *)

\* Process n becomes c2, and the row of its decision b2.
Moves(n, b2, c2) ==
    /\ book' = [book EXCEPT ![child[n].d] = b2]
    /\ child' = [child EXCEPT ![n] = c2]

\* The harness serves a call, or is not needed for what process n does.
Quiet(n, b2) ==
    /\ UNCHANGED <<harness, dispatch, held>>
    /\ Good(book[child[n].d], b2)
    /\ harness.at = "wake" => b2 = book[child[n].d]

\* A bundle was committed: the loop goes on with a scheduling pass.
Triggering(n, b2) ==
    /\ Sound(book[child[n].d], b2)
    /\ Trigger /\ dispatch' \in DispatchRow
    /\ dispatch'.queue \in {"active", "attention"} =>
          dispatch.queue \in {"active", "attention"}
    /\ UNCHANGED held

\* What process c becomes when it goes on.
Continues(n, c, b2, c2) ==
    /\ TypedChild(c2) /\ c2.d = c.d /\ c2.mode = c.mode /\ c2.owned = c.owned
    /\ c2.pc \notin {"unborn", "status"} \union Exited
    /\ c2.gen # 0 /\ (c2.gen = c.gen \/ c2.gen = b2.gen)
    /\ \/ c2.token = c.token
       \/ c.mode = "recover"
       \/ c2.token <= b2.rev /\ (c2.token = b2.token => b2.kind = "model")
    /\ c.thread # "none" => c2.thread # "none"
    /\ c.mode = "recover" => c2.thread = "none"
    /\ c2.pc = "bind" => c2.thread # "none"
    /\ c2.pc = "record" => c2.found # "none"
    /\ Bound(c2) => \/ c2.thread # "none" /\ b2.gens[c2.gen].thread = n
                    \/ Bound(c) /\ c2.gen = c.gen
    /\ \A g \in 1..2 : Reader(c2, g) =>
          \/ Reader(c, g)
          \/ book[c.d].gens[g].insp = "none" /\ b2.gens[g].insp # "none"

(* A process that takes what it read of the row to a call that needs no thread. *)
LEMMA Copied ==
    ASSUME NEW n, NEW c, NEW b2, NEW c2, TypedChild(c2), c2.d = c.d,
           c2.mode = c.mode, c2.owned = c.owned, c2.thread = c.thread,
           c2.read = c.read, c2.pc \in {"claim", "prepare", "ack", "generation"},
           c2.gen # 0, c2.gen = c.gen \/ c2.gen = b2.gen,
           c.mode = "recover" => c.thread = "none",
           \/ c2.token = c.token
           \/ c.mode = "recover"
           \/ c2.token <= b2.rev /\ b2.kind = "model"
    PROVE  Continues(n, c, b2, c2)
  BY DEF Continues, Bound, Reader, Exited

(* What the invariant says of one process and of the decision it was started for. *)
LEMMA ChildRow ==
    ASSUME Inv, NEW n \in Children
    PROVE  /\ child[n].d \in Decisions /\ RowOK(book[child[n].d])
           /\ TypedChild(child[n]) /\ Facts(n, child[n], book[child[n].d])
           /\ ThreadFacts(child[n].d)
           /\ book = [d \in Decisions |-> book[d]]
           /\ harness \in HarnessRow /\ dispatch \in DispatchRow
  BY DEF Inv, Typed, ChildFacts, TypedChild, ChildColumns

(* A process that goes on, over a row that kept what it relies on, still knows what it
   knew. *)
LEMMA ContinuesFacts ==
    ASSUME NEW n \in Children, NEW c, TypedChild(c), NEW b, RowOK(b), NEW b2,
           RowOK(b2), Kept(b, b2), Facts(n, c, b), c.pc # "unborn", NEW c2,
           c.d \in Decisions, b = book[c.d], Continues(n, c, b2, c2)
    PROVE  Facts(n, c2, b2)
  <1>1. Facts(n, c, b2)
    BY FactsKept
  <1>2. /\ b2.gen \in Nat /\ b2.rev \in Nat /\ c2.gen \in 0..2 /\ c2.token \in Nat
        /\ c.gen \in 0..2 /\ c.token \in Nat
    BY DEF RowOK, TypedBook, BookColumns, TypedChild, ChildColumns, Continues
  <1>3. \A g \in 1..2 : Reader(c2, g) => b2.gens[g].insp # "none"
    BY <1>1 DEF Continues, Facts
  <1>4. Bound(c2) => c2.thread # "none" /\ b2.gens[c2.gen].thread = n
    BY <1>1 DEF Continues, Facts, Bound
  <1>5. c2.gen <= b2.gen
    BY <1>1, <1>2 DEF Continues, Facts
  <1>6. c2.mode = "run" =>
           /\ c2.token <= b2.rev
           /\ c2.token # 0 /\ c2.token = b2.token => b2.kind = "model"
    BY <1>1, <1>2 DEF Continues, Facts
  <1>7. QED
    BY <1>1, <1>2, <1>3, <1>4, <1>5, <1>6 DEF Continues, Facts

(* A process that goes on.                                                 *)
LEMMA LiveMove ==
    ASSUME Inv, NEW n \in Children, child[n].pc # "unborn", NEW b2, NEW c2,
           Moves(n, b2, c2), Quiet(n, b2) \/ Triggering(n, b2),
           Continues(n, child[n], b2, c2)
    PROVE  Step
  <1> DEFINE c == child[n]
             b == book[c.d]
  <1>1. /\ c.d \in Decisions /\ RowOK(b) /\ TypedChild(c) /\ Facts(n, c, b)
        /\ ThreadFacts(c.d) /\ dispatch \in DispatchRow
    BY ChildRow
  <1>2. RowOK(b2) /\ Kept(b, b2) /\ SameThread(b, b2)
    BY DEF Quiet, Triggering, Good, Sound, Calm
  <1>3. Facts(n, c2, b2)
    BY <1>1, <1>2, ContinuesFacts
  <1>4. Current(b2).thread = n => c2.thread # "none" /\ c2.gen = b2.gen
    <2>1. n # 0
      BY DEF Children
    <2>2. QED
      BY <1>1, <1>2, <2>1 DEF SameThread, ThreadFacts, Continues
  <1>5. Current(b2).thread \notin {0, n} =>
           b2.gen = b.gen /\ Current(b2).thread = Current(b).thread
    BY <1>2 DEF SameThread
  <1>6. /\ TypedChild(c2) /\ c2.d = c.d /\ c2.pc # "unborn" /\ c2.owned = c.owned
        /\ \A g \in 1..2 : Reader(c2, g) => Reader(c, g) \/ b.gens[g].insp = "none"
    BY DEF Continues
  <1>7. /\ dispatch' \in DispatchRow /\ UNCHANGED held
        /\ dispatch'.queue \in {"active", "attention"} =>
              dispatch.queue \in {"active", "attention"}
        /\ \/ /\ UNCHANGED harness /\ (Owed(b2) => Owed(b))
              /\ harness.at = "wake" => b2.wake = b.wake
           \/ Trigger
    BY <1>1 DEF Quiet, Triggering, Good, Calm
  <1>8. QED
    BY <1>2, <1>3, <1>4, <1>5, <1>6, <1>7, ChildMove DEF Moves

(* A process that ends.                                                    *)
LEMMA EndMove ==
    ASSUME Inv, NEW n \in Children, child[n].pc # "unborn", NEW b2, NEW pc \in Exited,
           Moves(n, b2, Ended(child[n], pc)), Quiet(n, b2) \/ Triggering(n, b2)
    PROVE  Step
  <1> DEFINE c == child[n]
             b == book[c.d]
             c2 == Ended(c, pc)
  <1>1. /\ c.d \in Decisions /\ RowOK(b) /\ TypedChild(c) /\ Facts(n, c, b)
        /\ ThreadFacts(c.d) /\ dispatch \in DispatchRow
    BY ChildRow
  <1>2. /\ RowOK(b2) /\ Kept(b, b2) /\ SameThread(b, b2)
        /\ dispatch' \in DispatchRow /\ UNCHANGED held
        /\ dispatch'.queue \in {"active", "attention"} =>
              dispatch.queue \in {"active", "attention"}
        /\ \/ /\ UNCHANGED harness /\ (Owed(b2) => Owed(b))
              /\ harness.at = "wake" => b2.wake = b.wake
           \/ Trigger
    BY <1>1 DEF Quiet, Triggering, Good, Sound, Calm
  <1>3. /\ TypedChild(c2) /\ Weaker(c, c2) /\ c2.owned = c.owned
        /\ c2.d = c.d /\ c2.pc = pc
    BY <1>1, EndedTyped
  <1> HIDE DEF c2
  <1>4. Facts(n, c2, b2)
    <2>1. Facts(n, c, b2)
      BY <1>1, <1>2, FactsKept
    <2>2. QED
      BY <1>1, <1>2, <1>3, <2>1, FactsWeaker
  <1>5. \A g \in 1..2 : Reader(c2, g) => Reader(c, g)
    BY <1>3 DEF Reader, Weaker, Exited
  <1>6. Current(b2).thread = n => c2.thread # "none" /\ c2.gen = b2.gen
    <2>1. n # 0
      BY DEF Children
    <2>2. QED
      BY <1>1, <1>2, <1>3, <2>1 DEF SameThread, ThreadFacts, Weaker
  <1>7. Current(b2).thread \notin {0, n} =>
           b2.gen = b.gen /\ Current(b2).thread = Current(b).thread
    BY <1>2 DEF SameThread
  <1>8. child' = [child EXCEPT ![n] = c2] /\ c2.pc # "unborn"
    BY <1>3 DEF Moves, c2, Exited
  <1>9. QED
    BY <1>1, <1>2, <1>3, <1>4, <1>5, <1>6, <1>7, <1>8, ChildMove DEF Moves

\* Places where a process holds no more than it did.
Plain == {"prepare", "thread", "reset", "unbound", "failing", "complete",
          "reserve", "inspected", "ack", "generation"}

(* A process that only goes to its next place.                             *)
LEMMA GoOnMove ==
    ASSUME Inv, NEW n \in Children, child[n].pc \notin {"unborn", "status"} \union Exited,
           NEW b2, NEW pc, pc \in Plain \/ (pc = "submit" /\ child[n].mode = "recover"),
           Moves(n, b2, [child[n] EXCEPT !.pc = pc]),
           Quiet(n, b2) \/ Triggering(n, b2)
    PROVE  Step
  <1> DEFINE c == child[n]
             c2 == [c EXCEPT !.pc = pc]
  <1>1. TypedChild(c) /\ Facts(n, c, book[c.d])
    BY ChildRow
  <1>2. /\ ChildShape(c2) /\ c2.d = c.d /\ c2.mode = c.mode /\ c2.pc = pc
        /\ c2.rev = c.rev /\ c2.gen = c.gen /\ c2.token = c.token
        /\ c2.owned = c.owned /\ c2.thread = c.thread /\ c2.eff = c.eff
        /\ c2.waited = c.waited /\ c2.peer = c.peer /\ c2.read = c.read
        /\ c2.found = c.found
    BY <1>1 DEF TypedChild, ChildShape, ChildFields
  <1> HIDE DEF c2
  <1>3. TypedChild(c2)
    BY <1>1, <1>2 DEF TypedChild, ChildColumns
  <1>4. Continues(n, c, b2, c2)
    BY <1>1, <1>2, <1>3 DEF Continues, Facts, Bound, Reader, Plain, Exited
  <1>5. QED
    BY <1>4, LiveMove DEF c2, Exited

(* The status a process reads before it claims.                            *)
LEMMA ChildStatusStep == ASSUME Inv, NEW n \in Children, ChildStatus(n) PROVE Step
  <1> DEFINE c == child[n]
             b == book[c.d]
             good == [ToPc(n, "claim") EXCEPT !.rev = b.rev, !.gen = b.gen]
             bad == ToPc(n, "dead")
  <1>1. /\ c.d \in Decisions /\ RowOK(b) /\ TypedChild(c) /\ Facts(n, c, b)
        /\ book = [d \in Decisions |-> book[d]] /\ b.gen \in {1, 2}
    BY ChildRow, CurrentTyped DEF RowOK
  <1>2. /\ c.mode = "run" /\ c.pc = "status" /\ harness.at # "wake"
        /\ UNCHANGED <<harness, dispatch, held>>
    BY DEF ChildStatus, At, PlainCall, Call
  <1>3. Moves(n, b, good) \/ Moves(n, b, bad)
    BY <1>1 DEF ChildStatus, PlainCall, Call, Goto, Moves
  <1>4. Quiet(n, b)
    BY <1>1, <1>2, SameRow DEF Quiet
  <1>6. ASSUME NEW b3, Quiet(n, b3), Moves(n, b3, bad) PROVE Step
    BY <1>2, <1>6, EndMove DEF ToPc, Exited
  <1> HIDE DEF bad
  <1>7. ASSUME Moves(n, b, good) PROVE Step
    <2>1. /\ ChildShape(good) /\ good.d = c.d /\ good.mode = c.mode
          /\ good.pc = "claim" /\ good.rev = b.rev
          /\ good.gen = b.gen /\ good.token = c.token
          /\ good.owned = c.owned /\ good.thread = c.thread
          /\ good.eff = c.eff /\ good.waited = c.waited
          /\ good.peer = c.peer /\ good.read = c.read
          /\ good.found = c.found
      BY <1>1 DEF TypedChild, ChildShape, ChildFields, ToPc
    <2> HIDE DEF good
    <2>2. TypedChild(good)
      BY SMTT(30), <1>1, <1>2, <2>1, RowRange
         DEF TypedChild, ChildColumns, InspectionOutcomes
    <2>3. Continues(n, c, b, good)
      BY <1>1, <1>2, <2>1, <2>2, RowRange, Copied
    <2>4. QED
      BY <1>2, <1>4, <1>7, <2>3, LiveMove DEF good, Exited
  <1>8. QED
    BY <1>3, <1>4, <1>6, <1>7

(* A process claims the decision.                                          *)
LEMMA ChildClaimStep == ASSUME Inv, NEW n \in Children, ChildClaim(n) PROVE Step
  <1> DEFINE c == child[n]
             b == book[c.d]
             b2 == Claim(b, "model")
             good == [ToPc(n, "prepare") EXCEPT !.rev = c.rev + 1, !.token = c.rev + 1]
             bad == ToPc(n, "dead")
  <1>1. /\ c.d \in Decisions /\ RowOK(b) /\ TypedChild(c) /\ Facts(n, c, b)
        /\ book = [d \in Decisions |-> book[d]] /\ b.gen \in {1, 2}
    BY ChildRow, CurrentTyped DEF RowOK
  <1>2. /\ c.mode = "run" /\ c.pc = "claim" /\ harness.at # "wake"
        /\ UNCHANGED <<harness, dispatch, held>>
    BY DEF ChildClaim, At, PlainCall, Call
  <1>3. \/ /\ ClaimOk(b, "model", c.rev, c.gen) /\ BookValid(b2)
           /\ Moves(n, b2, good) \/ Moves(n, b2, bad)
        \/ Moves(n, b, bad)
    BY <1>1 DEF ChildClaim, PlainCall, Call, Goto, Moves
  <1>4. Quiet(n, b)
    BY <1>1, <1>2, SameRow DEF Quiet
  <1>5. ClaimOk(b, "model", c.rev, c.gen) /\ BookValid(b2) =>
           Quiet(n, b2) /\ b2.token = c.rev + 1 /\ b2.rev = c.rev + 1 /\ b2.kind = "model"
    <2> HAVE ClaimOk(b, "model", c.rev, c.gen) /\ BookValid(b2)
    <2>1. Good(b, b2) /\ b2.token = c.rev + 1 /\ b2.rev = c.rev + 1 /\ b2.kind = "model"
      BY <1>1, ClaimRow DEF ClaimOk, TypedChild, ChildColumns
    <2>2. QED
      BY <1>2, <2>1 DEF Quiet
  <1>6. ASSUME NEW b3, Quiet(n, b3), Moves(n, b3, bad) PROVE Step
    BY <1>2, <1>6, EndMove DEF ToPc, Exited
  <1> HIDE DEF b2, bad
  <1>7. ASSUME ClaimOk(b, "model", c.rev, c.gen), BookValid(b2), Moves(n, b2, good) PROVE Step
    <2>1. /\ ChildShape(good) /\ good.d = c.d /\ good.mode = c.mode
          /\ good.pc = "prepare" /\ good.rev = c.rev + 1
          /\ good.gen = c.gen /\ good.token = c.rev + 1
          /\ good.owned = c.owned /\ good.thread = c.thread
          /\ good.eff = c.eff /\ good.waited = c.waited
          /\ good.peer = c.peer /\ good.read = c.read
          /\ good.found = c.found
      BY <1>1 DEF TypedChild, ChildShape, ChildFields, ToPc
    <2> HIDE DEF good
    <2>2. TypedChild(good)
      BY SMTT(30), <1>1, <1>2, <2>1, RowRange
         DEF TypedChild, ChildColumns, InspectionOutcomes
    <2>3. Continues(n, c, b2, good)
      <3>1. c.gen \in {1, 2} /\ c.rev \in Nat
        BY <1>1, <1>7 DEF ClaimOk, TypedChild, ChildColumns
      <3>2. b2.rev = c.rev + 1 /\ b2.kind = "model"
        BY <1>5, <1>7
      <3>3. QED
        BY <1>2, <2>1, <2>2, <3>1, <3>2, Copied
    <2>4. QED
      BY <1>2, <1>5, <1>7, <2>3, LiveMove DEF good, Exited
  <1>8. QED
    BY <1>3, <1>4, <1>5, <1>6, <1>7

(* It prepares the generation for its prompt.                              *)
LEMMA ChildPrepareStep == ASSUME Inv, NEW n \in Children, ChildPrepare(n) PROVE Step
  <1> DEFINE c == child[n]
             b == book[c.d]
             b2 == Prepare(b, c.token)
             good == ToPc(n, "thread")
             bad == ToPc(n, "reset")
  <1>1. /\ c.d \in Decisions /\ RowOK(b) /\ TypedChild(c) /\ Facts(n, c, b)
        /\ book = [d \in Decisions |-> book[d]] /\ b.gen \in {1, 2}
    BY ChildRow, CurrentTyped DEF RowOK
  <1>2. /\ c.mode = "run" /\ c.pc = "prepare" /\ harness.at # "wake"
        /\ UNCHANGED <<harness, dispatch, held>>
    BY DEF ChildPrepare, At, PlainCall, Call
  <1>3. \/ /\ PrepareOk(b, c.gen, c.token) /\ BookValid(b2)
           /\ Moves(n, b2, good) \/ Moves(n, b2, bad)
        \/ Moves(n, b, bad)
    BY <1>1 DEF ChildPrepare, PlainCall, Call, Goto, Moves
  <1>4. Quiet(n, b)
    BY <1>1, <1>2, SameRow DEF Quiet
  <1>5. PrepareOk(b, c.gen, c.token) /\ BookValid(b2) => Quiet(n, b2)
    <2> HAVE PrepareOk(b, c.gen, c.token) /\ BookValid(b2)
    <2>1. Good(b, b2)
      BY <1>1, <1>2, PrepareRow DEF PrepareOk, TypedChild, ChildColumns, Facts
    <2>2. QED
      BY <1>2, <2>1 DEF Quiet
  <1>6. ASSUME NEW b3, Quiet(n, b3), Moves(n, b3, bad) PROVE Step
    BY <1>2, <1>6, GoOnMove DEF ToPc, Exited, Plain
  <1> HIDE DEF b2, bad
  <1>7. ASSUME PrepareOk(b, c.gen, c.token), BookValid(b2), Moves(n, b2, good) PROVE Step
    BY <1>2, <1>5, <1>7, GoOnMove DEF ToPc, Exited, Plain
  <1>8. QED
    BY <1>3, <1>4, <1>5, <1>6, <1>7

(* It asks for more time while its turn runs.                              *)
LEMMA ChildDeferStep == ASSUME Inv, NEW n \in Children, ChildDefer(n) PROVE Step
  <1> DEFINE c == child[n]
             b == book[c.d]
             b2 == Defer(b)
             good == [ToPc(n, "renew") EXCEPT !.rev = c.rev + 1]
             bad == ToPc(n, "failing")
  <1>1. /\ c.d \in Decisions /\ RowOK(b) /\ TypedChild(c) /\ Facts(n, c, b)
        /\ book = [d \in Decisions |-> book[d]] /\ b.gen \in {1, 2}
    BY ChildRow, CurrentTyped DEF RowOK
  <1>2. /\ c.mode = "run" /\ c.pc = "defer" /\ harness.at # "wake"
        /\ UNCHANGED <<harness, dispatch, held>>
    BY DEF ChildDefer, At, PlainCall, Call
  <1>3. \/ /\ DeferOk(b, c.gen, c.token, c.rev) /\ BookValid(b2)
           /\ Moves(n, b2, good) \/ Moves(n, b2, bad)
        \/ Moves(n, b, bad)
    BY <1>1 DEF ChildDefer, PlainCall, Call, Goto, Moves
  <1>4. Quiet(n, b)
    BY <1>1, <1>2, SameRow DEF Quiet
  <1>5. DeferOk(b, c.gen, c.token, c.rev) /\ BookValid(b2) => Quiet(n, b2)
    <2> HAVE DeferOk(b, c.gen, c.token, c.rev) /\ BookValid(b2)
    <2>1. Good(b, b2)
      BY <1>1, DeferRow
    <2>2. QED
      BY <1>2, <2>1 DEF Quiet
  <1>6. ASSUME NEW b3, Quiet(n, b3), Moves(n, b3, bad) PROVE Step
    BY <1>2, <1>6, GoOnMove DEF ToPc, Exited, Plain
  <1> HIDE DEF b2, bad
  <1>7. ASSUME DeferOk(b, c.gen, c.token, c.rev), BookValid(b2), Moves(n, b2, good) PROVE Step
    <2>1. /\ ChildShape(good) /\ good.d = c.d /\ good.mode = c.mode
          /\ good.pc = "renew" /\ good.rev = c.rev + 1
          /\ good.gen = c.gen /\ good.token = c.token
          /\ good.owned = c.owned /\ good.thread = c.thread
          /\ good.eff = c.eff /\ good.waited = c.waited
          /\ good.peer = c.peer /\ good.read = c.read
          /\ good.found = c.found
      BY <1>1 DEF TypedChild, ChildShape, ChildFields, ToPc
    <2> HIDE DEF good
    <2>2. TypedChild(good)
      BY SMTT(30), <1>1, <1>2, <2>1, RowRange
         DEF TypedChild, ChildColumns, InspectionOutcomes
    <2>3. Continues(n, c, b2, good)
      BY <1>1, <1>2, <2>1, <2>2 DEF Continues, Facts, Bound, Reader, Exited
    <2>4. QED
      BY <1>2, <1>5, <1>7, <2>3, LiveMove DEF good, Exited
  <1>8. QED
    BY <1>3, <1>4, <1>5, <1>6, <1>7

(* It renews its claim.                                                    *)
LEMMA ChildRenewStep == ASSUME Inv, NEW n \in Children, ChildRenew(n) PROVE Step
  <1> DEFINE c == child[n]
             b == book[c.d]
             b2 == Renew(b)
             good == [ToPc(n, "turn") EXCEPT !.rev = c.rev + 1, !.waited = TRUE]
             bad == ToPc(n, "failing")
  <1>1. /\ c.d \in Decisions /\ RowOK(b) /\ TypedChild(c) /\ Facts(n, c, b)
        /\ book = [d \in Decisions |-> book[d]] /\ b.gen \in {1, 2}
    BY ChildRow, CurrentTyped DEF RowOK
  <1>2. /\ c.mode = "run" /\ c.pc = "renew" /\ harness.at # "wake"
        /\ UNCHANGED <<harness, dispatch, held>>
    BY DEF ChildRenew, At, PlainCall, Call
  <1>3. \/ /\ RenewOk(b, c.token, c.rev) /\ BookValid(b2)
           /\ Moves(n, b2, good) \/ Moves(n, b2, bad)
        \/ Moves(n, b, bad)
    BY <1>1 DEF ChildRenew, PlainCall, Call, Goto, Moves
  <1>4. Quiet(n, b)
    BY <1>1, <1>2, SameRow DEF Quiet
  <1>5. RenewOk(b, c.token, c.rev) /\ BookValid(b2) => Quiet(n, b2)
    <2> HAVE RenewOk(b, c.token, c.rev) /\ BookValid(b2)
    <2>1. Good(b, b2)
      BY <1>1, RenewRow
    <2>2. QED
      BY <1>2, <2>1 DEF Quiet
  <1>6. ASSUME NEW b3, Quiet(n, b3), Moves(n, b3, bad) PROVE Step
    BY <1>2, <1>6, GoOnMove DEF ToPc, Exited, Plain
  <1> HIDE DEF b2, bad
  <1>7. ASSUME RenewOk(b, c.token, c.rev), BookValid(b2), Moves(n, b2, good) PROVE Step
    <2>1. /\ ChildShape(good) /\ good.d = c.d /\ good.mode = c.mode
          /\ good.pc = "turn" /\ good.rev = c.rev + 1
          /\ good.gen = c.gen /\ good.token = c.token
          /\ good.owned = c.owned /\ good.thread = c.thread
          /\ good.eff = c.eff /\ good.waited = TRUE
          /\ good.peer = c.peer /\ good.read = c.read
          /\ good.found = c.found /\ good.waited \in BOOLEAN
      BY <1>1 DEF TypedChild, ChildShape, ChildFields, ToPc
    <2> HIDE DEF good
    <2>2. TypedChild(good)
      BY SMTT(30), <1>1, <1>2, <2>1, RowRange
         DEF TypedChild, ChildColumns, InspectionOutcomes
    <2>3. Continues(n, c, b2, good)
      BY <1>1, <1>2, <2>1, <2>2 DEF Continues, Facts, Bound, Reader, Exited
    <2>4. QED
      BY <1>2, <1>5, <1>7, <2>3, LiveMove DEF good, Exited
  <1>8. QED
    BY <1>3, <1>4, <1>5, <1>6, <1>7

(* It acknowledges the bundle it committed.                                *)
LEMMA ChildAckStep == ASSUME Inv, NEW n \in Children, ChildAck(n) PROVE Step
  <1> DEFINE c == child[n]
             b == book[c.d]
             b2 == Ack(b)
             good == ToPc(n, "complete")
             bad == ToPc(n, "failing")
  <1>1. /\ c.d \in Decisions /\ RowOK(b) /\ TypedChild(c) /\ Facts(n, c, b)
        /\ book = [d \in Decisions |-> book[d]] /\ b.gen \in {1, 2}
    BY ChildRow, CurrentTyped DEF RowOK
  <1>2. /\ c.mode = "run" /\ c.pc = "ack" /\ harness.at # "wake"
        /\ UNCHANGED <<harness, dispatch, held>>
    BY DEF ChildAck, At, PlainCall, Call
  <1>3. \/ /\ AckOk(b, n, c.rev) /\ b.token = c.token /\ BookValid(b2)
           /\ Moves(n, b2, good) \/ Moves(n, b2, bad)
        \/ Moves(n, b, bad)
    BY <1>1 DEF ChildAck, PlainCall, Call, Goto, Moves
  <1>4. Quiet(n, b)
    BY <1>1, <1>2, SameRow DEF Quiet
  <1>5. AckOk(b, n, c.rev) /\ b.token = c.token /\ BookValid(b2) => Quiet(n, b2)
    <2> HAVE AckOk(b, n, c.rev) /\ b.token = c.token /\ BookValid(b2)
    <2>1. Good(b, b2)
      BY <1>1, AckRow DEF AckOk, Replay
    <2>2. QED
      BY <1>2, <2>1 DEF Quiet
  <1>6. ASSUME NEW b3, Quiet(n, b3), Moves(n, b3, bad) PROVE Step
    BY <1>2, <1>6, GoOnMove DEF ToPc, Exited, Plain
  <1> HIDE DEF b2, bad
  <1>7. ASSUME AckOk(b, n, c.rev) /\ b.token = c.token, BookValid(b2), Moves(n, b2, good) PROVE Step
    BY <1>2, <1>5, <1>7, GoOnMove DEF ToPc, Exited, Plain
  <1>8. QED
    BY <1>3, <1>4, <1>5, <1>6, <1>7

(* It reports its generation completed.                                    *)
LEMMA ChildCompleteStep == ASSUME Inv, NEW n \in Children, ChildComplete(n) PROVE Step
  <1> DEFINE c == child[n]
             b == book[c.d]
             b2 == Complete(b, "completed")
             good == ToPc(n, "dead")
             bad == ToPc(n, "failing")
  <1>1. /\ c.d \in Decisions /\ RowOK(b) /\ TypedChild(c) /\ Facts(n, c, b)
        /\ book = [d \in Decisions |-> book[d]] /\ b.gen \in {1, 2}
    BY ChildRow, CurrentTyped DEF RowOK
  <1>2. /\ c.mode = "run" /\ c.pc = "complete" /\ harness.at # "wake"
        /\ UNCHANGED <<harness, dispatch, held>>
    BY DEF ChildComplete, At, PlainCall, Call
  <1>3. \/ /\ CompleteOk(b, c.gen, "completed") /\ BookValid(b2)
           /\ Moves(n, b2, good) \/ Moves(n, b2, bad)
        \/ Moves(n, b, bad)
    BY <1>1 DEF ChildComplete, PlainCall, Call, Goto, Moves
  <1>4. Quiet(n, b)
    BY <1>1, <1>2, SameRow DEF Quiet
  <1>5. CompleteOk(b, c.gen, "completed") /\ BookValid(b2) => Quiet(n, b2)
    <2> HAVE CompleteOk(b, c.gen, "completed") /\ BookValid(b2)
    <2>1. Good(b, b2)
      BY <1>1, <1>2, CompleteRow DEF InspectionOutcomes, Facts
    <2>2. QED
      BY <1>2, <2>1 DEF Quiet
  <1>6. ASSUME NEW b3, Quiet(n, b3), Moves(n, b3, bad) PROVE Step
    BY <1>2, <1>6, GoOnMove DEF ToPc, Exited, Plain
  <1> HIDE DEF b2, bad
  <1>7. ASSUME CompleteOk(b, c.gen, "completed"), BookValid(b2), Moves(n, b2, good) PROVE Step
    BY <1>2, <1>5, <1>7, EndMove DEF ToPc, Exited
  <1>8. QED
    BY <1>3, <1>4, <1>5, <1>6, <1>7

(* It gives the claim back.                                                *)
LEMMA ChildResetStep == ASSUME Inv, NEW n \in Children, ChildReset(n) PROVE Step
  <1> DEFINE c == child[n]
             b == book[c.d]
             b2 == Reset(b, c.gen)
             bad == ToPc(n, "dead")
  <1>1. /\ c.d \in Decisions /\ RowOK(b) /\ TypedChild(c) /\ Facts(n, c, b)
        /\ book = [d \in Decisions |-> book[d]] /\ b.gen \in {1, 2}
    BY ChildRow, CurrentTyped DEF RowOK
  <1>2. /\ c.mode = "run" /\ c.pc = "reset" /\ harness.at # "wake"
        /\ UNCHANGED <<harness, dispatch, held>>
    BY DEF ChildReset, At, PlainCall, Call
  <1>3. \/ ResetOk(b, c.gen, c.rev, c.token) /\ BookValid(b2) /\ Moves(n, b2, bad)
        \/ Moves(n, b, bad)
    BY <1>1 DEF ChildReset, PlainCall, Call, Goto, Moves
  <1>4. Quiet(n, b)
    BY <1>1, <1>2, SameRow DEF Quiet
  <1>5. ResetOk(b, c.gen, c.rev, c.token) /\ BookValid(b2) => Quiet(n, b2)
    <2> HAVE ResetOk(b, c.gen, c.rev, c.token) /\ BookValid(b2)
    <2>1. Good(b, b2)
      <3>1. c.gen \in {1, 2}
        BY <1>1, <1>2, CopiedGeneration DEF Exited
      <3>2. QED
        BY <1>1, <3>1, ResetRow
    <2>2. QED
      BY <1>2, <2>1 DEF Quiet
  <1>6. ASSUME NEW b3, Quiet(n, b3), Moves(n, b3, bad) PROVE Step
    BY <1>2, <1>6, EndMove DEF ToPc, Exited
  <1>7. QED
    BY <1>3, <1>4, <1>5, <1>6

(* It reports a thread it could not bind.                                  *)
LEMMA ChildUnboundStep == ASSUME Inv, NEW n \in Children, ChildUnbound(n) PROVE Step
  <1> DEFINE c == child[n]
             b == book[c.d]
             b2 == Complete(b, "ambiguous")
             good == ToPc(n, "reserve")
             bad == ToPc(n, "dead")
  <1>1. /\ c.d \in Decisions /\ RowOK(b) /\ TypedChild(c) /\ Facts(n, c, b)
        /\ book = [d \in Decisions |-> book[d]] /\ b.gen \in {1, 2}
    BY ChildRow, CurrentTyped DEF RowOK
  <1>2. /\ c.mode = "run" /\ c.pc = "unbound" /\ harness.at # "wake"
        /\ UNCHANGED <<harness, dispatch, held>>
    BY DEF ChildUnbound, At, PlainCall, Call
  <1>3. \/ /\ CompleteOk(b, c.gen, "ambiguous") /\ BookValid(b2)
           /\ Moves(n, b2, good) \/ Moves(n, b2, bad)
        \/ Moves(n, b, bad)
    BY <1>1 DEF ChildUnbound, PlainCall, Call, Goto, Moves
  <1>4. Quiet(n, b)
    BY <1>1, <1>2, SameRow DEF Quiet
  <1>5. CompleteOk(b, c.gen, "ambiguous") /\ BookValid(b2) => Quiet(n, b2)
    <2> HAVE CompleteOk(b, c.gen, "ambiguous") /\ BookValid(b2)
    <2>1. Good(b, b2)
      BY <1>1, <1>2, CompleteRow DEF InspectionOutcomes, Facts
    <2>2. QED
      BY <1>2, <2>1 DEF Quiet
  <1>6. ASSUME NEW b3, Quiet(n, b3), Moves(n, b3, bad) PROVE Step
    BY <1>2, <1>6, EndMove DEF ToPc, Exited
  <1> HIDE DEF b2, bad
  <1>7. ASSUME CompleteOk(b, c.gen, "ambiguous"), BookValid(b2), Moves(n, b2, good) PROVE Step
    BY <1>2, <1>5, <1>7, GoOnMove DEF ToPc, Exited, Plain
  <1>8. QED
    BY <1>3, <1>4, <1>5, <1>6, <1>7

(* And records that there is nothing to read.                              *)
LEMMA ChildUnboundInspectedStep ==
    ASSUME Inv, NEW n \in Children, ChildUnboundInspected(n)
    PROVE  Step
  <1> DEFINE c == child[n]
             b == book[c.d]
             b2 == Inspected(b, "ambiguous", "none")
             bad == ToPc(n, "dead")
  <1>1. /\ c.d \in Decisions /\ RowOK(b) /\ TypedChild(c) /\ Facts(n, c, b)
        /\ book = [d \in Decisions |-> book[d]] /\ b.gen \in {1, 2}
    BY ChildRow, CurrentTyped DEF RowOK
  <1>2. /\ c.mode = "run" /\ c.pc = "inspected" /\ harness.at # "wake"
        /\ UNCHANGED <<harness, dispatch, held>>
    BY DEF ChildUnboundInspected, At, PlainCall, Call
  <1>3. \/ InspectedOk(b, c.gen, c.rev, "ambiguous", 0) /\ BookValid(b2) /\ Moves(n, b2, bad)
        \/ Moves(n, b, bad)
    BY <1>1 DEF ChildUnboundInspected, PlainCall, Call, Goto, Moves
  <1>4. Quiet(n, b)
    BY <1>1, <1>2, SameRow DEF Quiet
  <1>5. InspectedOk(b, c.gen, c.rev, "ambiguous", 0) /\ BookValid(b2) => Quiet(n, b2)
    <2> HAVE InspectedOk(b, c.gen, c.rev, "ambiguous", 0) /\ BookValid(b2)
    <2>1. Good(b, b2)
      BY <1>1, InspectedRow DEF InspectionOutcomes
    <2>2. QED
      BY <1>2, <2>1 DEF Quiet
  <1>6. ASSUME NEW b3, Quiet(n, b3), Moves(n, b3, bad) PROVE Step
    BY <1>2, <1>6, EndMove DEF ToPc, Exited
  <1>7. QED
    BY <1>3, <1>4, <1>5, <1>6

(* The SDK opens a thread, or fails to.                                    *)
LEMMA ChildStartThreadStep == ASSUME Inv, NEW n \in Children, ChildStartThread(n) PROVE Step
  <1> DEFINE c == child[n]
             b == book[c.d]
  <1>1. /\ c.d \in Decisions /\ RowOK(b) /\ TypedChild(c) /\ Facts(n, c, b)
        /\ book = [d \in Decisions |-> book[d]] /\ b.gen \in {1, 2}
    BY ChildRow, CurrentTyped DEF RowOK
  <1>2. /\ c.mode = "run" /\ c.pc = "thread"
        /\ UNCHANGED <<book, harness, dispatch, held>>
    BY DEF ChildStartThread, At
  <1>3. /\ Quiet(n, b)
        /\ \A c2 : child' = [child EXCEPT ![n] = c2] => Moves(n, b, c2)
    BY <1>1, <1>2, SameRow DEF Quiet, Moves
  <1> DEFINE good == [ToPc(n, "bind") EXCEPT !.thread = "open"]
  <1>4. \/ child' = [child EXCEPT ![n] = good]
        \/ child' = [child EXCEPT ![n] = [c EXCEPT !.pc = "reset"]]
    BY DEF ChildStartThread, Goto, ToPc
  <1>5. CASE child' = [child EXCEPT ![n] = [c EXCEPT !.pc = "reset"]]
    BY <1>2, <1>3, <1>5, GoOnMove DEF Exited, Plain
  <1>6. CASE child' = [child EXCEPT ![n] = good]
    <2>1. /\ ChildShape(good) /\ good.d = c.d /\ good.mode = c.mode
          /\ good.pc = "bind" /\ good.rev = c.rev
          /\ good.gen = c.gen /\ good.token = c.token
          /\ good.owned = c.owned /\ good.thread = "open"
          /\ good.eff = c.eff /\ good.waited = c.waited
          /\ good.peer = c.peer /\ good.read = c.read
          /\ good.found = c.found
      BY <1>1 DEF TypedChild, ChildShape, ChildFields, ToPc
    <2> HIDE DEF good
    <2>2. TypedChild(good)
      BY <1>1, <1>2, <2>1, RowRange
         DEF TypedChild, ChildColumns, InspectionOutcomes
    <2>3. Continues(n, c, b, good)
      BY <1>1, <1>2, <2>1, <2>2 DEF Continues, Facts, Bound, Reader, Exited
    <2>4. QED
      BY <1>2, <1>3, <1>6, <2>3, LiveMove DEF good, Exited
  <1>7. QED
    BY <1>4, <1>5, <1>6

(* The turn starts on the bound thread.                                    *)
LEMMA ChildBindTurnStep == ASSUME Inv, NEW n \in Children, ChildBindTurn(n) PROVE Step
  <1> DEFINE c == child[n]
             b == book[c.d]
             good == [[c EXCEPT !.thread = "running"] EXCEPT !.pc = "wait"]
             bad == [[c EXCEPT !.thread = "running"]
                       EXCEPT !.pc = "failing", !.thread = "interrupted"]
  <1>1. /\ c.d \in Decisions /\ RowOK(b) /\ TypedChild(c) /\ Facts(n, c, b)
        /\ book = [d \in Decisions |-> book[d]] /\ b.gen \in {1, 2}
    BY ChildRow, CurrentTyped DEF RowOK
  <1>2. /\ c.mode = "run" /\ c.pc = "turn" /\ harness.at # "wake"
        /\ UNCHANGED <<harness, dispatch, held>>
    BY DEF ChildBindTurn, At, PlainCall, Call
  <1>3. Moves(n, b, good) \/ Moves(n, b, bad)
    BY <1>1 DEF ChildBindTurn, PlainCall, Call, Goto, Moves
  <1>4. Quiet(n, b)
    BY <1>1, <1>2, SameRow DEF Quiet
  <1>5. CASE Moves(n, b, good)
    <2>1. /\ ChildShape(good) /\ good.d = c.d /\ good.mode = c.mode
          /\ good.pc = "wait" /\ good.rev = c.rev
          /\ good.gen = c.gen /\ good.token = c.token
          /\ good.owned = c.owned /\ good.thread = "running"
          /\ good.eff = c.eff /\ good.waited = c.waited
          /\ good.peer = c.peer /\ good.read = c.read
          /\ good.found = c.found
      BY <1>1 DEF TypedChild, ChildShape, ChildFields, ToPc
    <2> HIDE DEF good
    <2>2. TypedChild(good)
      BY <1>1, <1>2, <2>1, RowRange
         DEF TypedChild, ChildColumns, InspectionOutcomes
    <2>3. Continues(n, c, b, good)
      BY <1>1, <1>2, <2>1, <2>2 DEF Continues, Facts, Bound, Reader, Exited
    <2>4. QED
      BY <1>2, <1>4, <1>5, <2>3, LiveMove DEF good, Exited
  <1>6. CASE Moves(n, b, bad)
    <2>1. /\ ChildShape(bad) /\ bad.d = c.d /\ bad.mode = c.mode
          /\ bad.pc = "failing" /\ bad.rev = c.rev
          /\ bad.gen = c.gen /\ bad.token = c.token
          /\ bad.owned = c.owned /\ bad.thread = "interrupted"
          /\ bad.eff = c.eff /\ bad.waited = c.waited
          /\ bad.peer = c.peer /\ bad.read = c.read
          /\ bad.found = c.found
      BY <1>1 DEF TypedChild, ChildShape, ChildFields, ToPc
    <2> HIDE DEF bad
    <2>2. TypedChild(bad)
      BY <1>1, <1>2, <2>1, RowRange
         DEF TypedChild, ChildColumns, InspectionOutcomes
    <2>3. Continues(n, c, b, bad)
      BY <1>1, <1>2, <2>1, <2>2 DEF Continues, Facts, Bound, Reader, Exited
    <2>4. QED
      BY <1>2, <1>4, <1>6, <2>3, LiveMove DEF bad, Exited
  <1>7. QED
    BY <1>3, <1>5, <1>6

(* A turn ends with a bundle, a failure, or without an answer.             *)
LEMMA ChildTurnEndsStep == ASSUME Inv, NEW n \in Children, ChildTurnEnds(n) PROVE Step
  <1> DEFINE c == child[n]
             b == book[c.d]
  <1>1. /\ c.d \in Decisions /\ RowOK(b) /\ TypedChild(c) /\ Facts(n, c, b)
        /\ book = [d \in Decisions |-> book[d]] /\ b.gen \in {1, 2}
    BY ChildRow, CurrentTyped DEF RowOK
  <1>2. /\ c.mode = "run" /\ c.pc = "wait"
        /\ UNCHANGED <<book, harness, dispatch, held>>
    BY DEF ChildTurnEnds, At
  <1>3. /\ Quiet(n, b)
        /\ \A c2 : child' = [child EXCEPT ![n] = c2] => Moves(n, b, c2)
    BY <1>1, <1>2, SameRow DEF Quiet, Moves
  <1> DEFINE done(eff) == [[c EXCEPT !.pc = "submit"]
                            EXCEPT !.thread = "completed", !.eff = eff]
             lost(pc, end) == [[c EXCEPT !.pc = pc] EXCEPT !.thread = end]
  <1>4. \/ \E eff \in Effects : child' = [child EXCEPT ![n] = done(eff)]
        \/ \E pc \in {"failing", "defer"}, end \in {"failed", "interrupted"} :
              child' = [child EXCEPT ![n] = lost(pc, end)]
    BY DEF ChildTurnEnds, Goto, ToPc
  <1>5. ASSUME NEW eff \in Effects, child' = [child EXCEPT ![n] = done(eff)]
        PROVE  Step
    <2> DEFINE good == done(eff)
    <2>1. /\ ChildShape(good) /\ good.d = c.d /\ good.mode = c.mode
          /\ good.pc = "submit" /\ good.rev = c.rev
          /\ good.gen = c.gen /\ good.token = c.token
          /\ good.owned = c.owned /\ good.thread = "completed"
          /\ good.eff = eff /\ good.waited = c.waited
          /\ good.peer = c.peer /\ good.read = c.read
          /\ good.found = c.found
      BY <1>1 DEF TypedChild, ChildShape, ChildFields, ToPc
    <2> HIDE DEF good
    <2>2. TypedChild(good)
      BY <1>1, <1>2, <2>1, RowRange
         DEF TypedChild, ChildColumns, InspectionOutcomes
    <2>3. Continues(n, c, b, good)
      BY <1>1, <1>2, <2>1, <2>2 DEF Continues, Facts, Bound, Reader, Exited
    <2>4. QED
      BY <1>2, <1>3, <1>5, <2>3, LiveMove DEF good, Exited
  <1>6. ASSUME NEW pc \in {"failing", "defer"}, NEW end \in {"failed", "interrupted"},
               child' = [child EXCEPT ![n] = lost(pc, end)]
        PROVE  Step
    <2> DEFINE good == lost(pc, end)
    <2>1. /\ ChildShape(good) /\ good.d = c.d /\ good.mode = c.mode
          /\ good.pc = pc /\ good.rev = c.rev /\ good.gen = c.gen
          /\ good.token = c.token /\ good.owned = c.owned
          /\ good.thread = end /\ good.eff = c.eff
          /\ good.waited = c.waited /\ good.peer = c.peer
          /\ good.read = c.read /\ good.found = c.found
      BY <1>1 DEF TypedChild, ChildShape, ChildFields, ToPc
    <2> HIDE DEF good
    <2>2. TypedChild(good)
      BY <1>1, <1>2, <2>1, RowRange
         DEF TypedChild, ChildColumns, InspectionOutcomes
    <2>3. Continues(n, c, b, good)
      BY <1>1, <1>2, <2>1, <2>2 DEF Continues, Facts, Bound, Reader, Exited
    <2>4. QED
      BY <1>2, <1>3, <1>6, <2>3, LiveMove DEF good, Exited
  <1>7. QED
    BY <1>4, <1>5, <1>6

(* It reports a turn that failed.                                          *)
LEMMA ChildFailsStep == ASSUME Inv, NEW n \in Children, ChildFails(n) PROVE Step
  <1> DEFINE c == child[n]
             b == book[c.d]
             bad == ToPc(n, "dead")
  <1>1. /\ c.d \in Decisions /\ RowOK(b) /\ TypedChild(c) /\ Facts(n, c, b)
        /\ book = [d \in Decisions |-> book[d]] /\ b.gen \in {1, 2}
    BY ChildRow, CurrentTyped DEF RowOK
  <1>2. /\ c.mode = "run" /\ c.pc = "failing" /\ harness.at # "wake"
        /\ UNCHANGED <<harness, dispatch, held>>
    BY DEF ChildFails, At, PlainCall, Call
  <1>3. PICK outcome \in {"failed", "interrupted"} :
           \/ /\ CompleteOk(b, c.gen, outcome) /\ BookValid(Complete(b, outcome))
              /\ Moves(n, Complete(b, outcome), bad)
           \/ Moves(n, b, bad)
    BY <1>1 DEF ChildFails, PlainCall, Call, Goto, Moves
  <1>4. CASE Moves(n, b, bad)
    <2>1. Quiet(n, b)
      BY <1>1, <1>2, SameRow DEF Quiet
    <2>2. QED
      BY <1>2, <1>4, <2>1, EndMove DEF ToPc, Exited
  <1>5. CASE /\ CompleteOk(b, c.gen, outcome) /\ BookValid(Complete(b, outcome))
             /\ Moves(n, Complete(b, outcome), bad)
    <2>1. Good(b, Complete(b, outcome))
      BY <1>1, <1>2, <1>5, CompleteRow DEF InspectionOutcomes, Facts
    <2>2. Quiet(n, Complete(b, outcome))
      BY <1>2, <2>1 DEF Quiet
    <2>3. QED
      BY <1>2, <1>5, <2>2, EndMove DEF ToPc, Exited
  <1>6. QED
    BY <1>3, <1>4, <1>5

(* It binds its thread to the generation.                                  *)
LEMMA ChildBindThreadStep == ASSUME Inv, NEW n \in Children, ChildBindThread(n) PROVE Step
  <1> DEFINE c == child[n]
             b == book[c.d]
             b2 == BindThread(b, n)
             moved(pc) == [c EXCEPT !.pc = pc]
  <1>1. /\ c.d \in Decisions /\ RowOK(b) /\ TypedChild(c) /\ Facts(n, c, b)
        /\ book = [d \in Decisions |-> book[d]] /\ b.gen \in {1, 2}
    BY ChildRow, CurrentTyped DEF RowOK
  <1>2. /\ c.mode = "run" /\ c.pc = "bind" /\ harness.at # "wake"
        /\ UNCHANGED <<harness, dispatch, held>>
    BY DEF ChildBindThread, At, PlainCall, Call
  <1>3. \/ /\ BindThreadOk(b, c.gen, n) /\ BookValid(b2)
           /\ \E pc \in {"turn", "unbound"} : Moves(n, b2, moved(pc))
        \/ Moves(n, b, moved("unbound"))
    BY <1>1 DEF ChildBindThread, PlainCall, Call, Goto, Moves, ToPc
  <1>4. CASE Moves(n, b, moved("unbound"))
    <2>1. Quiet(n, b)
      BY <1>1, <1>2, SameRow DEF Quiet
    <2>2. QED
      BY <1>2, <1>4, <2>1, GoOnMove DEF Exited, Plain
  <1>5. ASSUME BindThreadOk(b, c.gen, n), BookValid(b2),
               NEW pc \in {"turn", "unbound"}, Moves(n, b2, moved(pc))
        PROVE  Step
    <2> DEFINE c2 == moved(pc)
    <2>1. c.thread # "none" /\ c.gen = b.gen /\ n # 0 /\ c.gen # 0
      <3>1. c.thread # "none"
        BY <1>1, <1>2, CopiedGeneration DEF Exited
      <3>2. c.gen = b.gen
        BY <1>5 DEF BindThreadOk
      <3>3. QED
        BY <1>1, <3>1, <3>2 DEF Children
    <2>2. /\ ChildShape(c2) /\ c2.d = c.d /\ c2.mode = c.mode /\ c2.pc = pc
          /\ c2.rev = c.rev /\ c2.gen = c.gen /\ c2.token = c.token
          /\ c2.owned = c.owned /\ c2.thread = c.thread /\ c2.eff = c.eff
          /\ c2.waited = c.waited /\ c2.peer = c.peer /\ c2.read = c.read
          /\ c2.found = c.found
      BY <1>1 DEF TypedChild, ChildShape, ChildFields
    <2>3. /\ RowOK(b2) /\ Kept(b, b2) /\ Current(b2).thread = n
          /\ b2.gen = b.gen /\ (Owed(b2) <=> Owed(b))
      <3>1. CASE Current(b).thread = n
        <4>1. b2 = b
          BY <3>1 DEF BindThread
        <4>2. QED
          BY <1>1, <3>1, <4>1, SameRow DEF Good
      <3>2. CASE Current(b).thread # n
        BY <1>1, <1>5, <3>2, BindRow
      <3>3. QED
        BY <3>1, <3>2
    <2> HIDE DEF c2, b2
    <2>4. TypedChild(c2)
      BY <1>1, <2>2 DEF TypedChild, ChildColumns
    <2>5. Continues(n, c, b2, c2)
      BY <1>2, <2>1, <2>2, <2>3, <2>4 DEF Continues, Current, Reader, Exited
    <2>6. Facts(n, c2, b2)
      BY <1>1, <1>2, <2>3, <2>5, ContinuesFacts
    <2>7. \A g \in 1..2 : Reader(c2, g) => Reader(c, g)
      BY <1>2, <2>2 DEF Reader
    <2>8. dispatch \in DispatchRow
      BY DEF Inv, Typed
    <2>9. child' = [child EXCEPT ![n] = c2] /\ book' = [book EXCEPT ![c.d] = b2]
      BY <1>5 DEF Moves, c2
    <2>10. QED
      BY <1>2, <2>1, <2>2, <2>3, <2>4, <2>6, <2>7, <2>8, <2>9, ChildMove
  <1>6. QED
    BY <1>3, <1>4, <1>5

(* A bundle that is committed, or was already.                             *)
LEMMA SubmitSound ==
    ASSUME NEW b, RowOK(b), NEW eff \in {"none"} \union Effects,
           NEW n \in {0} \union Children, b.effect = "none",
           b.state \in {"claimed", "awaiting_claim"}, Current(b).thread = n,
           b.kind # "human", BookValid(Submit(b, eff, n))
    PROVE  Sound(b, Submit(b, eff, n))
  <1> DEFINE b2 == Submit(b, eff, n)
  <1>1. eff \in Effects
    <2>1. b2.effect = eff /\ (eff = "none" => b2.state = "action_committed")
      BY DEF RowOK, TypedBook, BookShape, Columns, Submit
    <2>2. QED
      BY <2>1 DEF BookValid
  <1>2. /\ RowOK(b2) /\ Kept(b, b2) /\ Current(b2) = Current(b)
        /\ b2.gen = b.gen
    BY <1>1, SubmitRow
  <1>3. QED
    BY <1>2 DEF Sound, SameThread

(* A process submits its bundle.                                           *)
LEMMA ChildSubmitStep == ASSUME Inv, NEW n \in Children, ChildSubmit(n) PROVE Step
  <1> DEFINE c == child[n]
             b == book[c.d]
             replay == Replay(b, n) /\ b.token = c.token
             fresh == /\ b.effect = "none"
                      /\ SubmitOk(b, c.gen, c.token, c.token)
                      /\ EffectAllowed(c.eff, dispatch.queue)
             b2 == IF replay THEN b ELSE Submit(b, c.eff, n)
             good == [ToPc(n, "ack") EXCEPT !.rev = c.token + 1]
             bad == [c EXCEPT !.pc = "failing"]
  <1>1. /\ c.d \in Decisions /\ RowOK(b) /\ TypedChild(c) /\ Facts(n, c, b)
        /\ book = [d \in Decisions |-> book[d]] /\ b.gen \in {1, 2}
    BY ChildRow, CurrentTyped DEF RowOK
  <1>2. c.mode = "run" /\ c.pc = "submit" /\ harness.at # "wake"
    BY DEF ChildSubmit, At, SubmitCall, Call
  <1>3. \/ /\ replay \/ fresh
           /\ BookValid(b2) /\ (Moves(n, b2, good) \/ Moves(n, b2, bad))
           /\ Trigger /\ UNCHANGED held
           /\ dispatch' = IF b2 = b THEN dispatch ELSE Applied(c.eff)
        \/ Moves(n, b, bad) /\ UNCHANGED <<harness, dispatch, held>>
    BY <1>1 DEF ChildSubmit, SubmitCall, Call, Goto, Moves, ToPc
  <1>4. CASE Moves(n, b, bad) /\ UNCHANGED <<harness, dispatch, held>>
    <2>1. Quiet(n, b)
      BY <1>1, <1>2, <1>4, SameRow DEF Quiet
    <2>2. QED
      BY <1>2, <1>4, <2>1, GoOnMove DEF Exited, Plain
  <1>5. CASE /\ replay \/ fresh
             /\ BookValid(b2) /\ (Moves(n, b2, good) \/ Moves(n, b2, bad))
             /\ Trigger /\ UNCHANGED held
             /\ dispatch' = IF b2 = b THEN dispatch ELSE Applied(c.eff)
    <2>1. Sound(b, b2)
      <3>1. CASE replay
        BY <1>1, <3>1, SameRow DEF Good, Sound, Calm
      <3>2. CASE ~replay
        <4>1. fresh /\ b2 = Submit(b, c.eff, n) /\ BookValid(Submit(b, c.eff, n))
          BY <1>5, <3>2
        <4>2. Current(b).thread = n
          BY <1>1, <1>2, <4>1 DEF Facts, Bound, SubmitOk, Current
        <4>3. b.kind # "human"
          BY <1>1, <1>2, <4>1 DEF Facts, SubmitOk, RowOK, RowFacts
        <4>4. b.state = "claimed" /\ b.effect = "none"
          BY <4>1 DEF SubmitOk
        <4>5. c.eff \in {"none"} \union Effects
          BY <1>1 DEF TypedChild, ChildColumns
        <4> HIDE DEF b2, replay, fresh
        <4>6. Sound(b, Submit(b, c.eff, n))
          BY <1>1, <4>1, <4>2, <4>3, <4>4, <4>5, SubmitSound
        <4>7. QED
          BY <4>1, <4>6
      <3>3. QED
        BY <3>1, <3>2
    <2>2. /\ dispatch' \in DispatchRow
          /\ dispatch'.queue \in {"active", "attention"} =>
                dispatch.queue \in {"active", "attention"}
      <3>1. dispatch \in DispatchRow
        BY DEF Inv, Typed
      <3>2. CASE b2 = b
        BY <1>5, <3>1, <3>2
      <3>3. CASE b2 # b
        <4>1. EffectAllowed(c.eff, dispatch.queue) /\ dispatch' = Applied(c.eff)
          BY <1>5, <3>3
        <4>2. QED
          BY <4>1, AppliedTyped
      <3>4. QED
        BY <3>2, <3>3
    <2>3. Triggering(n, b2)
      BY <1>5, <2>1, <2>2 DEF Triggering
    <2>4. CASE Moves(n, b2, bad)
      BY <1>2, <2>3, <2>4, GoOnMove DEF Exited, Plain
    <2>5. CASE Moves(n, b2, good)
      <3> HIDE DEF b2
      <3>1. /\ ChildShape(good) /\ good.d = c.d /\ good.mode = c.mode
            /\ good.pc = "ack" /\ good.rev = c.token + 1
            /\ good.gen = c.gen /\ good.token = c.token
            /\ good.owned = c.owned /\ good.thread = c.thread
            /\ good.eff = c.eff /\ good.waited = c.waited
            /\ good.peer = c.peer /\ good.read = c.read
            /\ good.found = c.found
        BY <1>1 DEF TypedChild, ChildShape, ChildFields, ToPc
      <3> HIDE DEF good
      <3>2. TypedChild(good)
        BY SMTT(30), <1>1, <1>2, <3>1, RowRange
           DEF TypedChild, ChildColumns, InspectionOutcomes
      <3>3. Continues(n, c, b2, good)
        BY <1>1, <1>2, <3>1, <3>2 DEF Continues, Facts, Bound, Reader, Exited
      <3>4. QED
        BY <1>2, <2>3, <2>5, <3>3, LiveMove DEF good, Exited
    <2>6. QED
      BY <1>5, <2>4, <2>5
  <1>6. QED
    BY <1>3, <1>4, <1>5

(* A process reserves the one read of its generation.                      *)
LEMMA ChildReserveStep == ASSUME Inv, NEW n \in Children, ChildReserve(n) PROVE Step
  <1> DEFINE c == child[n]
             b == book[c.d]
             b2 == Reserve(b)
             pc == IF c.mode = "recover" THEN "inspect" ELSE "inspected"
             good == [[c EXCEPT !.pc = pc] EXCEPT !.rev = b.rev, !.gen = b.gen]
             bad == Ended(c, "dead")
  <1>1. /\ c.d \in Decisions /\ RowOK(b) /\ TypedChild(c) /\ Facts(n, c, b)
        /\ book = [d \in Decisions |-> book[d]] /\ b.gen \in {1, 2}
    BY ChildRow, CurrentTyped DEF RowOK
  <1>2. /\ c.pc = "reserve" /\ harness.at # "wake"
        /\ UNCHANGED <<harness, dispatch, held>>
    BY DEF ChildReserve, ReserveCall, Serving, Call
  <1>3. \/ /\ ReserveOk(b) /\ BookValid(b2)
           /\ Moves(n, b2, good) \/ Moves(n, b2, bad)
        \/ Moves(n, b, bad)
        \/ /\ Current(b).insp = "expired" /\ BookValid(Ambiguous(b))
           /\ Moves(n, Ambiguous(b), bad)
    BY <1>1 DEF ChildReserve, ReserveCall, Call, Goto, Moves, ToPc
  <1>4. CASE Moves(n, b, bad)
    <2>1. Quiet(n, b)
      BY <1>1, <1>2, SameRow DEF Quiet
    <2>2. QED
      BY <1>2, <1>4, <2>1, EndMove DEF Exited
  <1>5. CASE /\ Current(b).insp = "expired" /\ BookValid(Ambiguous(b))
             /\ Moves(n, Ambiguous(b), bad)
    <2>1. b.kind # "human"
      BY <1>1, <1>5 DEF RowOK, RowFacts
    <2>2. Good(b, Ambiguous(b))
      BY <1>1, <1>5, <2>1, AmbiguousRow
    <2>3. Quiet(n, Ambiguous(b))
      BY <1>2, <2>2 DEF Quiet
    <2>4. QED
      BY <1>2, <1>5, <2>3, EndMove DEF Exited
  <1>6. CASE /\ ReserveOk(b) /\ BookValid(b2)
             /\ Moves(n, b2, good) \/ Moves(n, b2, bad)
    <2>1. Good(b, b2)
      BY <1>1, <1>6, ReserveRow
    <2>2. Quiet(n, b2)
      BY <1>2, <2>1 DEF Quiet
    <2>3. CASE Moves(n, b2, bad)
      BY <1>2, <2>2, <2>3, EndMove DEF Exited
    <2>4. /\ b.gens[b.gen].insp = "none" /\ b2.gens[b.gen].insp # "none"
          /\ b2.gen = b.gen
      <3>1. TypedBook(b) /\ TypedGeneration(b.gens[b.gen])
        BY <1>1, CurrentTyped DEF RowOK
      <3>2. QED
        BY <1>1, <1>6, <3>1 DEF ReserveOk, Reserve, SetGen, Current, TypedBook,
           BookShape, Columns, BookColumns, TypedGeneration, GenerationShape
    <2>5. b.rev \in Nat
      BY <1>1 DEF RowOK, TypedBook, BookColumns
    <2>8. c.mode = "recover" => c.thread = "none"
      BY <1>1 DEF Facts
    <2>6. CASE Moves(n, b2, good)
      <3> HIDE DEF b2
      <3>1. /\ ChildShape(good) /\ good.d = c.d /\ good.mode = c.mode
            /\ good.pc = pc /\ good.rev = b.rev /\ good.gen = b.gen
            /\ good.token = c.token /\ good.owned = c.owned
            /\ good.thread = c.thread /\ good.eff = c.eff
            /\ good.waited = c.waited /\ good.peer = c.peer
            /\ good.read = c.read /\ good.found = c.found
        BY <1>1 DEF TypedChild, ChildShape, ChildFields, ToPc
      <3> HIDE DEF good
      <3>2. TypedChild(good)
        BY SMTT(30), <1>1, <1>2, <3>1, <2>5, RowRange
           DEF TypedChild, ChildColumns, InspectionOutcomes
      <3>5. \A g \in 1..2 : Reader(good, g) => Reader(c, g) \/ g = b.gen
        BY <3>1 DEF Reader
      <3>6. \A g \in 1..2 : Reader(good, g) =>
               \/ Reader(c, g)
               \/ book[c.d].gens[g].insp = "none" /\ b2.gens[g].insp # "none"
        BY <2>4, <3>5
      <3>7. /\ good.pc \in {"inspect", "inspected"} /\ ~Bound(good)
            /\ good.pc \notin {"unborn", "status"} \union Exited
        BY <3>1 DEF Bound, Exited
      <3>8. good.d = c.d /\ good.mode = c.mode /\ good.owned = c.owned
        BY <3>1
      <3>10. good.gen = b.gen
        BY <3>1
      <3>11. b.gen # 0
        BY <1>1
      <3>12. good.gen = b2.gen
        BY <3>10, <2>4
      <3>9. /\ good.pc # "bind" /\ good.pc # "record" /\ good.token = c.token
            /\ c.thread # "none" => good.thread # "none"
            /\ c.mode = "recover" => good.thread = "none"
        BY <2>8, <3>1, <3>7
      <3>3. Continues(n, c, b2, good)
        BY <1>1, <1>2, <3>1, <3>2, <2>4, <2>8, <3>6, <3>7, <3>8, <3>9, <3>10, <3>11, <3>12
           DEF Continues
      <3>4. QED
        BY <1>2, <2>2, <2>6, <3>3, LiveMove DEF good, Exited
    <2>7. QED
      BY <1>6, <2>3, <2>6
  <1>7. QED
    BY <1>3, <1>4, <1>5, <1>6

(* A recovery process reads what there is to recover.                      *)
LEMMA RecoverStatusStep == ASSUME Inv, NEW n \in Children, RecoverStatus(n) PROVE Step
  <1> DEFINE c == child[n]
             b == book[c.d]
             good(pc) == [[c EXCEPT !.pc = pc]
                            EXCEPT !.rev = b.rev, !.token = b.rev, !.gen = b.gen]
             bad == Ended(c, "dead")
  <1>1. /\ c.d \in Decisions /\ RowOK(b) /\ TypedChild(c) /\ Facts(n, c, b)
        /\ book = [d \in Decisions |-> book[d]] /\ b.gen \in {1, 2}
    BY ChildRow, CurrentTyped DEF RowOK
  <1>2. /\ c.mode = "recover" /\ c.pc = "status" /\ harness.at # "wake"
        /\ UNCHANGED <<harness, dispatch, held>> /\ b.rev \in Nat
    BY <1>1 DEF RecoverStatus, At, PlainCall, Call, RowOK, TypedBook, BookColumns
  <1>3. Moves(n, b, good("ack")) \/ Moves(n, b, good("generation")) \/ Moves(n, b, bad)
    BY <1>1 DEF RecoverStatus, PlainCall, Call, Goto, Moves, ToPc
  <1>4. Quiet(n, b)
    BY <1>1, <1>2, SameRow DEF Quiet
  <1>5. CASE Moves(n, b, bad)
    BY <1>2, <1>4, <1>5, EndMove DEF Exited
  <1>8. c.thread = "none"
    BY <1>1, <1>2 DEF Facts
  <1>6. ASSUME NEW pc \in {"ack", "generation"}, Moves(n, b, good(pc)) PROVE Step
    <2> DEFINE c2 == good(pc)
    <2>1. /\ ChildShape(c2) /\ c2.d = c.d /\ c2.mode = c.mode
          /\ c2.pc = pc /\ c2.rev = b.rev /\ c2.gen = b.gen
          /\ c2.token = b.rev /\ c2.owned = c.owned
          /\ c2.thread = c.thread /\ c2.eff = c.eff
          /\ c2.waited = c.waited /\ c2.peer = c.peer
          /\ c2.read = c.read /\ c2.found = c.found
      BY <1>1 DEF TypedChild, ChildShape, ChildFields, ToPc
    <2> HIDE DEF c2
    <2>2. TypedChild(c2)
      BY SMTT(30), <1>1, <1>2, <2>1, RowRange
         DEF TypedChild, ChildColumns, InspectionOutcomes
    <2>3. Continues(n, c, b, c2)
      BY <1>1, <1>2, <2>1, <2>2, <1>8, RowRange, Copied
    <2>4. QED
      BY <1>2, <1>4, <1>6, <2>3, LiveMove DEF c2, Exited
  <1>7. QED
    BY <1>3, <1>5, <1>6

(* It learns whether the generation was read, and whose thread it names.   *)
LEMMA RecoverGenerationStep == ASSUME Inv, NEW n \in Children, RecoverGeneration(n) PROVE Step
  <1> DEFINE c == child[n]
             b == book[c.d]
             g == b.gens[c.gen]
             peer(p) == IF p = "reserve" THEN g.thread ELSE 0
             good(p) == [[c EXCEPT !.pc = p] EXCEPT !.peer = peer(p)]
             bad == Ended(c, "dead")
  <1>1. /\ c.d \in Decisions /\ RowOK(b) /\ TypedChild(c) /\ Facts(n, c, b)
        /\ book = [d \in Decisions |-> book[d]] /\ b.gen \in {1, 2}
    BY ChildRow, CurrentTyped DEF RowOK
  <1>2. /\ c.mode = "recover" /\ c.pc = "generation" /\ harness.at # "wake"
        /\ UNCHANGED <<harness, dispatch, held>>
    BY DEF RecoverGeneration, At, PlainCall, Call
  <1>3. [bad EXCEPT !.peer = 0] = bad
    <2>1. bad.peer = 0 /\ ChildShape(bad)
      BY ZenonT(30), <1>1, <1>2, EndedTyped DEF Ended, NoChild, TypedChild, Exited
    <2> HIDE DEF bad
    <2>2. QED
      BY <2>1 DEF ChildShape, ChildFields
  <1>4. Moves(n, b, good("reserve")) \/ Moves(n, b, good("submit")) \/ Moves(n, b, bad)
    <2> DEFINE next == CASE g.out = "none" -> "reserve"
                         [] g.out = "completed" -> "submit"
                         [] OTHER -> "dead"
    <2>1. next \in {"reserve", "submit", "dead"}
      OBVIOUS
    <2>2. \/ Moves(n, b, [ToPc(n, next) EXCEPT !.peer = peer(next)])
          \/ Moves(n, b, bad)
      BY <1>1 DEF RecoverGeneration, PlainCall, Call, Goto, Moves, ToPc
    <2> HIDE DEF next
    <2>3. QED
      BY <1>3, <2>1, <2>2 DEF ToPc
  <1>5. Quiet(n, b)
    BY <1>1, <1>2, SameRow DEF Quiet
  <1>6. CASE Moves(n, b, bad)
    BY <1>2, <1>5, <1>6, EndMove DEF Exited
  <1>7. g.thread \in {0} \union Children
    <2>1. c.gen \in {1, 2}
      BY <1>1, <1>2, CopiedGeneration DEF Exited
    <2>2. TypedGeneration(g)
      BY <1>1, <2>1, CurrentTyped DEF RowOK
    <2>3. QED
      BY <2>2 DEF TypedGeneration, GenerationColumns
  <1>8. ASSUME NEW p \in {"reserve", "submit"}, Moves(n, b, good(p)) PROVE Step
    <2>0. peer(p) \in {0} \union Children
      BY <1>7
    <2> DEFINE q == peer(p)
               c2 == [[c EXCEPT !.pc = p] EXCEPT !.peer = q]
    <2> HIDE DEF q
    <2>1. /\ ChildShape(c2) /\ c2.d = c.d /\ c2.mode = c.mode
          /\ c2.pc = p /\ c2.rev = c.rev /\ c2.gen = c.gen
          /\ c2.token = c.token /\ c2.owned = c.owned
          /\ c2.thread = c.thread /\ c2.eff = c.eff
          /\ c2.waited = c.waited /\ c2.peer = q /\ c2.read = c.read
          /\ c2.found = c.found
      BY <1>1 DEF TypedChild, ChildShape, ChildFields, ToPc
    <2> HIDE DEF c2
    <2>2. TypedChild(c2)
      BY <1>1, <1>2, <2>1, <2>0
         DEF q, TypedChild, ChildColumns, RowOK, TypedBook, BookColumns, InspectionOutcomes
    <2>3. Continues(n, c, b, c2)
      BY <1>1, <1>2, <2>1, <2>2 DEF Continues, Facts, Bound, Reader, Exited
    <2>4. QED
      BY <1>2, <1>5, <1>8, <2>3, LiveMove DEF c2, q, Exited
  <1>9. QED
    BY <1>4, <1>6, <1>8

(* It reads the thread, once.                                              *)
LEMMA RecoverInspectStep == ASSUME Inv, NEW n \in Children, RecoverInspect(n) PROVE Step
  <1> DEFINE c == child[n]
             b == book[c.d]
  <1>1. /\ c.d \in Decisions /\ RowOK(b) /\ TypedChild(c) /\ Facts(n, c, b)
        /\ book = [d \in Decisions |-> book[d]] /\ b.gen \in {1, 2}
    BY ChildRow, CurrentTyped DEF RowOK
  <1>2. /\ c.mode = "recover" /\ c.pc = "inspect"
        /\ UNCHANGED <<book, harness, dispatch, held>>
    BY DEF RecoverInspect, At
  <1>3. /\ Quiet(n, b)
        /\ \A c2 : child' = [child EXCEPT ![n] = c2] => Moves(n, b, c2)
    BY <1>1, <1>2, SameRow DEF Quiet, Moves
  <1> DEFINE p == child[c.peer]
             seen(kind, eff, read) ==
                 [[c EXCEPT !.pc = "record"]
                    EXCEPT !.found = kind, !.eff = eff, !.read = read]
  <1>4. PICK kind \in InspectionOutcomes :
           /\ c.peer = 0 => kind # "completed"
           /\ child' = [child EXCEPT ![n] =
                          seen(kind, IF kind = "completed" THEN p.eff ELSE c.eff,
                               IF c.peer = 0 THEN 0 ELSE c.gen)]
    <2> DEFINE e == [c EXCEPT !.pc = "record"]
               Read == CASE p.thread \in {"running", "interrupted"} ->
                              {"active", "interrupted"}
                         [] p.thread = "failed" -> {"failed"}
                         [] p.thread = "completed" /\ p.token = c.token
                            /\ p.gen = c.gen -> {"completed"}
                         [] OTHER -> {}
               Seen == IF c.peer = 0 THEN {"ambiguous"}
                       ELSE {"unavailable", "ambiguous"} \union Read
    <2>1. \A kind \in Seen : /\ kind \in InspectionOutcomes
                             /\ c.peer = 0 => kind # "completed"
      <3>1. \A kind \in Read : kind \in {"active", "interrupted", "failed", "completed"}
        OBVIOUS
      <3> HIDE DEF Read
      <3>2. QED
        BY <3>1 DEF InspectionOutcomes
    <2>2. PICK kind \in Seen :
             child' = [child EXCEPT ![n] =
               [e EXCEPT !.found = kind,
                         !.eff = IF kind = "completed" THEN p.eff ELSE @,
                         !.read = IF c.peer = 0 THEN 0 ELSE c.gen]]
      BY DEF RecoverInspect, Goto, ToPc
    <2>3. e.eff = c.eff
      BY <1>1 DEF TypedChild, ChildShape, ChildFields
    <2> HIDE DEF Seen, Read
    <2>4. QED
      BY <2>1, <2>2, <2>3
  <1> DEFINE eff == IF kind = "completed" THEN p.eff ELSE c.eff
             read == IF c.peer = 0 THEN 0 ELSE c.gen
             good == [[c EXCEPT !.pc = "record"]
                        EXCEPT !.found = kind, !.eff = eff, !.read = read]
  <1>5. eff \in {"none"} \union Effects
    <2>1. CASE kind = "completed"
      <3>1. c.peer \in Children
        BY <1>1, <1>4, <2>1 DEF TypedChild, ChildColumns
      <3>2. TypedChild(p)
        BY <3>1, ChildRow
      <3>3. QED
        BY <2>1, <3>2 DEF TypedChild, ChildColumns
    <2>2. CASE kind # "completed"
      BY <1>1, <2>2 DEF TypedChild, ChildColumns
    <2>3. QED
      BY <2>1, <2>2
  <1>6. read \in {0, c.gen}
    OBVIOUS
  <1>7. child' = [child EXCEPT ![n] = good]
    BY <1>4
  <1> HIDE DEF eff, read
  <1>8. /\ ChildShape(good) /\ good.d = c.d /\ good.mode = c.mode
        /\ good.pc = "record" /\ good.rev = c.rev
        /\ good.gen = c.gen /\ good.token = c.token
        /\ good.owned = c.owned /\ good.thread = c.thread
        /\ good.eff = eff /\ good.waited = c.waited
        /\ good.peer = c.peer /\ good.read = read
        /\ good.found = kind
    BY <1>1 DEF TypedChild, ChildShape, ChildFields, ToPc
  <1> HIDE DEF good
  <1>9. TypedChild(good)
    BY SMTT(30), <1>1, <1>2, <1>8, <1>5, <1>6, RowRange
       DEF TypedChild, ChildColumns, InspectionOutcomes
  <1>10. Continues(n, c, b, good)
    <2>1. c.gen # 0 /\ c.thread = "none"
      BY <1>1, <1>2, CopiedGeneration DEF Exited
    <2>2. \A g \in 1..2 : Reader(good, g) => Reader(c, g)
      BY <1>1, <1>2, <1>6, <1>8 DEF Reader
    <2>3. kind # "none"
      BY <1>2 DEF InspectionOutcomes
    <2>4. QED
      BY <1>2, <1>8, <1>9, <2>1, <2>2, <2>3 DEF Continues, Bound, Exited
  <1>11. QED
    BY <1>2, <1>3, <1>7, <1>10, LiveMove DEF good, Exited

(* It records what the read came to.                                       *)
LEMMA RecoverRecordStep == ASSUME Inv, NEW n \in Children, RecoverRecord(n) PROVE Step
  <1> DEFINE c == child[n]
             b == book[c.d]
             b2 == Inspected(b, c.found, c.eff)
             good == ToPc(n, IF c.found = "completed" THEN "submit" ELSE "dead")
             bad == ToPc(n, "dead")
  <1>1. /\ c.d \in Decisions /\ RowOK(b) /\ TypedChild(c) /\ Facts(n, c, b)
        /\ book = [d \in Decisions |-> book[d]] /\ b.gen \in {1, 2}
    BY ChildRow, CurrentTyped DEF RowOK
  <1>2. /\ c.mode = "recover" /\ c.pc = "record" /\ harness.at # "wake"
        /\ UNCHANGED <<harness, dispatch, held>>
    BY DEF RecoverRecord, At, PlainCall, Call
  <1>3. \/ /\ InspectedOk(b, c.gen, c.rev, c.found, c.token) /\ BookValid(b2)
           /\ Moves(n, b2, good) \/ Moves(n, b2, bad)
        \/ Moves(n, b, bad)
    BY <1>1 DEF RecoverRecord, PlainCall, Call, Goto, Moves
  <1>4. Quiet(n, b)
    BY <1>1, <1>2, SameRow DEF Quiet
  <1>5. InspectedOk(b, c.gen, c.rev, c.found, c.token) /\ BookValid(b2) => Quiet(n, b2)
    <2> HAVE InspectedOk(b, c.gen, c.rev, c.found, c.token) /\ BookValid(b2)
    <2>1. Good(b, b2)
      <3>1. b.wake \notin Undelivered
        BY <1>1, <1>2 DEF Facts, Reached, InspectedOk, RowOK, BookValid
      <3>2. c.found \in InspectionOutcomes /\ c.eff \in {"none"} \union Effects
        BY <1>1, <1>2 DEF Facts, TypedChild, ChildColumns
      <3>3. QED
        BY <1>1, <3>1, <3>2, InspectedRow
    <2>2. QED
      BY <1>2, <2>1 DEF Quiet
  <1>6. ASSUME NEW b3, Quiet(n, b3), Moves(n, b3, bad) PROVE Step
    BY <1>2, <1>6, EndMove DEF ToPc, Exited
  <1> HIDE DEF b2, bad
  <1>7. ASSUME InspectedOk(b, c.gen, c.rev, c.found, c.token), BookValid(b2),
               Moves(n, b2, good)
        PROVE  Step
    <2>1. CASE c.found = "completed"
      BY <1>2, <1>5, <1>7, <2>1, GoOnMove DEF ToPc, Exited
    <2>2. CASE c.found # "completed"
      BY <1>2, <1>5, <1>7, <2>2, EndMove DEF ToPc, Exited
    <2>3. QED
      BY <2>1, <2>2
  <1>8. QED
    BY <1>3, <1>4, <1>5, <1>6, <1>7

(* It acknowledges an effect that was committed before it came.            *)
LEMMA RecoverAckStep == ASSUME Inv, NEW n \in Children, RecoverAck(n) PROVE Step
  <1> DEFINE c == child[n]
             b == book[c.d]
             b2 == Ack(b)
             bad == ToPc(n, "dead")
  <1>1. /\ c.d \in Decisions /\ RowOK(b) /\ TypedChild(c) /\ Facts(n, c, b)
        /\ book = [d \in Decisions |-> book[d]] /\ b.gen \in {1, 2}
    BY ChildRow, CurrentTyped DEF RowOK
  <1>2. /\ c.mode = "recover" /\ c.pc = "ack" /\ harness.at # "wake"
        /\ UNCHANGED <<harness, dispatch, held>>
    BY DEF RecoverAck, At, PlainCall, Call
  <1>3. \/ AckRecoveredOk(b, b.by, c.rev) /\ BookValid(b2) /\ Moves(n, b2, bad)
        \/ Moves(n, b, bad)
    BY <1>1 DEF RecoverAck, PlainCall, Call, Goto, Moves
  <1>4. Quiet(n, b)
    BY <1>1, <1>2, SameRow DEF Quiet
  <1>5. AckRecoveredOk(b, b.by, c.rev) /\ BookValid(b2) => Quiet(n, b2)
    <2> HAVE AckRecoveredOk(b, b.by, c.rev) /\ BookValid(b2)
    <2>1. Good(b, b2)
      BY <1>1, AckRow DEF AckRecoveredOk, AckOk, Replay
    <2>2. QED
      BY <1>2, <2>1 DEF Quiet
  <1>6. ASSUME NEW b3, Quiet(n, b3), Moves(n, b3, bad) PROVE Step
    BY <1>2, <1>6, EndMove DEF ToPc, Exited
  <1>7. QED
    BY <1>3, <1>4, <1>5, <1>6

(* A recovery process submits the bundle that was read.                    *)
LEMMA RecoverSubmitStep == ASSUME Inv, NEW n \in Children, RecoverSubmit(n) PROVE Step
  <1> DEFINE c == child[n]
             b == book[c.d]
             g == Current(b)
             replay == g.out = "completed" /\ Replay(b, g.thread)
             fresh == /\ b.effect = "none" /\ SubmitRecoveredOk(b)
                      /\ EffectAllowed(g.eff, dispatch.queue)
             b2 == IF replay THEN b ELSE Submit(b, g.eff, g.thread)
             good == [ToPc(n, "ack") EXCEPT !.rev = g.rev + 1]
             bad == Ended(c, "dead")
  <1>1. /\ c.d \in Decisions /\ RowOK(b) /\ TypedChild(c) /\ Facts(n, c, b)
        /\ book = [d \in Decisions |-> book[d]] /\ b.gen \in {1, 2}
    BY ChildRow, CurrentTyped DEF RowOK
  <1>2. c.mode = "recover" /\ c.pc = "submit" /\ harness.at # "wake"
    BY DEF RecoverSubmit, At, SubmitCall, Call
  <1>3. \/ /\ replay \/ fresh
           /\ BookValid(b2) /\ (Moves(n, b2, good) \/ Moves(n, b2, bad))
           /\ Trigger /\ UNCHANGED held
           /\ dispatch' = IF b2 = b THEN dispatch ELSE Applied(g.eff)
        \/ Moves(n, b, bad) /\ UNCHANGED <<harness, dispatch, held>>
    BY <1>1 DEF RecoverSubmit, SubmitCall, Call, Goto, Moves, ToPc
  <1>4. CASE Moves(n, b, bad) /\ UNCHANGED <<harness, dispatch, held>>
    <2>1. Quiet(n, b)
      BY <1>1, <1>2, <1>4, SameRow DEF Quiet
    <2>2. QED
      BY <1>2, <1>4, <2>1, EndMove DEF Exited
  <1>5. CASE /\ replay \/ fresh
             /\ BookValid(b2) /\ (Moves(n, b2, good) \/ Moves(n, b2, bad))
             /\ Trigger /\ UNCHANGED held
             /\ dispatch' = IF b2 = b THEN dispatch ELSE Applied(g.eff)
    <2>0. /\ g.thread \in {0} \union Children /\ g.rev \in Nat
          /\ g.eff \in {"none"} \union Effects
      <3>1. TypedGeneration(g)
        BY <1>1, CurrentTyped DEF RowOK, Current
      <3>2. QED
        BY <3>1 DEF TypedGeneration, GenerationColumns
    <2>1. Sound(b, b2)
      <3>1. CASE replay
        BY <1>1, <3>1, SameRow DEF Good, Sound, Calm
      <3>2. CASE ~replay
        <4>1. fresh /\ b2 = Submit(b, g.eff, g.thread) /\ BookValid(Submit(b, g.eff, g.thread))
          BY <1>5, <3>2
        <4>2. /\ b.kind # "human" /\ b.state \in {"claimed", "awaiting_claim"}
              /\ b.effect = "none"
          BY <4>1 DEF SubmitRecoveredOk
        <4> HIDE DEF b2, replay, fresh
        <4>3. Sound(b, Submit(b, g.eff, g.thread))
          BY <1>1, <2>0, <4>1, <4>2, SubmitSound
        <4>4. QED
          BY <4>1, <4>3
      <3>3. QED
        BY <3>1, <3>2
    <2>2. /\ dispatch' \in DispatchRow
          /\ dispatch'.queue \in {"active", "attention"} =>
                dispatch.queue \in {"active", "attention"}
      <3>1. dispatch \in DispatchRow
        BY DEF Inv, Typed
      <3>2. CASE b2 = b
        BY <1>5, <3>1, <3>2
      <3>3. CASE b2 # b
        <4>1. EffectAllowed(g.eff, dispatch.queue) /\ dispatch' = Applied(g.eff)
          BY <1>5, <3>3
        <4>2. QED
          BY <4>1, AppliedTyped
      <3>4. QED
        BY <3>2, <3>3
    <2>3. Triggering(n, b2)
      BY <1>5, <2>1, <2>2 DEF Triggering
    <2>4. CASE Moves(n, b2, bad)
      BY <1>2, <2>3, <2>4, EndMove DEF Exited
    <2>5. CASE Moves(n, b2, good)
      <3> HIDE DEF b2, g
      <3>1. /\ ChildShape(good) /\ good.d = c.d /\ good.mode = c.mode
            /\ good.pc = "ack" /\ good.rev = g.rev + 1
            /\ good.gen = c.gen /\ good.token = c.token
            /\ good.owned = c.owned /\ good.thread = c.thread
            /\ good.eff = c.eff /\ good.waited = c.waited
            /\ good.peer = c.peer /\ good.read = c.read
            /\ good.found = c.found
        BY <1>1 DEF TypedChild, ChildShape, ChildFields, ToPc
      <3> HIDE DEF good
      <3>2. TypedChild(good)
        BY SMTT(30), <1>1, <1>2, <3>1, <2>0, RowRange
           DEF TypedChild, ChildColumns, InspectionOutcomes
      <3>3. Continues(n, c, b2, good)
        BY <1>1, <1>2, <3>1, <3>2 DEF Continues, Facts, Bound, Reader, Exited
      <3>4. QED
        BY <1>2, <2>3, <2>5, <3>3, LiveMove DEF good, Exited
    <2>6. QED
      BY <1>5, <2>4, <2>5
  <1>6. QED
    BY <1>3, <1>4, <1>5

(* The SDK adapter cannot be constructed.                                  *)
LEMMA ChildProfileFailsStep == ASSUME Inv, NEW n \in Children, ChildProfileFails(n) PROVE Step
  <1> DEFINE b == book[child[n].d]
  <1>1. RowOK(b) /\ book = [d \in Decisions |-> book[d]]
    BY ChildRow
  <1>2. Quiet(n, b) /\ Moves(n, b, Ended(child[n], "profile")) /\ child[n].pc # "unborn"
    BY <1>1, SameRow DEF ChildProfileFails, Quiet, Moves, Goto
  <1>3. QED
    BY <1>2, EndMove DEF Exited

(* A process dies.                                                         *)
LEMMA ChildDiesStep == ASSUME Inv, NEW n \in Children, ChildDies(n) PROVE Step
  <1> DEFINE b == book[child[n].d]
  <1>1. RowOK(b) /\ book = [d \in Decisions |-> book[d]]
    BY ChildRow
  <1>2. Quiet(n, b) /\ Moves(n, b, Ended(child[n], "dead")) /\ child[n].pc # "unborn"
    BY <1>1, SameRow DEF ChildDies, Quiet, Moves, Goto, Die
  <1>3. QED
    BY <1>2, EndMove DEF Exited

----------------------------------------------------------------------------
(* The invariant *)

(* Nothing has been opened and no process started: the invariant holds.    *)
LEMMA InitInv == ASSUME Init PROVE Inv
  <1>1. /\ 0 \in Decisions /\ MaxCycle \in Nat /\ Checkpoints \subseteq Decisions
    BY ControllerBounds DEF Decisions, Checkpoints
  <1>2. /\ \A d \in Decisions : book[d] = NoBook
        /\ \A n \in Children : child[n] = NoChild
        /\ harness.at = "deliver"
    BY DEF Init
  <1>3. harness \in HarnessRow
    <2>1. /\ harness = [x \in HarnessFields |-> harness[x]]
          /\ harness.todo = {} /\ harness.cur = 0 /\ harness.mode = "none"
          /\ harness.failed = {} /\ harness.crashes = 0 /\ harness.humans = 0
      BY DEF Init, HarnessFields
    <2>2. QED
      BY <1>1, <1>2, <2>1, HarnessTyped
  <1>4. dispatch \in DispatchRow
    BY ControllerBounds DEF Init, DispatchRow
  <1>5. /\ ChildShape(NoChild) /\ NoChild.d = 0 /\ NoChild.mode = "none"
        /\ NoChild.pc = "unborn" /\ NoChild.rev = 0 /\ NoChild.gen = 0
        /\ NoChild.token = 0 /\ NoChild.owned = FALSE /\ NoChild.thread = "none"
        /\ NoChild.eff = "none" /\ NoChild.waited = FALSE /\ NoChild.peer = 0
        /\ NoChild.read = 0 /\ NoChild.found = "none"
        /\ NoChild.owned \in BOOLEAN /\ NoChild.waited \in BOOLEAN
    BY DEF NoChild, ChildShape, ChildFields
  <1>6. TypedChild(NoChild)
    BY <1>1, <1>5 DEF TypedChild, ChildColumns
  <1>7. Typed
    <2>1. held \in [Decisions -> Nat]
      BY DEF Init
    <2>2. book = [d \in Decisions |-> book[d]] /\ child = [n \in Children |-> child[n]]
      BY DEF Init
    <2>3. QED
      BY <1>2, <1>3, <1>4, <1>6, <2>1, <2>2 DEF Typed
  <1>8. RowOK(NoBook) /\ NoBook.state = "absent"
    BY NoRow
  <1>9. NoBook.gen \in {1, 2}
    BY <1>8, CurrentTyped DEF RowOK
  <1>10. \A n \in Children : Facts(n, NoChild, NoBook)
    BY <1>5, <1>9 DEF Facts, Bound, Reader
  <1>11. \A n \in Children : ChildFacts(n)
    BY <1>1, <1>2, <1>5, <1>10 DEF ChildFacts
  <1>12. ReaderFacts
    BY <1>2, <1>5 DEF ReaderFacts, Reader
  <1>13. \A d \in Decisions : ThreadFacts(d)
    <2>1. Current(NoBook).thread = 0
      BY DEF NoBook, NoGeneration, Current
    <2>2. QED
      BY <1>2, <2>1 DEF ThreadFacts
  <1>14. (\A d \in Decisions : OwedFacts(d)) /\ PositionFacts
    BY <1>2 DEF OwedFacts, PositionFacts
  <1>15. DispatchFacts
    <2>1. Opened = {}
      BY <1>1, <1>2, <1>8 DEF Opened
    <2>2. 0 \in 0..MaxCycle /\ 1..0 = {}
      BY <1>1
    <2>3. QED
      BY <1>1, <1>2, <1>8, <2>1, <2>2 DEF DispatchFacts
  <1>16. QED
    BY <1>2, <1>7, <1>8, <1>11, <1>12, <1>13, <1>14, <1>15 DEF Inv

(* Every step of the harness keeps it.                                     *)
LEMMA HarnessNextStep == ASSUME Inv, HarnessNext PROVE Step
  BY CrashStep, StopStep, RestartStep, ProfileRefreshStep, ClaimWakeStep,
     ScheduleStep, RecordWakeStep, BeginScheduleStep, LaunchStep,
     LaunchRefusedStep, LaunchFailsStep, ReapChildStep DEF HarnessNext

(* So does every step of a process,                                        *)
LEMMA RunStepStep == ASSUME Inv, NEW n \in Children, RunStep(n) PROVE Step
  BY ChildStatusStep, ChildClaimStep, ChildPrepareStep, ChildStartThreadStep,
     ChildBindThreadStep, ChildBindTurnStep, ChildTurnEndsStep,
     ChildDeferStep, ChildRenewStep, ChildSubmitStep, ChildAckStep,
     ChildCompleteStep, ChildFailsStep, ChildResetStep, ChildUnboundStep,
     ChildReserveStep, ChildUnboundInspectedStep DEF RunStep

(* Every step of a recovery process. *)
LEMMA RecoverStepStep == ASSUME Inv, NEW n \in Children, RecoverStep(n) PROVE Step
  BY RecoverStatusStep, RecoverGenerationStep, RecoverInspectStep,
     RecoverRecordStep, RecoverSubmitStep, RecoverAckStep DEF RecoverStep

(* Every step of a controller process. *)
LEMMA ChildNextStep == ASSUME Inv, ChildNext PROVE Step
  BY RunStepStep, RecoverStepStep, ChildProfileFailsStep, ChildDiesStep
     DEF ChildNext

(* of a person, of time, and of the dispatch.                              *)
LEMMA OtherNextStep ==
    ASSUME Inv, OperatorNext \/ TimeNext \/ DispatchNext
    PROVE  Step
  <1>1. CASE OperatorNext
    BY <1>1, OperatorClaimStep, OperatorSubmitStep, OperatorAckStep,
       OperatorRecoverStep DEF OperatorNext
  <1>2. CASE TimeNext
    BY <1>2, ExpireClaimStep, PassDeadlineStep, ExpireInspectionStep DEF TimeNext
  <1>3. CASE DispatchNext
    BY <1>3, CheckpointDueStep, CheckpointExhaustedStep, WorkerAttentionStep,
       FinalizeStep, CancelStep DEF DispatchNext
  <1>4. QED
    BY <1>1, <1>2, <1>3

(* Nothing moves. *)
LEMMA StutterStep == ASSUME Inv, UNCHANGED vars PROVE Step
  <1>1. harness' \in HarnessRow /\ RowsMoved
    BY WeakerSame, NoRowMoves DEF vars, Inv, Typed
  <1>2. QED
    BY <1>1, QuietMove DEF vars

(* Every step keeps the invariant, the effects and the human's claims. *)
LEMMA NextStep == ASSUME Inv, [Next]_vars PROVE Step
  BY HarnessNextStep, ChildNextStep, OtherNextStep, StutterStep DEF Next

(* The invariant holds in every reachable state.                           *)
THEOREM ControllerInvariant == Spec => []Inv
  <1>1. Init => Inv
    BY InitInv
  <1>2. Inv /\ [Next]_vars => Inv'
    BY NextStep DEF Step
  <1>3. QED
    BY <1>1, <1>2, PTL DEF Spec

----------------------------------------------------------------------------
(* What the runs check *)

(* Every row has its columns' types and passes the ledger's own validator. *)
THEOREM TypeCorrect == Spec => []TypeOK
  <1>1. Inv => TypeOK
    <2> HAVE Inv
    <2>1. \A d \in Decisions : book[d] \in BookRow /\ BookValid(book[d])
      BY BookTyped DEF Inv, RowOK
    <2>2. QED
      BY <2>1, HarnessColumns DEF Inv, Typed, TypeOK, DispatchRow
  <1>2. QED
    BY <1>1, ControllerInvariant, PTL

(* A decision's effects are applied at most once.                          *)
THEOREM OneEffect == Spec => []OneEffectPerDecision
  <1>1. Inv => OneEffectPerDecision
    BY DEF Inv, RowOK, RowFacts, OneEffectPerDecision
  <1>2. QED
    BY <1>1, ControllerInvariant, PTL

(* An effect that came from a thread is the current generation's.          *)
THEOREM EffectsAreCurrent == Spec => []EffectFromCurrentGeneration
  <1>1. Inv => EffectFromCurrentGeneration
    BY DEF Inv, RowOK, RowFacts, ThreadFacts, EffectFromCurrentGeneration
  <1>2. QED
    BY <1>1, ControllerInvariant, PTL

(* The persisted thread of a generation is read by one process, once.      *)
THEOREM ReadsAreSingle == Spec => []InspectionReadOnce
  <1>1. Inv => InspectionReadOnce
    <2> SUFFICES ASSUME Inv, NEW m \in Children, NEW n \in Children, m # n,
                        child[m].d = child[n].d, child[m].read # 0
                 PROVE  child[n].read # child[m].read
      BY DEF InspectionReadOnce
    <2>1. child[m].read \in 1..2
      BY DEF Inv, Typed, TypedChild, ChildColumns
    <2>2. Reader(child[m], child[m].read)
      BY DEF Reader
    <2>3. ~Reader(child[n], child[m].read)
      BY <2>1, <2>2 DEF Inv, ReaderFacts
    <2>4. QED
      BY <2>3 DEF Reader
  <1>2. QED
    BY <1>1, ControllerInvariant, PTL

(* When the harness is at rest, an acknowledgement that is owed has a      *)
(* process, or no process can be had for it.                               *)
THEOREM ReceiptsAreOwed == Spec => []OwedAcknowledgementHasProcess
  <1>1. Inv => OwedAcknowledgementHasProcess
    BY DEF Inv, OwedFacts, Owed, Attended, Lost, Serving,
           OwedAcknowledgementHasProcess
  <1>2. QED
    BY <1>1, ControllerInvariant, PTL

(* A committed effect is never changed and its acknowledgement never lost. *)
THEOREM EffectsAreFinal == Spec => CommittedEffectIsFinal
  <1>1. Inv /\ [Next]_vars =>
          [\A d \in Decisions : book[d].effect # "none" =>
              /\ book'[d].effect = book[d].effect
              /\ book'[d].by = book[d].by
              /\ book[d].acked => book'[d].acked]_vars
    BY NextStep DEF Step, RowAct
  <1>2. QED
    BY <1>1, ControllerInvariant, PTL DEF Spec, CommittedEffectIsFinal

(* A human's live claim is respected by everything but a profile failure.  *)
THEOREM HumansAreRespected == Spec => HumanClaimIsRespected
  <1>1. Inv /\ [Next]_vars =>
          [\A d \in Decisions :
              book[d].kind = "human" /\ book[d].lease = "live" =>
                  /\ book'[d].by = 0 /\ book'[d].gen = book[d].gen
                  /\ \/ book'[d].kind = "human"
                     \/ /\ Current(book'[d]).state = "failed"
                        /\ Current(book'[d]).thread = 0]_vars
    BY NextStep DEF Step, RowAct
  <1>2. QED
    BY <1>1, ControllerInvariant, PTL DEF Spec, HumanClaimIsRespected

=============================================================================
