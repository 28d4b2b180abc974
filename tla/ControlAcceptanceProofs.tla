---------------------- MODULE ControlAcceptanceProofs ----------------------
(***************************************************************************)
(* Proofs about ControlAcceptance, for any declared modes, any terminal    *)
(* statuses and blockers and any bounds: an accepted milestone was         *)
(* reviewed, and architecture is late.                                     *)
(*                                                                         *)
(* Neither is inductive.  What carries them is that the facts are a log    *)
(* with at most one candidate per generation, the latest of them current   *)
(* (CandidateFacts, CurrentFacts), that a row or a job is always about     *)
(* such a candidate (RowFacts, JobFacts), and that a recorded review is    *)
(* what its row says, for ever (ReviewFacts).  Steps make the log longer   *)
(* (Longer, Notes, Records) or move rows forward (RowsMove, RowsEnter);    *)
(* the lemmas about these say what each part of the invariant needs of a   *)
(* step.                                                                   *)
(***************************************************************************)
EXTENDS ControlAcceptance, SequenceTheorems, TLAPS

Kinds == {"control_result_rejected", "candidate_recorded", "candidate_superseded",
          "reviews_invalidated", "review_completed", "repair_requested",
          "promotion_accepted", "promotion_recovered", "re_review_rejected",
          "candidate_blocked"}
Says == {"none", "completed", "failed", "external_blocked", "needs_decision"} \union Verdicts
Reasons == {"none", "external", "decision", "execution"}
RowStates == {"none", "queued", "done", "attention", "lost", "inspect"}

FactRecord ==
    [kind : Kinds, sha : Nat, gen : 0 .. 2, by : Roles \union {"none", "direct", "queue"},
     says : Says, blocker : Reasons, findings : SUBSET Roles, tree : Nat \X BOOLEAN]
Row ==
    [state : RowStates, sha : Nat, findings : SUBSET Roles, says : Says, blocker : Reasons,
     child : BOOLEAN, inspected : BOOLEAN]
Job == [at : {"idle", "record", "reviews", "advance"}, d : Dispatches, sha : Nat]

(* The types, with the columns TypeOK leaves out because no property reads them. *)
Typed ==
    /\ ms \in States
    /\ facts \in Seq(FactRecord)
    /\ \A i \in DOMAIN facts : facts[i].sha <= head
    /\ retained \in 0 .. 1 /\ retained <= head /\ head \in 0 .. MaxHead /\ dirty \in BOOLEAN
    /\ capture \in [sha : Nat, bound : BOOLEAN] /\ capture.sha <= head
    /\ claims \subseteq Dispatches
    /\ rows \in [Dispatches -> Row]
    /\ \A d \in Dispatches : rows[d].state = "none" => rows[d] = NoRow
    /\ order \in Seq(Dispatches) /\ Range(order) \subseteq claims
    /\ \A d \in Dispatches : rows[d].state # "none" <=> d \in Range(order)
    /\ job \in [Procs -> Job]
    /\ scan \subseteq Dispatches /\ up \in BOOLEAN

Cand(i) == facts[i].kind = "candidate_recorded"

(* The log has one candidate per generation and commit; a second generation    *)
(* repairs a first one that had a commit.                                      *)
CandidateFacts ==
    /\ \A i, j \in DOMAIN facts :
        /\ Cand(i) /\ Cand(j)
        /\ facts[i].gen = facts[j].gen \/ (facts[i].sha # 0 /\ facts[i].sha = facts[j].sha)
        => i = j
    /\ \A i \in DOMAIN facts : Cand(i) =>
        /\ facts[i].gen # 0
        /\ facts[i].gen = 2 =>
            /\ facts[i].sha # 0
            /\ \E j \in DOMAIN facts : Cand(j) /\ facts[j].gen = 1 /\ facts[j].sha # 0

(* The fact at m is the last of log fs that names a commit. *)
LastNamed(fs, m) ==
    /\ m \in DOMAIN fs /\ fs[m].sha # 0
    /\ \A i \in DOMAIN fs : fs[i].sha # 0 => i <= m

(* The current commit is that of the latest candidate. *)
CurrentFacts ==
    \/ \A i \in DOMAIN facts : facts[i].sha = 0
    \/ \E m \in DOMAIN facts, c \in DOMAIN facts :
        /\ LastNamed(facts, m) /\ Cand(c) /\ facts[c].sha = facts[m].sha
        /\ facts[c].gen = 1 => \A i \in DOMAIN facts : Cand(i) => facts[i].gen = 1

(* Commit s was reported complete by generation g; as a repair, the capture    *)
(* bound to the result shows it to be the successor of the retained commit.    *)
Good(g, s) ==
    /\ s # 0
    /\ \E i \in DOMAIN facts :
        Cand(i) /\ facts[i].gen = g /\ facts[i].sha = s /\ facts[i].says = "completed"
    /\ g = 2 => s = retained + 1 /\ capture.sha = s /\ capture.bound

(* The generation whose candidate a dispatch works on. *)
Under(d) == IF d[1] = "executor" THEN 1 ELSE d[2]

RowFacts ==
    \A d \in Dispatches : rows[d].state # "none" =>
        /\ d # Executor(1) => Good(Under(d), rows[d].sha)
        /\ d[1] # "executor" /\ rows[d].state # "queued" => rows[d].says \in Verdicts

(* A recorded review is what its row says. *)
ReviewFacts ==
    \A i \in DOMAIN facts : facts[i].kind = "review_completed" =>
        LET d == <<facts[i].by, facts[i].gen>>
        IN  /\ facts[i].by \in Roles /\ facts[i].gen \in 1 .. 2
            /\ rows[d].state = "done" /\ rows[d].sha = facts[i].sha
            /\ rows[d].says = facts[i].says /\ facts[i].says # "stray"

PromotionFacts ==
    \A i \in DOMAIN facts : facts[i].kind = "promotion_accepted" => ms = "ACCEPTED"

(* What process p may rely on. *)
JobFact(p) ==
    LET j == job[p]
    IN  /\ p = "operator" => j.at \in {"idle", "reviews"}
        /\ j.at = "reviews" => j.d = Executor(j.d[2]) /\ Good(j.d[2], j.sha)
        /\ j.at \in {"record", "advance"} => rows[j.d].state = "done"
        /\ j.at = "advance" => j.d[1] \in Roles /\ CurrentSha = rows[j.d].sha

JobFacts ==
    /\ \A p \in Procs : JobFact(p)
    /\ \A d \in scan : rows[d].state = "done"

Review(j, r, i) ==
    /\ facts[j].kind = "review_completed" /\ facts[j].by = r
    /\ facts[j].gen = facts[i].gen /\ facts[j].sha = facts[i].sha

(* AcceptedIsReviewed, in terms of the log. *)
AcceptedFacts ==
    ms = "ACCEPTED" =>
        \E i \in DOMAIN facts :
            /\ Cand(i) /\ facts[i].blocker = "none" /\ facts[i].sha = CurrentSha
            /\ Good(facts[i].gen, facts[i].sha)
            /\ \A r \in Roles :
                /\ \E j \in DOMAIN facts : Review(j, r, i)
                /\ \A j \in DOMAIN facts : Review(j, r, i) => facts[j].says = "accept"

Inv ==
    /\ Typed /\ CandidateFacts /\ CurrentFacts /\ RowFacts /\ ReviewFacts /\ PromotionFacts
    /\ JobFacts /\ AcceptedFacts /\ ArchitectureIsLate

-----------------------------------------------------------------------------
(* What the operators on the log return. *)

(* Max of a set whose greatest element is known. *)
LEMMA MaxIs ==
    ASSUME NEW S \in SUBSET Nat, NEW m \in S, \A n \in S : n <= m
    PROVE  Max(S) = m
  <1>1. \A n \in S : m >= n
    OBVIOUS
  <1>2. \A x \in S : (\A n \in S : x >= n) => x = m
    OBVIOUS
  <1> QED
    BY <1>1, <1>2, Zenon DEF Max

(* The last commit a log names, where the place is known. *)
LatestSha(fs) ==
    LET named == {i \in DOMAIN fs : fs[i].sha # 0}
    IN  IF named = {} THEN 0 ELSE fs[Max(named)].sha

(* Where the place of the last one is known, it is that; none, and it is 0. *)
LEMMA LatestIs ==
    ASSUME NEW fs \in Seq(FactRecord)
    PROVE  /\ \A m \in DOMAIN fs : LastNamed(fs, m) => LatestSha(fs) = fs[m].sha
           /\ (\A i \in DOMAIN fs : fs[i].sha = 0) => LatestSha(fs) = 0
  <1> DEFINE named == {i \in DOMAIN fs : fs[i].sha # 0}
  <1>1. ASSUME NEW m \in DOMAIN fs, LastNamed(fs, m)
        PROVE  LatestSha(fs) = fs[m].sha
    <2>1. m \in named /\ named \in SUBSET Nat /\ \A i \in named : i <= m
      BY <1>1 DEF LastNamed
    <2>2. Max(named) = m
      BY <2>1, MaxIs
    <2> QED
      BY <2>1, <2>2 DEF LatestSha
  <1>2. ASSUME \A i \in DOMAIN fs : fs[i].sha = 0
        PROVE  LatestSha(fs) = 0
    BY <1>2 DEF LatestSha
  <1> QED
    BY <1>1, <1>2

(* That is the current commit, now and after a step. *)
LEMMA CurrentIs ==
    CurrentSha = LatestSha(facts) /\ CurrentSha' = LatestSha(facts')
  BY DEF CurrentSha, LatestSha

(* The current commit is that of a candidate, the latest. *)
LEMMA CurrentCandidate ==
    ASSUME facts \in Seq(FactRecord), CandidateFacts, CurrentFacts
    PROVE  /\ CurrentSha \in Nat
           /\ CurrentSha # 0 => \E c \in DOMAIN facts :
                /\ Cand(c) /\ facts[c].sha = CurrentSha
                /\ facts[c].gen = 1 => \A i \in DOMAIN facts : Cand(i) => facts[i].gen = 1
           /\ CurrentSha = 0 => \A i \in DOMAIN facts : facts[i].sha = 0
  <1>1. CASE \A i \in DOMAIN facts : facts[i].sha = 0
    BY <1>1, CurrentIs, LatestIs
  <1>2. CASE \E m \in DOMAIN facts, c \in DOMAIN facts :
        /\ LastNamed(facts, m) /\ Cand(c) /\ facts[c].sha = facts[m].sha
        /\ facts[c].gen = 1 => \A i \in DOMAIN facts : Cand(i) => facts[i].gen = 1
    <2>1. PICK m \in DOMAIN facts, c \in DOMAIN facts :
        /\ LastNamed(facts, m) /\ Cand(c) /\ facts[c].sha = facts[m].sha
        /\ facts[c].gen = 1 => \A i \in DOMAIN facts : Cand(i) => facts[i].gen = 1
      BY <1>2
    <2>2. CurrentSha = facts[m].sha /\ facts[m] \in FactRecord /\ facts[m].sha # 0
      BY <2>1, CurrentIs, LatestIs DEF LastNamed
    <2>3. CurrentSha \in Nat
      BY <2>2 DEF FactRecord
    <2> QED
      BY <2>1, <2>2, <2>3
  <1> QED
    BY <1>1, <1>2 DEF CurrentFacts

(* A candidate's commit has its generation and its blocker. *)
LEMMA CandidateIs ==
    ASSUME facts \in Seq(FactRecord), CandidateFacts,
           NEW c \in DOMAIN facts, Cand(c), facts[c].sha # 0
    PROVE  /\ CandidateGeneration(facts[c].sha) = facts[c].gen
           /\ CandidateBlocker(facts[c].sha) = facts[c].blocker
  <1> DEFINE s == facts[c].sha
             gens == {0} \union {f.gen : f \in {x \in Recorded("candidate_recorded") : x.sha = s}}
             of == {i \in DOMAIN facts : facts[i].kind = "candidate_recorded" /\ facts[i].sha = s}
  <1>1. \A i \in DOMAIN facts : Cand(i) /\ facts[i].sha = s => i = c
    BY DEF CandidateFacts
  <1>2. CandidateGeneration(s) = facts[c].gen
    <2>1. {x \in Recorded("candidate_recorded") : x.sha = s} = {facts[c]}
      BY <1>1 DEF Recorded, Range, Cand
    <2>2. gens = {0, facts[c].gen}
      BY <2>1
    <2>3. facts[c] \in FactRecord
      OBVIOUS
    <2>4. facts[c].gen \in Nat
      BY <2>3 DEF FactRecord
    <2>5. Max({0, facts[c].gen}) = facts[c].gen
      <3>1. /\ {0, facts[c].gen} \in SUBSET Nat /\ facts[c].gen \in {0, facts[c].gen}
            /\ \A n \in {0, facts[c].gen} : n <= facts[c].gen
        BY <2>4
      <3> HIDE DEF s, gens, of
      <3> QED
        BY <3>1, MaxIs
    <2> QED
      BY <2>2, <2>5 DEF CandidateGeneration
  <1>3. CandidateBlocker(s) = facts[c].blocker
    <2>1. of = {c}
      BY <1>1 DEF Cand
    <2>2. Max(of) = c
      BY <2>1, MaxIs
    <2> QED
      BY <2>1, <2>2 DEF CandidateBlocker
  <1> QED
    BY <1>2, <1>3

-----------------------------------------------------------------------------
(* Steps append to the log. *)

Longer ==
    /\ facts' \in Seq(FactRecord)
    /\ Len(facts) <= Len(facts')
    /\ \A i \in DOMAIN facts : facts'[i] = facts[i]

Fresh(i) == i \in DOMAIN facts' /\ i \notin DOMAIN facts

(* The step adds at most one fact, which is no candidate and names no commit but *)
(* the current one.                                                             *)
Notes ==
    /\ Longer /\ Len(facts') <= Len(facts) + 1
    /\ \A i \in DOMAIN facts' : Fresh(i) => ~Cand(i)' /\ facts'[i].sha \in {0, CurrentSha}

(* The step records a candidate of generation g and commit s, and nothing that *)
(* names another commit.                                                       *)
Records(g, s) ==
    /\ Longer
    /\ \E c \in DOMAIN facts' :
        /\ Fresh(c) /\ Cand(c)' /\ facts'[c].gen = g /\ facts'[c].sha = s
        /\ \A i \in DOMAIN facts' : Fresh(i) /\ i # c => ~Cand(i)' /\ facts'[i].sha = s
    /\ \A i \in DOMAIN facts : Cand(i) => facts[i].gen # g

(* Appending is a way to get a longer log. *)
LEMMA AppendIsLonger ==
    ASSUME facts \in Seq(FactRecord), NEW f \in FactRecord, facts' = Append(facts, f)
    PROVE  /\ Longer
           /\ \A i \in DOMAIN facts' : Fresh(i) => facts'[i] = f
           /\ Len(facts) + 1 \in DOMAIN facts' /\ Fresh(Len(facts) + 1)
  BY DEF Longer, Fresh

(* The log's old places. *)
LEMMA OldPlaces ==
    ASSUME facts \in Seq(FactRecord), Longer
    PROVE  /\ \A i \in DOMAIN facts : i \in DOMAIN facts' /\ (Cand(i)' <=> Cand(i))
           /\ \A i \in DOMAIN facts' : Fresh(i) => \A j \in DOMAIN facts : j < i
           /\ DOMAIN facts \subseteq Nat /\ DOMAIN facts' \subseteq Nat
  BY DEF Longer, Fresh, Cand

(* Notes change neither the candidates nor the current commit. *)
LEMMA NotesKeepLog ==
    ASSUME facts \in Seq(FactRecord), CandidateFacts, CurrentFacts, Notes
    PROVE  CandidateFacts' /\ CurrentFacts' /\ CurrentSha' = CurrentSha
  <1>1. Longer /\ facts' \in Seq(FactRecord)
    BY DEF Notes, Longer
  <1>2. \A i \in DOMAIN facts' : Cand(i)' => i \in DOMAIN facts /\ Cand(i) /\ facts'[i] = facts[i]
    BY <1>1, OldPlaces DEF Notes, Fresh, Longer
  <1>3. CandidateFacts'
    <2>1. \A i, j \in DOMAIN facts' :
            Cand(i)' /\ Cand(j)' /\ (facts'[i].gen = facts'[j].gen
                                     \/ (facts'[i].sha # 0 /\ facts'[i].sha = facts'[j].sha))
            => i = j
      BY <1>2 DEF CandidateFacts
    <2>2. ASSUME NEW i \in DOMAIN facts', Cand(i)'
          PROVE  /\ facts'[i].gen # 0
                 /\ facts'[i].gen = 2 =>
                      /\ facts'[i].sha # 0
                      /\ \E j \in DOMAIN facts' : Cand(j)' /\ facts'[j].gen = 1 /\ facts'[j].sha # 0
      <3>1. i \in DOMAIN facts /\ Cand(i) /\ facts'[i] = facts[i]
        BY <1>2, <2>2
      <3>2. \A j \in DOMAIN facts : j \in DOMAIN facts' /\ (Cand(j)' <=> Cand(j)) /\ facts'[j] = facts[j]
        BY <1>1, OldPlaces DEF Longer
      <3> QED
        BY <3>1, <3>2 DEF CandidateFacts
    <2> QED
      BY <2>1, <2>2 DEF CandidateFacts
  <1>4. \A i \in DOMAIN facts' : Fresh(i) => facts'[i].sha \in {0, CurrentSha}
    BY DEF Notes
  <1>5. CASE \A i \in DOMAIN facts' : facts'[i].sha = 0
    <2>1. CurrentFacts'
      BY <1>5 DEF CurrentFacts
    <2>2. CurrentSha' = 0
      BY <1>1, <1>5, CurrentIs, LatestIs
    <2>3. \A i \in DOMAIN facts : facts[i].sha = 0
      BY <1>1, <1>5, OldPlaces DEF Longer
    <2> QED
      BY <1>3, <2>1, <2>2, <2>3, CurrentIs, LatestIs
  <1>6. CASE \E i \in DOMAIN facts' : facts'[i].sha # 0
    <2>0. CurrentSha # 0
      <3>1. CASE \A i \in DOMAIN facts : facts[i].sha = 0
        <4>1. CurrentSha = 0
          BY <3>1, CurrentIs, LatestIs
        <4> QED
          BY <1>4, <1>6, <1>1, <3>1, <4>1 DEF Fresh, Longer
      <3> QED
        BY <3>1, CurrentCandidate
    <2>1. PICK m \in DOMAIN facts, c \in DOMAIN facts :
            /\ LastNamed(facts, m) /\ Cand(c) /\ facts[c].sha = facts[m].sha
            /\ facts[c].gen = 1 => \A i \in DOMAIN facts : Cand(i) => facts[i].gen = 1
      BY <2>0, CurrentIs, LatestIs DEF CurrentFacts
    <2>2. CurrentSha = facts[m].sha
      BY <2>1, CurrentIs, LatestIs
    <2>3. facts[m] \in FactRecord /\ CurrentSha # 0
      BY <2>0
    <2>4. \E l \in DOMAIN facts' : facts'[l].sha = CurrentSha /\ LastNamed(facts', l)
      <3> DEFINE n == Len(facts)
      <3>1. /\ n \in Nat /\ DOMAIN facts = 1 .. n /\ m \in 1 .. n
            /\ DOMAIN facts' = 1 .. Len(facts') /\ Len(facts') \in Nat
            /\ n <= Len(facts') /\ Len(facts') <= n + 1
        BY <1>1 DEF Notes, Longer
      <3>2. \A i \in 1 .. n : facts'[i] = facts[i]
        BY <1>1 DEF Longer
      <3>3. CASE Len(facts') = n + 1 /\ facts'[n + 1].sha # 0
        <4>1. n + 1 \in DOMAIN facts' /\ Fresh(n + 1)
          BY <3>1, <3>3 DEF Fresh
        <4>2. facts'[n + 1].sha = CurrentSha
          BY <1>4, <3>3, <4>1
        <4>3. LastNamed(facts', n + 1)
          BY <3>1, <3>3, <4>1 DEF LastNamed
        <4> QED
          BY <4>1, <4>2, <4>3
      <3>4. CASE Len(facts') = n \/ facts'[n + 1].sha = 0
        <4>1. \A i \in 1 .. Len(facts') : i \in 1 .. n \/ i = n + 1
          BY <3>1
        <4>2. \A i \in 1 .. Len(facts') : facts'[i].sha # 0 => i \in 1 .. n
          BY <3>1, <3>4, <4>1
        <4>3. /\ facts[m].sha # 0 /\ \A i \in 1 .. n : facts[i].sha # 0 => i <= m
          BY <2>1, <3>1 DEF LastNamed
        <4>4. m \in 1 .. Len(facts')
          BY <3>1
        <4>5. m \in DOMAIN facts' /\ LastNamed(facts', m)
          BY <3>1, <3>2, <4>2, <4>3, <4>4 DEF LastNamed
        <4> QED
          BY <2>2, <3>2, <3>1, <4>5
      <3>5. Len(facts') = n \/ Len(facts') = n + 1
        <4> DEFINE k == Len(facts')
        <4>1. n \in Nat /\ k \in Nat /\ n <= k /\ k <= n + 1
          BY <3>1
        <4>2. k = n \/ k = n + 1
          <5> HIDE DEF n, k
          <5> QED
            BY <4>1
        <4> QED
          BY <4>2
      <3> QED
        BY <3>3, <3>4, <3>5
    <2>5. PICK l \in DOMAIN facts' : facts'[l].sha = CurrentSha /\ LastNamed(facts', l)
      BY <2>4
    <2>6. CurrentSha' = CurrentSha
      BY <1>1, <2>5, CurrentIs, LatestIs
    <2>7. c \in DOMAIN facts' /\ Cand(c)' /\ facts'[c] = facts[c]
      BY <1>1, <2>1, OldPlaces DEF Longer
    <2>8. facts'[c].gen = 1 => \A i \in DOMAIN facts' : Cand(i)' => facts'[i].gen = 1
      BY <1>2, <2>1, <2>7
    <2>9. CurrentFacts'
      BY <2>2, <2>1, <2>5, <2>7, <2>8 DEF CurrentFacts
    <2> QED
      BY <1>3, <2>6, <2>9
  <1> QED
    BY <1>5, <1>6

(* A new candidate becomes the current one, if it names a commit. *)
LEMMA RecordKeepsLog ==
    ASSUME facts \in Seq(FactRecord), CandidateFacts, CurrentFacts,
           NEW g \in 1 .. 2, NEW s \in Nat, Records(g, s),
           g = 1 => \A i \in DOMAIN facts : ~Cand(i),
           g = 2 => /\ s # 0
                    /\ \E j \in DOMAIN facts : Cand(j) /\ facts[j].gen = 1 /\ facts[j].sha \notin {0, s}
    PROVE  CandidateFacts' /\ CurrentFacts' /\ CurrentSha' = s
  <1>1. Longer /\ facts' \in Seq(FactRecord)
    BY DEF Records, Longer
  <1>2. PICK c \in DOMAIN facts' :
        /\ Fresh(c) /\ Cand(c)' /\ facts'[c].gen = g /\ facts'[c].sha = s
        /\ \A i \in DOMAIN facts' : Fresh(i) /\ i # c => ~Cand(i)' /\ facts'[i].sha = s
    BY DEF Records
  <1>3. \A i \in DOMAIN facts' : Cand(i)' /\ i # c =>
            i \in DOMAIN facts /\ Cand(i) /\ facts'[i] = facts[i]
    BY <1>1, <1>2, OldPlaces DEF Fresh, Longer
  <1>4. \A i \in DOMAIN facts : Cand(i) => facts[i].gen # g
    BY DEF Records
  <1>5. \A i \in DOMAIN facts : i \in DOMAIN facts' /\ (Cand(i)' <=> Cand(i)) /\ facts'[i] = facts[i]
    BY <1>1, OldPlaces DEF Longer
  <1>6. \A i \in DOMAIN facts : Cand(i) => facts[i].gen = 1 /\ facts[i].sha # s
    <2>1. SUFFICES ASSUME NEW i \in DOMAIN facts, Cand(i)
                   PROVE  facts[i].gen = 1 /\ facts[i].sha # s
      OBVIOUS
    <2>2. g = 2
      BY <2>1
    <2>3. facts[i] \in FactRecord
      OBVIOUS
    <2>4. facts[i].gen \in 0 .. 2
      BY <2>3 DEF FactRecord
    <2>5. facts[i].gen = 1
      BY <2>1, <2>2, <2>4, <1>4 DEF CandidateFacts
    <2> QED
      BY <2>1, <2>2, <2>5 DEF CandidateFacts
  <1>7. CandidateFacts'
    <2>1. ASSUME NEW i \in DOMAIN facts', NEW j \in DOMAIN facts', Cand(i)', Cand(j)',
                 facts'[i].gen = facts'[j].gen \/ (facts'[i].sha # 0 /\ facts'[i].sha = facts'[j].sha)
          PROVE  i = j
      <3>1. CASE i # c /\ j # c
        BY <1>3, <2>1, <3>1 DEF CandidateFacts
      <3>2. CASE i = c \/ j = c
        BY <1>2, <1>3, <1>4, <1>6, <2>1, <3>2
      <3> QED
        BY <3>1, <3>2
    <2>2. ASSUME NEW i \in DOMAIN facts', Cand(i)'
          PROVE  /\ facts'[i].gen # 0
                 /\ facts'[i].gen = 2 =>
                      /\ facts'[i].sha # 0
                      /\ \E j \in DOMAIN facts' : Cand(j)' /\ facts'[j].gen = 1 /\ facts'[j].sha # 0
      <3>1. CASE i = c
        BY <1>2, <1>5, <3>1
      <3>2. CASE i # c
        BY <1>3, <1>6, <2>2, <3>2
      <3> QED
        BY <3>1, <3>2
    <2> QED
      BY <2>1, <2>2 DEF CandidateFacts
  <1>8. \A i \in DOMAIN facts' : Fresh(i) => facts'[i].sha = s
    BY <1>2
  <1>9. CASE s = 0
    <2>1. \A i \in DOMAIN facts : ~Cand(i)
      BY <1>9
    <2>2. \A i \in DOMAIN facts : facts[i].sha = 0
      BY <2>1 DEF CurrentFacts
    <2>3. \A i \in DOMAIN facts' : facts'[i].sha = 0
      BY <1>5, <1>8, <1>9, <2>2 DEF Fresh
    <2>4. CurrentSha' = 0
      BY <1>1, <2>3, CurrentIs, LatestIs
    <2> QED
      BY <1>7, <1>9, <2>3, <2>4 DEF CurrentFacts
  <1>10. CASE s # 0
    <2> DEFINE l == Len(facts')
    <2>1. l \in DOMAIN facts' /\ Fresh(l)
      BY <1>1, <1>2 DEF Fresh, Longer
    <2>2. facts'[l].sha = s /\ LastNamed(facts', l)
      BY <1>1, <1>8, <1>10, <2>1 DEF LastNamed
    <2>3. CurrentSha' = s
      BY <1>1, <2>1, <2>2, CurrentIs, LatestIs
    <2>4. facts'[c].gen = 1 => \A i \in DOMAIN facts' : Cand(i)' => facts'[i].gen = 1
      BY <1>2, <1>3, <1>6
    <2>5. CurrentFacts'
      BY <1>2, <2>1, <2>2, <2>4 DEF CurrentFacts
    <2> QED
      BY <1>7, <2>3, <2>5
  <1> QED
    BY <1>9, <1>10

-----------------------------------------------------------------------------
(* What survives a step. *)

CaptureKept == retained' = retained /\ (capture.bound => capture' = capture)

(* Rows stay in the queue, about the same commit; a result stays. *)
RowsMove ==
    /\ rows' \in [Dispatches -> Row]
    /\ \A d \in Dispatches :
        /\ rows'[d].state = "none" => rows'[d] = NoRow
        /\ rows[d].state # "none" => rows'[d].state # "none" /\ rows'[d].sha = rows[d].sha
        /\ rows[d].state = "done" => rows'[d].state = "done" /\ rows'[d].says = rows[d].says
        /\ rows[d].state # "none" /\ d[1] # "executor" /\ rows'[d].state # "queued" =>
            rows'[d].says \in Verdicts

(* A review the step records is what its row says. *)
ReviewRight(f) ==
    LET d == <<f.by, f.gen>>
    IN  /\ f.by \in Roles /\ f.gen \in 1 .. 2
        /\ rows[d].state = "done" /\ rows[d].sha = f.sha
        /\ rows[d].says = f.says /\ f.says # "stray"
ReviewsRight ==
    \A i \in DOMAIN facts' : Fresh(i) /\ facts'[i].kind = "review_completed" => ReviewRight(facts'[i])

(* What was good stays good. *)
LEMMA GoodKept ==
    ASSUME facts \in Seq(FactRecord), Longer, CaptureKept, NEW g, NEW s, Good(g, s)
    PROVE  Good(g, s)'
  <1>1. PICK i \in DOMAIN facts :
            Cand(i) /\ facts[i].gen = g /\ facts[i].sha = s /\ facts[i].says = "completed"
    BY DEF Good
  <1>2. i \in DOMAIN facts' /\ Cand(i)' /\ facts'[i] = facts[i]
    BY <1>1, OldPlaces DEF Longer
  <1> QED
    BY <1>1, <1>2 DEF Good, CaptureKept

(* A role and a generation name a dispatch. *)
LEMMA RoleDispatch ==
    /\ \A r \in Roles, g \in 1 .. 2 : <<r, g>> \in Dispatches /\ r # "executor"
    /\ \A g \in 1 .. 2 : Executor(g) \in Dispatches
  BY ModesAssumption DEF Roles, AllModes, Dispatches, Executor

(* Recorded reviews go on being what their rows say. *)
LEMMA ReviewsKept ==
    ASSUME facts \in Seq(FactRecord), ReviewFacts, Longer, RowsMove, ReviewsRight
    PROVE  ReviewFacts'
  <1>1. SUFFICES ASSUME NEW i \in DOMAIN facts', facts'[i].kind = "review_completed"
                 PROVE  /\ facts'[i].by \in Roles /\ facts'[i].gen \in 1 .. 2
                        /\ rows'[<<facts'[i].by, facts'[i].gen>>].state = "done"
                        /\ rows'[<<facts'[i].by, facts'[i].gen>>].sha = facts'[i].sha
                        /\ rows'[<<facts'[i].by, facts'[i].gen>>].says = facts'[i].says
                        /\ facts'[i].says # "stray"
    BY DEF ReviewFacts
  <1>2. ReviewRight(facts'[i])
    <2>1. CASE Fresh(i)
      BY <1>1, <2>1 DEF ReviewsRight
    <2>2. CASE ~Fresh(i)
      <3>1. i \in DOMAIN facts /\ facts'[i] = facts[i]
        BY <2>2 DEF Fresh, Longer
      <3> QED
        BY <1>1, <3>1 DEF ReviewFacts, ReviewRight
    <2> QED
      BY <2>1, <2>2
  <1> DEFINE d == <<facts'[i].by, facts'[i].gen>>
  <1>3. d \in Dispatches /\ rows[d].state = "done"
    BY <1>2, RoleDispatch DEF ReviewRight
  <1>4. rows'[d].state = "done" /\ rows'[d].sha = rows[d].sha /\ rows'[d].says = rows[d].says
    BY <1>3 DEF RowsMove
  <1> QED
    BY <1>2, <1>4 DEF ReviewRight

(* What a review found stays found. *)
LEMMA ReviewsGrow ==
    ASSUME facts \in Seq(FactRecord), Longer, NEW g, NEW s
    PROVE  Reviews(g, s) \subseteq Reviews(g, s)'
  <1>1. SUFFICES ASSUME NEW f \in Reviews(g, s) PROVE f \in Reviews(g, s)'
    OBVIOUS
  <1>2. PICK i \in DOMAIN facts : facts[i] = f
    BY DEF Reviews, Recorded, Range
  <1>3. i \in DOMAIN facts' /\ facts'[i] = f
    BY <1>2, OldPlaces DEF Longer
  <1>4. f \in Range(facts')
    BY <1>3 DEF Range
  <1> QED
    BY <1>4 DEF Reviews, Recorded

(* An accepted milestone learns nothing new: of its candidate only reviews are *)
(* recorded that it has.                                                       *)
LEMMA AcceptedKept ==
    ASSUME facts \in Seq(FactRecord), CandidateFacts, CurrentFacts, RowFacts, ReviewFacts,
           Notes, RowsMove, CaptureKept, ReviewsRight, AcceptedFacts, ms = "ACCEPTED"
    PROVE  AcceptedFacts'
  <1>1. PICK c \in DOMAIN facts :
            /\ Cand(c) /\ facts[c].blocker = "none" /\ facts[c].sha = CurrentSha
            /\ Good(facts[c].gen, facts[c].sha)
            /\ \A r \in Roles :
                /\ \E j \in DOMAIN facts : Review(j, r, c)
                /\ \A j \in DOMAIN facts : Review(j, r, c) => facts[j].says = "accept"
    BY DEF AcceptedFacts
  <1>2. Longer
    BY DEF Notes
  <1>3. CurrentSha' = CurrentSha
    BY NotesKeepLog
  <1>4. c \in DOMAIN facts' /\ Cand(c)' /\ facts'[c] = facts[c]
    BY <1>1, <1>2, OldPlaces DEF Longer
  <1>5. Good(facts[c].gen, facts[c].sha)'
    <2> DEFINE g == facts[c].gen
               s == facts[c].sha
    <2>1. \A x, y : Good(x, y) => Good(x, y)'
      BY <1>2, GoodKept
    <2> QED
      BY <1>1, <1>4, <2>1
  <1>6. ASSUME NEW r \in Roles
        PROVE  /\ \E j \in DOMAIN facts' : Review(j, r, c)'
               /\ \A j \in DOMAIN facts' : Review(j, r, c)' => facts'[j].says = "accept"
    <2>1. PICK k \in DOMAIN facts : Review(k, r, c) /\ facts[k].says = "accept"
      BY <1>1
    <2>2. k \in DOMAIN facts' /\ Review(k, r, c)'
      BY <1>2, <1>4, <2>1, OldPlaces DEF Longer, Review
    <2>3. rows[<<r, facts[c].gen>>].says = "accept"
      BY <2>1 DEF ReviewFacts, Review
    <2>4. ASSUME NEW j \in DOMAIN facts', Review(j, r, c)'
          PROVE  facts'[j].says = "accept"
      <3>1. CASE j \in DOMAIN facts
        <4>1. facts'[j] = facts[j]
          BY <1>2, <3>1 DEF Longer
        <4>2. Review(j, r, c)
          BY <1>4, <2>4, <4>1 DEF Review
        <4> QED
          BY <1>1, <3>1, <4>1, <4>2
      <3>2. CASE j \notin DOMAIN facts
        <4>1. ReviewRight(facts'[j])
          BY <2>4, <3>2 DEF ReviewsRight, Review, Fresh
        <4> QED
          BY <1>4, <2>3, <2>4, <4>1 DEF ReviewRight, Review
      <3> QED
        BY <3>1, <3>2
    <2> QED
      BY <2>2, <2>4
  <1> QED
    BY <1>1, <1>3, <1>4, <1>5, <1>6 DEF AcceptedFacts

(* If d is an architecture dispatch, the reviews of commit s it waits for are green. *)
Green(d, s) ==
    d[1] = "architecture" =>
        \A r \in InitialRoles \ {"architecture"} :
            \E f \in Reviews(d[2], s) : f.by = r /\ f.says = "accept"

(* A row that enters the queue is about a good commit. *)
RowsEnter ==
    \A d \in Dispatches : rows[d].state = "none" /\ rows'[d].state # "none" =>
        rows'[d].state = "queued" /\ Good(Under(d), rows[d].sha)' /\ Green(d, rows[d].sha)'

(* So what rows are about stays good. *)
LEMMA RowsKept ==
    ASSUME facts \in Seq(FactRecord), RowFacts, Longer, CaptureKept, RowsMove, RowsEnter
    PROVE  RowFacts'
  <1>1. SUFFICES ASSUME NEW d \in Dispatches, rows'[d].state # "none"
                 PROVE  /\ d # Executor(1) => Good(Under(d), rows[d].sha)'
                        /\ d[1] # "executor" /\ rows'[d].state # "queued" => rows'[d].says \in Verdicts
    BY DEF RowFacts
  <1>2. CASE rows[d].state = "none"
    BY <1>1, <1>2 DEF RowsEnter
  <1>3. CASE rows[d].state # "none"
    <2>1. rows'[d].sha = rows[d].sha
      BY <1>3 DEF RowsMove
    <2>2. \A x, y : Good(x, y) => Good(x, y)'
      BY GoodKept
    <2>3. d # Executor(1) => Good(Under(d), rows[d].sha)'
      <3> DEFINE s == rows[d].sha
      <3>1. d # Executor(1) => Good(Under(d), s)
        BY <1>3 DEF RowFacts
      <3>2. Good(Under(d), s) => Good(Under(d), rows[d].sha)'
        BY <2>1, <2>2
      <3> QED
        BY <3>1, <3>2
    <2>4. d[1] # "executor" /\ rows'[d].state # "queued" => rows'[d].says \in Verdicts
      BY <1>3 DEF RowsMove
    <2> QED
      BY <2>3, <2>4
  <1> QED
    BY <1>2, <1>3

(* And architecture stays late. *)
LEMMA LateKept ==
    ASSUME facts \in Seq(FactRecord), rows \in [Dispatches -> Row], ArchitectureIsLate,
           Longer, RowsMove, RowsEnter,
           \A d \in Dispatches : rows[d].state = "none" => rows[d] = NoRow
    PROVE  ArchitectureIsLate'
  <1>1. SUFFICES ASSUME NEW g \in 1 .. 2, NEW r \in InitialRoles \ {"architecture"},
                        <<"architecture", g>> \in Dispatches, rows'[<<"architecture", g>>] # NoRow
                 PROVE  \E f \in Reviews(g, rows[<<"architecture", g>>].sha)' : f.by = r /\ f.says = "accept"
    BY DEF ArchitectureIsLate
  <1> DEFINE d == <<"architecture", g>>
  <1>2. rows'[d].state # "none"
    BY <1>1 DEF RowsMove
  <1>3. CASE rows[d].state = "none"
    <2>1. Green(d, rows[d].sha)'
      BY <1>1, <1>2, <1>3 DEF RowsEnter
    <2> QED
      BY <2>1 DEF Green
  <1>4. CASE rows[d].state # "none"
    <2>1. rows[d] # NoRow /\ rows'[d].sha = rows[d].sha
      BY <1>1, <1>4 DEF RowsMove, NoRow
    <2>2. PICK f \in Reviews(g, rows[d].sha) : f.by = r /\ f.says = "accept"
      BY <1>1, <2>1 DEF ArchitectureIsLate
    <2>3. f \in Reviews(g, rows[d].sha)'
      <3>1. \A s : Reviews(g, s) \subseteq Reviews(g, s)'
        BY ReviewsGrow
      <3> QED
        BY <2>1, <2>2, <3>1
    <2> QED
      BY <2>2, <2>3
  <1> QED
    BY <1>3, <1>4

-----------------------------------------------------------------------------
(* What an action has to do to keep the invariant. *)

(* A process that is left alone goes on to know what it knew. *)
LEMMA JobKept ==
    ASSUME facts \in Seq(FactRecord), rows \in [Dispatches -> Row], job \in [Procs -> Job],
           Longer, CaptureKept, RowsMove,
           NEW p \in Procs, JobFact(p), job'[p] = job[p],
           CurrentSha' = CurrentSha \/ job[p].at # "advance"
    PROVE  JobFact(p)'
  <1> DEFINE j == job[p]
  <1>1. j.d \in Dispatches
    <2>1. j \in Job
      OBVIOUS
    <2> QED
      BY <2>1 DEF Job
  <1>2. j.at = "reviews" => j.d = Executor(j.d[2]) /\ Good(j.d[2], j.sha)'
    <2>1. \A x, y : Good(x, y) => Good(x, y)'
      BY GoodKept
    <2>2. j.at = "reviews" => j.d = Executor(j.d[2]) /\ Good(j.d[2], j.sha)
      BY DEF JobFact
    <2>3. Good(j.d[2], j.sha) => Good(j.d[2], j.sha)'
      <3> DEFINE x == job[p].d[2]
                 y == job[p].sha
      <3>1. Good(x, y) => Good(x, y)'
        BY <2>1
      <3> QED
        BY <3>1
    <2> QED
      BY <2>2, <2>3
  <1>3. j.at \in {"record", "advance"} => rows'[j.d].state = "done" /\ rows'[j.d].sha = rows[j.d].sha
    BY <1>1 DEF JobFact, RowsMove
  <1>4. p = "operator" => j.at \in {"idle", "reviews"}
    BY DEF JobFact
  <1>5. j.at = "advance" => j.d[1] \in Roles /\ CurrentSha' = rows'[j.d].sha
    BY <1>3 DEF JobFact
  <1> QED
    BY <1>2, <1>3, <1>4, <1>5 DEF JobFact

(* Nor does one that is done know anything. *)
LEMMA IdleJob ==
    ASSUME NEW p \in Procs, job'[p] = Idle
    PROVE  JobFact(p)'
  BY DEF JobFact, Idle

(* A step that leaves the rows alone moves them nowhere. *)
LEMMA RowsStay ==
    ASSUME rows \in [Dispatches -> Row], RowFacts, rows' = rows,
           \A d \in Dispatches : rows[d].state = "none" => rows[d] = NoRow
    PROVE  RowsMove /\ RowsEnter
  BY DEF RowsMove, RowsEnter, RowFacts

(* A step that leaves the log alone adds nothing to it. *)
LEMMA LogStays ==
    ASSUME facts \in Seq(FactRecord), facts' = facts
    PROVE  Notes /\ Longer /\ \A i \in DOMAIN facts' : ~Fresh(i)
  BY DEF Notes, Longer, Fresh

JobsRight ==
    /\ \A p \in Procs : job'[p] = job[p] \/ JobFact(p)'
    /\ \A d \in scan' : d \in scan \/ rows'[d].state = "done"

(* The parts of the invariant that only ask for a longer log. *)
LEMMA LongerKeepsInv ==
    ASSUME Inv, Typed', Longer, RowsMove, RowsEnter, CaptureKept, ReviewsRight,
           CandidateFacts', CurrentFacts', AcceptedFacts', JobFacts',
           ms = "ACCEPTED" => ms' = "ACCEPTED",
           \A i \in DOMAIN facts' :
               Fresh(i) /\ facts'[i].kind = "promotion_accepted" => ms' = "ACCEPTED"
    PROVE  Inv'
  <1>1. facts \in Seq(FactRecord)
    BY DEF Inv, Typed
  <1>2. RowFacts'
    BY <1>1, RowsKept DEF Inv
  <1>3. ReviewFacts'
    BY <1>1, ReviewsKept DEF Inv
  <1>4. PromotionFacts'
    <2>1. SUFFICES ASSUME NEW i \in DOMAIN facts', facts'[i].kind = "promotion_accepted"
                   PROVE  ms' = "ACCEPTED"
      BY DEF PromotionFacts
    <2>2. CASE Fresh(i)
      BY <2>1, <2>2
    <2>3. CASE ~Fresh(i)
      <3>1. i \in DOMAIN facts /\ facts'[i] = facts[i]
        BY <2>3 DEF Fresh, Longer
      <3> QED
        BY <2>1, <3>1 DEF Inv, PromotionFacts
    <2> QED
      BY <2>2, <2>3
  <1>5. ArchitectureIsLate'
    BY <1>1, LateKept DEF Inv, Typed
  <1> QED
    BY <1>2, <1>3, <1>4, <1>5 DEF Inv

(* What the processes know, when the current commit stays. *)
LEMMA JobsKept ==
    ASSUME Inv, Longer, CaptureKept, RowsMove, JobsRight, CurrentSha' = CurrentSha
    PROVE  JobFacts'
  <1>1. ASSUME NEW p \in Procs PROVE JobFact(p)'
    <2>1. CASE job'[p] = job[p]
      BY <2>1, JobKept DEF Inv, Typed, JobFacts
    <2>2. CASE JobFact(p)'
      BY <2>2
    <2> QED
      BY <2>1, <2>2 DEF JobsRight
  <1>2. ASSUME NEW d \in scan' PROVE rows'[d].state = "done"
    BY <1>2 DEF JobsRight, Inv, Typed, JobFacts, RowsMove
  <1> QED
    BY <1>1, <1>2 DEF JobFacts

(* A step that neither accepts the milestone nor records a candidate. *)
LEMMA NotesKeepInv ==
    ASSUME Inv, Typed', Notes, RowsMove, RowsEnter, CaptureKept, ReviewsRight, JobsRight,
           \A i \in DOMAIN facts' : Fresh(i) => facts'[i].kind # "promotion_accepted",
           ms' = "ACCEPTED" <=> ms = "ACCEPTED"
    PROVE  Inv'
  <1>1. facts \in Seq(FactRecord) /\ Longer
    BY DEF Inv, Typed, Notes
  <1>2. CandidateFacts' /\ CurrentFacts' /\ CurrentSha' = CurrentSha
    BY <1>1, NotesKeepLog DEF Inv
  <1>3. AcceptedFacts'
    <2>1. CASE ms = "ACCEPTED"
      BY <1>1, <2>1, AcceptedKept DEF Inv
    <2>2. CASE ms # "ACCEPTED"
      BY <2>2 DEF AcceptedFacts
    <2> QED
      BY <2>1, <2>2
  <1>4. JobFacts'
    BY <1>1, <1>2, JobsKept
  <1> QED
    BY <1>1, <1>2, <1>3, <1>4, LongerKeepsInv

(* A step of the queue, the checkout or a process: the log stays as it is. *)
LEMMA LogKeepsInv ==
    ASSUME Inv, Typed', facts' = facts, RowsMove, RowsEnter, CaptureKept, JobsRight,
           ms' = "ACCEPTED" <=> ms = "ACCEPTED"
    PROVE  Inv'
  <1>1. Notes /\ Longer /\ \A i \in DOMAIN facts' : ~Fresh(i)
    BY LogStays DEF Inv, Typed
  <1>2. ReviewsRight
    BY <1>1 DEF ReviewsRight
  <1> QED
    BY <1>1, <1>2, NotesKeepInv

-----------------------------------------------------------------------------
(* Steps of the queue, the checkout and the processes. *)

(* A row whose turn is over. *)
LEMMA FinishedRow ==
    ASSUME rows \in [Dispatches -> Row], NEW d \in Dispatches, NEW state \in RowStates,
           NEW answer, answer[1] \in Says, answer[2] \in Reasons
    PROVE  LET next == Finished(d, answer, state)
           IN  /\ next \in [Dispatches -> Row]
               /\ \A x \in Dispatches : x # d => next[x] = rows[x]
               /\ next[d].state = state /\ next[d].says = answer[1]
               /\ next[d].sha = rows[d].sha
  <1> DEFINE next == Finished(d, answer, state)
             here == rows[d].state = "inspect"
             w1 == [rows[d] EXCEPT !.state = state]
             w2 == [w1 EXCEPT !.says = answer[1]]
             w3 == [w2 EXCEPT !.blocker = answer[2]]
             w4 == [w3 EXCEPT !.inspected = here]
  <1>1. next = [rows EXCEPT ![d] = w4]
    BY DEF Finished
  <1>2. w1 \in Row /\ w1.state = state /\ w1.sha = rows[d].sha
    <2>1. rows[d] \in Row
      OBVIOUS
    <2> QED
      BY <2>1 DEF Row
  <1> HIDE DEF w1
  <1>3. w2 \in Row /\ w2.state = state /\ w2.says = answer[1] /\ w2.sha = rows[d].sha
    BY <1>2 DEF Row
  <1> HIDE DEF w2
  <1>4. w3 \in Row /\ w3.state = state /\ w3.says = answer[1] /\ w3.sha = rows[d].sha
    BY <1>3 DEF Row
  <1>5. here \in BOOLEAN
    OBVIOUS
  <1> HIDE DEF w3, here
  <1>6. w4 \in Row /\ w4.state = state /\ w4.says = answer[1] /\ w4.sha = rows[d].sha
    BY <1>4, <1>5 DEF Row
  <1>7. /\ next \in [Dispatches -> Row]
        /\ \A x \in Dispatches : x # d => next[x] = rows[x]
        /\ next[d].state = state /\ next[d].says = answer[1] /\ next[d].sha = rows[d].sha
    <2> HIDE DEF w4, next
    <2> QED
      BY <1>1, <1>6
  <1> QED
    BY <1>7

(* What a worker may say. *)
LEMMA AnswersAre ==
    ASSUME NEW d \in Dispatches, NEW answer \in Answers(d)
    PROVE  /\ answer[1] \in Says /\ answer[2] \in Reasons
           /\ d[1] # "executor" => answer[1] \in Verdicts
  BY AnswersAssumption DEF Answers, Says, Reasons

(* A result of row d, which was underway. *)
LEMMA FinishedMoves ==
    ASSUME rows \in [Dispatches -> Row], RowFacts, NEW d \in Dispatches,
           NEW state \in {"done", "attention", "lost"}, NEW answer,
           answer[1] \in Says, answer[2] \in Reasons, d[1] # "executor" => answer[1] \in Verdicts,
           rows[d].state \notin {"none", "done"}, rows' = Finished(d, answer, state),
           \A x \in Dispatches : rows[x].state = "none" => rows[x] = NoRow
    PROVE  /\ RowsMove /\ RowsEnter
           /\ \A x \in Dispatches : rows'[x].state # "none" <=> rows[x].state # "none"
           /\ rows'[d].state = state
  <1>1. /\ rows' \in [Dispatches -> Row]
        /\ \A x \in Dispatches : x # d => rows'[x] = rows[x]
        /\ rows'[d].state = state /\ rows'[d].says = answer[1] /\ rows'[d].sha = rows[d].sha
    <2>1. state \in RowStates
      BY DEF RowStates
    <2> QED
      BY <2>1, FinishedRow
  <1>2. RowsMove
    BY <1>1 DEF RowsMove, RowFacts
  <1>3. \A x \in Dispatches : rows'[x].state # "none" <=> rows[x].state # "none"
    BY <1>1
  <1> QED
    BY <1>1, <1>2, <1>3 DEF RowsEnter

(* A process's new job is one. *)
LEMMA JobTyped ==
    ASSUME job \in [Procs -> Job], NEW p \in Procs, NEW d \in Dispatches, NEW s \in Nat,
           NEW at \in {"idle", "record", "reviews", "advance"}
    PROVE  [job EXCEPT ![p] = [at |-> at, d |-> d, sha |-> s]] \in [Procs -> Job]
  BY DEF Job

(* The types when the milestone, its log and the queue's order stay. *)
LEMMA QueueTyped ==
    ASSUME Typed, UNCHANGED <<ms, facts, retained, claims, order>>,
           head' \in 0 .. MaxHead, head <= head', dirty' \in BOOLEAN,
           capture' \in [sha : Nat, bound : BOOLEAN], capture'.sha <= head',
           rows' \in [Dispatches -> Row],
           \A d \in Dispatches : /\ rows'[d].state = "none" => rows'[d] = NoRow
                                 /\ rows'[d].state # "none" <=> rows[d].state # "none",
           job' \in [Procs -> Job], scan' \subseteq Dispatches, up' \in BOOLEAN
    PROVE  Typed'
  <1>1. head \in Nat /\ head' \in Nat
    BY BoundsAssumption DEF Typed
  <1>2. \A i \in DOMAIN facts : facts[i].sha <= head'
    <2>1. SUFFICES ASSUME NEW i \in DOMAIN facts PROVE facts[i].sha <= head'
      OBVIOUS
    <2>2. facts[i] \in FactRecord /\ facts[i].sha <= head
      BY DEF Typed
    <2>3. facts[i].sha \in Nat
      BY <2>2 DEF FactRecord
    <2> QED
      BY <1>1, <2>2, <2>3
  <1>3. retained <= head'
    BY <1>1 DEF Typed
  <1> QED
    BY <1>2, <1>3 DEF Typed

(* A process that keeps its job, and rows that stay. *)
LEMMA CheckoutStep ==
    ASSUME Inv, UNCHANGED <<ms, facts, retained, claims, rows, order, job, scan, up>>,
           head' \in 0 .. MaxHead, head <= head', dirty' \in BOOLEAN,
           capture' \in [sha : Nat, bound : BOOLEAN], capture'.sha <= head',
           capture.bound => capture' = capture
    PROVE  Inv'
  <1>1. Typed'
    <2>1. /\ Typed /\ rows \in [Dispatches -> Row] /\ job \in [Procs -> Job]
          /\ scan \subseteq Dispatches /\ up \in BOOLEAN
          /\ \A d \in Dispatches : rows[d].state = "none" => rows[d] = NoRow
      BY DEF Inv, Typed
    <2> QED
      BY <2>1, QueueTyped
  <1>2. RowsMove /\ RowsEnter
    BY RowsStay DEF Inv, Typed
  <1> QED
    BY <1>1, <1>2, LogKeepsInv DEF CaptureKept, JobsRight

(* An executor commits in the checkout. *)
LEMMA WorkerCommitsKeeps ==
    ASSUME Inv, NEW d \in Dispatches, WorkerCommits(d)
    PROVE  Inv'
  <1>1. head \in 0 .. MaxHead /\ MaxHead \in Nat /\ head < MaxHead /\ head' = head + 1
    BY BoundsAssumption DEF Inv, Typed, WorkerCommits
  <1>2. head' \in 0 .. MaxHead /\ head <= head'
    BY <1>1
  <1>3. capture \in [sha : Nat, bound : BOOLEAN] /\ capture.sha <= head /\ dirty \in BOOLEAN
    BY DEF Inv, Typed
  <1>4. capture.sha <= head'
    BY <1>1, <1>3
  <1> QED
    BY <1>2, <1>3, <1>4, CheckoutStep DEF WorkerCommits

(* Somebody else edits the checkout or commits in it. *)
LEMMA ForeignEditKeeps ==
    ASSUME Inv, ForeignEdit
    PROVE  Inv'
  <1>1. head \in 0 .. MaxHead /\ MaxHead \in Nat
    BY BoundsAssumption DEF Inv, Typed
  <1>2. head' = head \/ (head < MaxHead /\ head' = head + 1)
    BY DEF ForeignEdit
  <1>3. head' \in 0 .. MaxHead /\ head <= head'
    BY <1>1, <1>2
  <1>4. capture \in [sha : Nat, bound : BOOLEAN] /\ capture.sha <= head /\ dirty \in BOOLEAN
    BY DEF Inv, Typed
  <1>5. capture.sha <= head'
    BY <1>1, <1>3, <1>4
  <1>6. dirty' \in BOOLEAN
    BY <1>4 DEF ForeignEdit
  <1> QED
    BY <1>3, <1>4, <1>5, <1>6, CheckoutStep DEF ForeignEdit

(* The end of the repair's turn captures the checkout. *)
LEMMA TurnCompletedKeeps ==
    ASSUME Inv, TurnCompleted
    PROVE  Inv'
  <1>1. head \in 0 .. MaxHead /\ MaxHead \in Nat /\ dirty \in BOOLEAN
    BY BoundsAssumption DEF Inv, Typed
  <1>2. capture' = [sha |-> head, bound |-> FALSE] /\ ~capture.bound
    BY DEF TurnCompleted, NoCapture
  <1>3. capture' \in [sha : Nat, bound : BOOLEAN] /\ capture'.sha = head
    BY <1>1, <1>2
  <1> QED
    BY <1>1, <1>2, <1>3, CheckoutStep DEF TurnCompleted

(* A step of the queue and of processes: rows go on, some process gets a job. *)
LEMMA QueueStep ==
    ASSUME Inv, UNCHANGED <<ms, facts, retained, head, dirty, claims, order>>,
           RowsMove, RowsEnter, \A d \in Dispatches : rows'[d].state # "none" <=> rows[d].state # "none",
           capture' \in [sha : Nat, bound : BOOLEAN], capture'.sha = capture.sha,
           capture.bound => capture' = capture,
           job' \in [Procs -> Job], \A p \in Procs : job'[p] = job[p] \/ JobFact(p)',
           \A d \in scan' : d \in scan \/ (d \in Dispatches /\ rows'[d].state = "done"), up' \in BOOLEAN
    PROVE  Inv'
  <1>1. Typed'
    <2>1. /\ Typed /\ head \in 0 .. MaxHead /\ dirty \in BOOLEAN /\ capture.sha <= head
          /\ scan \subseteq Dispatches
      BY DEF Inv, Typed
    <2>2. /\ rows' \in [Dispatches -> Row]
          /\ \A d \in Dispatches : rows'[d].state = "none" => rows'[d] = NoRow
      BY DEF RowsMove
    <2>3. scan' \subseteq Dispatches /\ head <= head /\ capture'.sha <= head
      BY <2>1
    <2> QED
      BY <2>1, <2>2, <2>3, QueueTyped
  <1> QED
    BY <1>1, LogKeepsInv DEF CaptureKept, JobsRight

(* A result is taken in, or refused. *)
LEMMA TakeInMoves ==
    ASSUME Inv, NEW d \in Dispatches, NEW answer,
           answer[1] \in Says, answer[2] \in Reasons, d[1] # "executor" => answer[1] \in Verdicts,
           rows[d].state \notin {"none", "done"}, TakeIn(d, answer)
    PROVE  /\ RowsMove /\ RowsEnter
           /\ \A x \in Dispatches : rows'[x].state # "none" <=> rows[x].state # "none"
           /\ rows'[d].state \in {"done", "attention"}
           /\ capture' \in [sha : Nat, bound : BOOLEAN] /\ capture'.sha = capture.sha
           /\ capture.bound => capture' = capture
  <1>1. PICK state \in {"done", "attention"} : rows' = Finished(d, answer, state)
    BY DEF TakeIn
  <1>2. /\ rows \in [Dispatches -> Row] /\ capture \in [sha : Nat, bound : BOOLEAN]
        /\ \A x \in Dispatches : rows[x].state = "none" => rows[x] = NoRow
        /\ RowFacts
    BY DEF Inv, Typed
  <1>3. /\ RowsMove /\ RowsEnter
        /\ \A x \in Dispatches : rows'[x].state # "none" <=> rows[x].state # "none"
        /\ rows'[d].state = state
    BY <1>1, <1>2, FinishedMoves
  <1>4. capture' = capture \/ (~capture.bound /\ capture' = [capture EXCEPT !.bound = TRUE])
    BY DEF TakeIn, PreingestionAuthority
  <1>5. /\ capture' \in [sha : Nat, bound : BOOLEAN] /\ capture'.sha = capture.sha
        /\ capture.bound => capture' = capture
    BY <1>2, <1>4
  <1> QED
    BY <1>3, <1>5

(* The harness is about to record what row d says. *)
LEMMA RecordJob ==
    ASSUME job \in [Procs -> Job], NEW d \in Dispatches, rows'[d].state = "done",
           job' = [job EXCEPT !["harness"] = [at |-> "record", d |-> d, sha |-> 0]]
    PROVE  job' \in [Procs -> Job] /\ \A p \in Procs : job'[p] = job[p] \/ JobFact(p)'
  <1>1. job' \in [Procs -> Job]
    <2>1. 0 \in Nat /\ "harness" \in Procs
      BY DEF Procs
    <2> QED
      BY <2>1, JobTyped
  <1>2. \A p \in Procs : p # "harness" => job'[p] = job[p]
    BY DEF Procs
  <1>3. job'["harness"] = [at |-> "record", d |-> d, sha |-> 0]
    BY DEF Procs
  <1>4. JobFact("harness")'
    BY <1>3 DEF JobFact
  <1> QED
    BY <1>1, <1>2, <1>4

(* A worker hands its result in. *)
LEMMA SubmitResultKeeps ==
    ASSUME Inv, NEW d \in Dispatches, SubmitResult(d)
    PROVE  Inv'
  <1>1. PICK answer \in Answers(d) : TakeIn(d, answer)
    BY DEF SubmitResult
  <1>2. rows[d].state = "queued"
    BY DEF SubmitResult
  <1>3. /\ RowsMove /\ RowsEnter
        /\ \A x \in Dispatches : rows'[x].state # "none" <=> rows[x].state # "none"
        /\ capture' \in [sha : Nat, bound : BOOLEAN] /\ capture'.sha = capture.sha
        /\ capture.bound => capture' = capture
    BY <1>1, <1>2, AnswersAre, TakeInMoves
  <1>4. job \in [Procs -> Job] /\ up \in BOOLEAN
    BY DEF Inv, Typed
  <1>5. job' \in [Procs -> Job] /\ \A p \in Procs : job'[p] = job[p] \/ JobFact(p)'
    <2>1. CASE rows'[d].state = "done"
      <3>1. job' = [job EXCEPT !["harness"] = [at |-> "record", d |-> d, sha |-> 0]]
        BY <2>1 DEF SubmitResult
      <3> QED
        BY <1>4, <2>1, <3>1, RecordJob
    <2>2. CASE rows'[d].state # "done"
      BY <1>4, <2>2 DEF SubmitResult
    <2> QED
      BY <2>1, <2>2
  <1>6. UNCHANGED <<ms, facts, retained, head, dirty, claims, order>> /\ scan' = scan /\ up' = up
    BY DEF SubmitResult
  <1> QED
    BY <1>3, <1>4, <1>5, <1>6, QueueStep

(* A worker dies with its result. *)
LEMMA WorkerDiesKeeps ==
    ASSUME Inv, NEW d \in Dispatches, WorkerDies(d)
    PROVE  Inv'
  <1>1. PICK answer \in Answers(d) : rows' = Finished(d, answer, "lost")
    BY DEF WorkerDies
  <1>2. rows[d].state = "queued"
    BY DEF WorkerDies
  <1>3. /\ rows \in [Dispatches -> Row] /\ capture \in [sha : Nat, bound : BOOLEAN]
        /\ \A x \in Dispatches : rows[x].state = "none" => rows[x] = NoRow
        /\ RowFacts /\ job \in [Procs -> Job] /\ up \in BOOLEAN
    BY DEF Inv, Typed
  <1>4. /\ RowsMove /\ RowsEnter
        /\ \A x \in Dispatches : rows'[x].state # "none" <=> rows[x].state # "none"
    BY <1>1, <1>2, <1>3, AnswersAre, FinishedMoves
  <1>5. /\ UNCHANGED <<ms, facts, retained, head, dirty, claims, order>>
        /\ scan' = scan /\ up' = up /\ job' = job /\ capture' = capture
    BY DEF WorkerDies
  <1> QED
    BY <1>3, <1>4, <1>5, QueueStep

(* The result of a dead worker is taken in from its thread. *)
LEMMA IngestRecoveredKeeps ==
    ASSUME Inv, NEW d \in Dispatches, IngestRecovered(d)
    PROVE  Inv'
  <1> DEFINE answer == <<rows[d].says, rows[d].blocker>>
  <1>1. TakeIn(d, answer) /\ rows[d].state = "inspect"
    BY DEF IngestRecovered
  <1>2. answer[1] \in Says /\ answer[2] \in Reasons /\ (d[1] # "executor" => answer[1] \in Verdicts)
    <2>1. rows[d] \in Row
      BY DEF Inv, Typed
    <2>2. d[1] # "executor" => rows[d].says \in Verdicts
      BY <1>1 DEF Inv, RowFacts
    <2> QED
      BY <2>1, <2>2 DEF Row
  <1> HIDE DEF answer
  <1>3. /\ RowsMove /\ RowsEnter
        /\ \A x \in Dispatches : rows'[x].state # "none" <=> rows[x].state # "none"
        /\ capture' \in [sha : Nat, bound : BOOLEAN] /\ capture'.sha = capture.sha
        /\ capture.bound => capture' = capture
    BY <1>1, <1>2, TakeInMoves
  <1>4. job \in [Procs -> Job] /\ up \in BOOLEAN
    BY DEF Inv, Typed
  <1>5. /\ UNCHANGED <<ms, facts, retained, head, dirty, claims, order>>
        /\ scan' = scan /\ up' = up /\ job' = job
    BY DEF IngestRecovered
  <1> QED
    BY <1>3, <1>4, <1>5, QueueStep

(* Seeing a dead worker and forgetting a child leave a row what it is about. *)
SameRow(a, b) ==
    /\ b \in Row /\ b.sha = a.sha /\ b.says = a.says
    /\ \A s \in {"none", "queued", "done"} : b.state = s <=> a.state = s

(* Either leaves the row's commit, answer and being queued or done. *)
LEMMA SeenRow ==
    ASSUME NEW row \in Row
    PROVE  /\ SameRow(row, Seen(row)) /\ SameRow(row, [row EXCEPT !.child = FALSE])
           /\ SameRow(row, Seen([row EXCEPT !.child = FALSE]))
           /\ row.state = "none" => Seen(row) = row
  <1>1. \A r \in Row : SameRow(r, Seen(r)) /\ (r.state = "none" => Seen(r) = r)
    BY DEF SameRow, Seen, Row, RowStates
  <1> DEFINE c == [row EXCEPT !.child = FALSE]
  <1>2. SameRow(row, c)
    BY DEF SameRow, Row
  <1>3. c \in Row /\ SameRow(c, Seen(c))
    BY <1>1, <1>2 DEF SameRow
  <1>4. SameRow(row, Seen(c))
    BY <1>2, <1>3 DEF SameRow
  <1> QED
    BY <1>1, <1>2, <1>4

(* A step that only does that moves rows forward and enters none. *)
LEMMA SameRowsMove ==
    ASSUME Inv, DOMAIN rows' = Dispatches, rows' = [d \in Dispatches |-> rows'[d]],
           \A d \in Dispatches : SameRow(rows[d], rows'[d]) /\ (rows[d].state = "none" => rows'[d] = rows[d])
    PROVE  /\ RowsMove /\ RowsEnter
           /\ \A d \in Dispatches : rows'[d].state # "none" <=> rows[d].state # "none"
  <1>1. /\ \A d \in Dispatches : rows[d].state = "none" => rows[d] = NoRow
        /\ RowFacts
    BY DEF Inv, Typed
  <1>2. \A d \in Dispatches : rows'[d] \in Row
    BY DEF SameRow
  <1>3. rows' \in [Dispatches -> Row]
    BY <1>2
  <1>4. \A d \in Dispatches :
            /\ rows'[d].sha = rows[d].sha /\ rows'[d].says = rows[d].says
            /\ rows'[d].state = "none" <=> rows[d].state = "none"
            /\ rows'[d].state = "queued" <=> rows[d].state = "queued"
            /\ rows'[d].state = "done" <=> rows[d].state = "done"
    BY DEF SameRow
  <1>5. RowsMove
    BY <1>1, <1>3, <1>4 DEF RowsMove, RowFacts
  <1> QED
    BY <1>4, <1>5 DEF RowsEnter

(* What recover_once is to repeat is done. *)
LEMMA ScanRight ==
    ASSUME Inv, RecoverOnce, RowsMove
    PROVE  \A d \in scan' : d \in Dispatches /\ rows'[d].state = "done"
  <1>1. Range(order) \subseteq Dispatches
    BY DEF Inv, Typed, Range
  <1> QED
    BY <1>1 DEF RecoverOnce, Repeatable, RowsMove

(* The harness reaps its children. *)
LEMMA ReapChildrenKeeps ==
    ASSUME Inv, ReapChildren
    PROVE  Inv'
  <1>1. /\ rows \in [Dispatches -> Row] /\ capture \in [sha : Nat, bound : BOOLEAN]
        /\ job \in [Procs -> Job] /\ up \in BOOLEAN
    BY DEF Inv, Typed
  <1>2. rows' = [d \in Dispatches |-> Seen(IF Exited(d) THEN [rows[d] EXCEPT !.child = FALSE] ELSE rows[d])]
    BY DEF ReapChildren
  <1>3. ASSUME NEW d \in Dispatches
        PROVE  SameRow(rows[d], rows'[d]) /\ (rows[d].state = "none" => rows'[d] = rows[d])
    <2>1. rows[d] \in Row
      BY <1>1
    <2>2. CASE Exited(d)
      <3>1. rows'[d] = Seen([rows[d] EXCEPT !.child = FALSE])
        BY <1>2, <2>2
      <3> QED
        BY <2>1, <2>2, <3>1, SeenRow DEF Exited
    <2>3. CASE ~Exited(d)
      <3>1. rows'[d] = Seen(rows[d])
        BY <1>2, <2>3
      <3> QED
        BY <2>1, <3>1, SeenRow
    <2> QED
      BY <2>2, <2>3
  <1>4. DOMAIN rows' = Dispatches /\ rows' = [d \in Dispatches |-> rows'[d]]
    BY <1>2
  <1>5. /\ RowsMove /\ RowsEnter
        /\ \A d \in Dispatches : rows'[d].state # "none" <=> rows[d].state # "none"
    BY <1>3, <1>4, SameRowsMove
  <1>6. \A d \in scan' : d \in Dispatches /\ rows'[d].state = "done"
    BY <1>5, ScanRight DEF ReapChildren
  <1>7. /\ UNCHANGED <<ms, facts, retained, head, dirty, claims, order>>
        /\ up' = up /\ job' = job /\ capture' = capture
    BY DEF ReapChildren
  <1> QED
    BY <1>1, <1>5, <1>6, <1>7, QueueStep

(* The harness starts again. *)
LEMMA RestartKeeps ==
    ASSUME Inv, Restart
    PROVE  Inv'
  <1>1. /\ rows \in [Dispatches -> Row] /\ capture \in [sha : Nat, bound : BOOLEAN]
        /\ job \in [Procs -> Job]
    BY DEF Inv, Typed
  <1>2. rows' = [d \in Dispatches |-> Seen(rows[d])]
    BY DEF Restart
  <1>3. \A d \in Dispatches :
            SameRow(rows[d], rows'[d]) /\ (rows[d].state = "none" => rows'[d] = rows[d])
    BY <1>1, <1>2, SeenRow
  <1>4. DOMAIN rows' = Dispatches /\ rows' = [d \in Dispatches |-> rows'[d]]
    BY <1>2
  <1>5. /\ RowsMove /\ RowsEnter
        /\ \A d \in Dispatches : rows'[d].state # "none" <=> rows[d].state # "none"
    BY <1>3, <1>4, SameRowsMove
  <1>6. \A d \in scan' : d \in Dispatches /\ rows'[d].state = "done"
    BY <1>5, ScanRight DEF Restart
  <1>7. /\ UNCHANGED <<ms, facts, retained, head, dirty, claims, order>>
        /\ up' \in BOOLEAN /\ job' = job /\ capture' = capture
    BY DEF Restart
  <1> QED
    BY <1>1, <1>5, <1>6, <1>7, QueueStep

(* A process that dies forgets its job. *)
LEMMA ForgetJob ==
    ASSUME job \in [Procs -> Job], NEW p \in Procs, Done(p)
    PROVE  job' \in [Procs -> Job] /\ \A q \in Procs : job'[q] = job[q] \/ JobFact(q)'
  <1>1. Idle \in Job
    BY RoleDispatch DEF Idle, Job
  <1>2. job' = [job EXCEPT ![p] = Idle]
    BY DEF Done
  <1>3. JobFact(p)'
    BY <1>2, IdleJob
  <1> HIDE DEF Idle
  <1> QED
    BY <1>1, <1>2, <1>3

(* The harness dies. *)
LEMMA HarnessCrashKeeps ==
    ASSUME Inv, HarnessCrash
    PROVE  Inv'
  <1>1. /\ rows \in [Dispatches -> Row] /\ capture \in [sha : Nat, bound : BOOLEAN]
        /\ job \in [Procs -> Job]
    BY DEF Inv, Typed
  <1>2. rows' = [d \in Dispatches |-> IF rows[d].state = "none" THEN rows[d]
                                      ELSE [rows[d] EXCEPT !.child = FALSE]]
    BY DEF HarnessCrash
  <1>3. ASSUME NEW d \in Dispatches
        PROVE  SameRow(rows[d], rows'[d]) /\ (rows[d].state = "none" => rows'[d] = rows[d])
    <2>1. rows[d] \in Row
      BY <1>1
    <2>2. CASE rows[d].state = "none"
      <3>1. rows'[d] = rows[d]
        BY <1>2, <2>2
      <3> QED
        BY <2>1, <3>1 DEF SameRow
    <2>3. CASE rows[d].state # "none"
      <3>1. rows'[d] = [rows[d] EXCEPT !.child = FALSE]
        BY <1>2, <2>3
      <3> QED
        BY <2>1, <2>3, <3>1, SeenRow
    <2> QED
      BY <2>2, <2>3
  <1>4. DOMAIN rows' = Dispatches /\ rows' = [d \in Dispatches |-> rows'[d]]
    BY <1>2
  <1>5. /\ RowsMove /\ RowsEnter
        /\ \A d \in Dispatches : rows'[d].state # "none" <=> rows[d].state # "none"
    BY <1>3, <1>4, SameRowsMove
  <1>6. job' \in [Procs -> Job] /\ \A q \in Procs : job'[q] = job[q] \/ JobFact(q)'
    BY <1>1, ForgetJob DEF HarnessCrash, Procs
  <1>7. /\ UNCHANGED <<ms, facts, retained, head, dirty, claims, order>>
        /\ up' \in BOOLEAN /\ scan' = {} /\ capture' = capture
    BY DEF HarnessCrash
  <1> QED
    BY <1>1, <1>5, <1>6, <1>7, QueueStep

(* A step that moves no row. *)
LEMMA JobStep ==
    ASSUME Inv, UNCHANGED <<ms, facts, retained, head, dirty, capture, claims, rows, order, up>>,
           job' \in [Procs -> Job], \A p \in Procs : job'[p] = job[p] \/ JobFact(p)',
           scan' \subseteq scan
    PROVE  Inv'
  <1>1. /\ rows \in [Dispatches -> Row] /\ capture \in [sha : Nat, bound : BOOLEAN]
        /\ \A d \in Dispatches : rows[d].state = "none" => rows[d] = NoRow
        /\ up \in BOOLEAN /\ RowFacts
    BY DEF Inv, Typed
  <1>2. RowsMove /\ RowsEnter
    BY <1>1, RowsStay
  <1> QED
    BY <1>1, <1>2, QueueStep

(* The operator's process dies. *)
LEMMA OperatorCrashKeeps ==
    ASSUME Inv, OperatorCrash
    PROVE  Inv'
  <1>1. job \in [Procs -> Job]
    BY DEF Inv, Typed
  <1>2. job' \in [Procs -> Job] /\ \A q \in Procs : job'[q] = job[q] \/ JobFact(q)'
    BY <1>1, ForgetJob DEF OperatorCrash, Procs
  <1> QED
    BY <1>2, JobStep DEF OperatorCrash

(* The harness repeats the next recorded row. *)
LEMMA RepeatKeeps ==
    ASSUME Inv, NEW d \in Dispatches, Repeat(d)
    PROVE  Inv'
  <1>1. job \in [Procs -> Job] /\ rows[d].state = "done" /\ rows' = rows
    BY DEF Inv, Typed, JobFacts, Repeat
  <1>2. job' \in [Procs -> Job] /\ \A q \in Procs : job'[q] = job[q] \/ JobFact(q)'
    BY <1>1, RecordJob DEF Repeat
  <1> QED
    BY <1>2, JobStep DEF Repeat

-----------------------------------------------------------------------------
(* Steps of the log. *)

(* The records the actions write. *)
LEMMA FactTyped ==
    ASSUME NEW kind \in Kinds, NEW s \in Nat, NEW g \in 0 .. 2,
           NEW by \in Roles \union {"none", "direct", "queue"}, NEW says \in Says
    PROVE  /\ Fact(kind, s, g, by, says) \in FactRecord
           /\ Fact(kind, s, g, by, says).kind = kind /\ Fact(kind, s, g, by, says).sha = s
           /\ Fact(kind, s, g, by, says).gen = g /\ Fact(kind, s, g, by, says).by = by
           /\ Fact(kind, s, g, by, says).says = says
  BY DEF Fact, FactRecord, NoTree, Reasons

(* A fact that says nothing more than its kind, commit and generation. *)
LEMMA PlainTyped ==
    ASSUME NEW kind \in Kinds, NEW s \in Nat, NEW g \in 0 .. 2
    PROVE  /\ Plain(kind, s, g) \in FactRecord
           /\ Plain(kind, s, g).kind = kind /\ Plain(kind, s, g).sha = s /\ Plain(kind, s, g).gen = g
  BY FactTyped DEF Plain, Says

(* The fact of a candidate. *)
LEMMA CandidateTyped ==
    ASSUME Typed, NEW s \in Nat, NEW g \in 0 .. 2, NEW by \in {"direct", "queue"},
           NEW says \in Says, NEW blocker \in Reasons
    PROVE  LET f == CandidateFact(g, s, by, says, blocker)
           IN  /\ f \in FactRecord /\ f.kind = "candidate_recorded" /\ f.sha = s /\ f.gen = g
               /\ f.says = says /\ f.blocker = blocker
  <1> DEFINE w1 == Fact("candidate_recorded", s, g, by, says)
             w2 == [w1 EXCEPT !.blocker = blocker]
             w3 == [w2 EXCEPT !.tree = <<head, dirty>>]
  <1>1. "candidate_recorded" \in Kinds
    BY DEF Kinds
  <1>2. w1 \in FactRecord /\ w1.kind = "candidate_recorded" /\ w1.sha = s /\ w1.gen = g /\ w1.says = says
    BY <1>1, FactTyped
  <1> HIDE DEF w1
  <1>3. /\ w2 \in FactRecord /\ w2.kind = "candidate_recorded" /\ w2.sha = s /\ w2.gen = g
        /\ w2.says = says /\ w2.blocker = blocker
    BY <1>2 DEF FactRecord
  <1> HIDE DEF w2
  <1>4. <<head, dirty>> \in Nat \X BOOLEAN
    BY BoundsAssumption DEF Typed
  <1>5. /\ w3 \in FactRecord /\ w3.kind = "candidate_recorded" /\ w3.sha = s /\ w3.gen = g
        /\ w3.says = says /\ w3.blocker = blocker
    BY <1>3, <1>4 DEF FactRecord
  <1>6. CandidateFact(g, s, by, says, blocker) = w3
    BY DEF CandidateFact, w1, w2
  <1> HIDE DEF w3
  <1> QED
    BY <1>5, <1>6

(* The current commit is one of the checkout. *)
LEMMA CurrentTyped ==
    ASSUME Inv
    PROVE  CurrentSha \in Nat /\ CurrentSha <= head
  <1>1. facts \in Seq(FactRecord) /\ head \in Nat /\ \A i \in DOMAIN facts : facts[i].sha <= head
    BY BoundsAssumption DEF Inv, Typed
  <1>2. CurrentSha \in Nat /\ (CurrentSha # 0 => \E c \in DOMAIN facts : facts[c].sha = CurrentSha)
    BY <1>1, CurrentCandidate DEF Inv
  <1> QED
    BY <1>1, <1>2

(* A fact that may be added to the log without a second thought. *)
Harmless(f) ==
    /\ f \in FactRecord /\ f.kind \notin {"candidate_recorded", "promotion_accepted"}
    /\ f.sha \in {0, CurrentSha}
    /\ f.kind = "review_completed" => ReviewRight(f)

(* At most one such fact is added and the milestone is not accepted by it. *)
LEMMA LogStep ==
    ASSUME Inv, UNCHANGED <<retained, head, dirty, capture, claims, rows, order, scan, up>>,
           ms' \in States, ms' = "ACCEPTED" <=> ms = "ACCEPTED",
           facts' = facts \/ \E f \in FactRecord : Harmless(f) /\ facts' = Append(facts, f),
           job' \in [Procs -> Job], \A p \in Procs : job'[p] = job[p] \/ JobFact(p)'
    PROVE  Inv'
  <1>1. /\ facts \in Seq(FactRecord) /\ rows \in [Dispatches -> Row] /\ RowFacts
        /\ \A d \in Dispatches : rows[d].state = "none" => rows[d] = NoRow
        /\ \A i \in DOMAIN facts : facts[i].sha <= head
    BY DEF Inv, Typed
  <1>2. RowsMove /\ RowsEnter /\ CaptureKept /\ JobsRight
    BY <1>1, RowsStay DEF CaptureKept, JobsRight
  <1>3. CASE facts' = facts
    <2>1. Typed'
      BY <1>3 DEF Inv, Typed
    <2> QED
      BY <1>2, <1>3, <2>1, LogKeepsInv
  <1>4. CASE \E f \in FactRecord : Harmless(f) /\ facts' = Append(facts, f)
    <2>1. PICK f \in FactRecord : Harmless(f) /\ facts' = Append(facts, f)
      BY <1>4
    <2>2. Longer /\ \A i \in DOMAIN facts' : Fresh(i) => facts'[i] = f
      BY <1>1, <2>1, AppendIsLonger
    <2>3. Len(facts') = Len(facts) + 1 /\ Len(facts) \in Nat
      BY <1>1, <2>1
    <2>4. Notes
      BY <2>1, <2>2, <2>3 DEF Notes, Harmless, Cand
    <2>5. ReviewsRight
      BY <2>1, <2>2 DEF ReviewsRight, Harmless
    <2>6. \A i \in DOMAIN facts' : Fresh(i) => facts'[i].kind # "promotion_accepted"
      BY <2>1, <2>2 DEF Harmless
    <2>7. Typed'
      <3>1. f.sha <= head
        BY <2>1, CurrentTyped, BoundsAssumption DEF Harmless, Inv, Typed
      <3>2. \A i \in DOMAIN facts' : facts'[i].sha <= head
        BY <1>1, <2>2, <3>1 DEF Fresh, Longer
      <3>3. facts' \in Seq(FactRecord)
        BY <2>2 DEF Longer
      <3> QED
        BY <3>2, <3>3 DEF Inv, Typed
    <2> QED
      BY <1>2, <2>4, <2>5, <2>6, <2>7, NotesKeepInv
  <1> QED
    BY <1>3, <1>4

(* A result that cannot be processed. *)
LEMMA IssueKeeps ==
    ASSUME Inv, NEW p \in Procs, ControlResultIssue(p),
           UNCHANGED <<retained, head, dirty, capture, claims, rows, order, scan, up>>
    PROVE  Inv'
  <1>1. job \in [Procs -> Job] /\ ms \in States
    BY DEF Inv, Typed
  <1>2. job' \in [Procs -> Job] /\ \A q \in Procs : job'[q] = job[q] \/ JobFact(q)'
    BY <1>1, ForgetJob DEF ControlResultIssue
  <1> DEFINE f == Plain("control_result_rejected", 0, 0)
  <1>3. f \in FactRecord /\ Harmless(f)
    <2>1. "control_result_rejected" \in Kinds
      BY DEF Kinds
    <2>2. f \in FactRecord /\ f.kind = "control_result_rejected" /\ f.sha = 0
      BY <2>1, PlainTyped
    <2> QED
      BY <2>2 DEF Harmless
  <1>4. (ms' = ms /\ facts' = facts) \/ (ms \notin Closed /\ ms' = "BLOCKED" /\ facts' = Append(facts, f))
    BY DEF ControlResultIssue, Transition
  <1> HIDE DEF f
  <1>5. ms' \in States /\ (ms' = "ACCEPTED" <=> ms = "ACCEPTED")
    BY <1>1, <1>4 DEF States, Closed
  <1> QED
    BY <1>2, <1>3, <1>4, <1>5, LogStep

(* A process that is done. *)
LEMMA DoneKeeps ==
    ASSUME Inv, NEW p \in Procs, Done(p),
           UNCHANGED <<ms, facts, retained, head, dirty, capture, claims, rows, order, scan, up>>
    PROVE  Inv'
  <1>1. job \in [Procs -> Job]
    BY DEF Inv, Typed
  <1>2. job' \in [Procs -> Job] /\ \A q \in Procs : job'[q] = job[q] \/ JobFact(q)'
    BY <1>1, ForgetJob
  <1> QED
    BY <1>2, JobStep

(* A row enters the queue. *)
LEMMA InsertRowKeeps ==
    ASSUME Inv, NEW d \in Dispatches, d # Executor(1), rows[d] = NoRow, d \in claims,
           NEW s, NEW findings \in SUBSET Roles, Good(Under(d), s), Green(d, s), InsertRow(d, s, findings),
           UNCHANGED <<ms, facts, retained, head, dirty, capture, claims, job, scan, up>>
    PROVE  Inv'
  <1>1. /\ facts \in Seq(FactRecord) /\ rows \in [Dispatches -> Row] /\ RowFacts
        /\ \A x \in Dispatches : rows[x].state = "none" => rows[x] = NoRow
        /\ order \in Seq(Dispatches)
    BY DEF Inv, Typed
  <1>2. Longer /\ Notes
    BY <1>1, LogStays
  <1>3. CaptureKept
    BY DEF CaptureKept
  <1>4. s \in Nat
    <2>1. PICK i \in DOMAIN facts : facts[i].sha = s
      BY DEF Good
    <2>2. facts[i] \in FactRecord
      BY <1>1
    <2> QED
      BY <2>1, <2>2 DEF FactRecord
  <1> DEFINE row == [NoRow EXCEPT !.state = "queued", !.sha = s, !.findings = findings, !.child = TRUE]
  <1>5. row \in Row /\ row.state = "queued" /\ row.sha = s
    BY <1>4 DEF NoRow, Row, RowStates, Says, Reasons
  <1>6. rows' = [rows EXCEPT ![d] = row] /\ order' = Append(order, d)
    BY DEF InsertRow
  <1> HIDE DEF row
  <1>7. /\ rows' \in [Dispatches -> Row] /\ rows'[d] = row
        /\ \A x \in Dispatches : x # d => rows'[x] = rows[x]
    BY <1>1, <1>5, <1>6
  <1>8. rows[d].state = "none"
    BY DEF NoRow
  <1>9. RowsMove
    BY <1>1, <1>5, <1>7, <1>8 DEF RowsMove, RowFacts
  <1>10. RowsEnter
    <2>1. SUFFICES ASSUME NEW x \in Dispatches, rows[x].state = "none", rows'[x].state # "none"
                   PROVE  /\ rows'[x].state = "queued" /\ Good(Under(x), rows[x].sha)'
                          /\ Green(x, rows[x].sha)'
      BY DEF RowsEnter
    <2>2. x = d /\ rows'[x].state = "queued" /\ rows'[x].sha = s
      BY <1>5, <1>7, <2>1
    <2>3. \A y, z : Good(y, z) => Good(y, z)'
      BY <1>1, <1>2, <1>3, GoodKept
    <2>4. Good(Under(x), rows[x].sha)'
      BY <2>2, <2>3
    <2>5. Green(x, rows[x].sha)'
      <3>1. \A y, z : Reviews(y, z) \subseteq Reviews(y, z)'
        BY <1>1, <1>2, ReviewsGrow
      <3> QED
        BY <2>2, <3>1 DEF Green
    <2> QED
      BY <2>2, <2>4, <2>5
  <1>11. Typed'
    <2>1. order' \in Seq(Dispatches) /\ Range(order') = Range(order) \union {d}
      <3> DEFINE n == Len(order)
      <3>1. /\ order' \in Seq(Dispatches) /\ n \in Nat
            /\ DOMAIN order = 1 .. n /\ DOMAIN order' = 1 .. (n + 1)
            /\ order'[n + 1] = d /\ \A i \in 1 .. n : order'[i] = order[i]
        BY <1>1, <1>6
      <3> HIDE DEF n
      <3>2. \A i \in 1 .. (n + 1) : i \in 1 .. n \/ i = n + 1
        BY <3>1
      <3>3. n + 1 \in 1 .. (n + 1) /\ 1 .. n \subseteq 1 .. (n + 1)
        BY <3>1
      <3>4. \A x : x \in Range(order') <=> x \in Range(order) \union {d}
        BY <3>1, <3>2, <3>3 DEF Range
      <3> QED
        BY <3>1, <3>4
    <2>2. Range(order') \subseteq claims'
      BY <2>1 DEF Inv, Typed
    <2>3. \A x \in Dispatches : rows'[x].state # "none" <=> x \in Range(order')
      BY <1>5, <1>7, <2>1 DEF Inv, Typed
    <2>4. \A x \in Dispatches : rows'[x].state = "none" => rows'[x] = NoRow
      BY <1>9 DEF RowsMove
    <2> QED
      BY <1>7, <2>1, <2>2, <2>3, <2>4 DEF Inv, Typed
  <1> QED
    BY <1>3, <1>9, <1>10, <1>11, LogKeepsInv DEF JobsRight

(* One of the transactions of an enqueueing. *)
LEMMA EnqueueKeeps ==
    ASSUME Inv, NEW p \in Procs, NEW d \in Dispatches, d # Executor(1),
           NEW s, NEW findings \in SUBSET Roles, Good(Under(d), s), Green(d, s),
           Enqueue(p, d, s, findings), UNCHANGED <<retained, head, dirty, capture, scan, up>>
    PROVE  Inv'
  <1>1. CASE d \in claims /\ InsertRow(d, s, findings) /\ UNCHANGED <<ms, facts, claims, job>>
    BY <1>1, InsertRowKeeps DEF Enqueue
  <1>2. CASE d \notin claims /\ ClaimAllowed(d) /\ Claim(d) /\ UNCHANGED <<facts, rows, order, job>>
    <2>1. /\ rows \in [Dispatches -> Row] /\ RowFacts /\ Typed
          /\ \A x \in Dispatches : rows[x].state = "none" => rows[x] = NoRow
      BY DEF Inv, Typed
    <2>2. RowsMove /\ RowsEnter
      BY <1>2, <2>1, RowsStay
    <2>3. (ms' = ms \/ (ms = "REPAIR_REQUIRED" /\ ms' = "STARTING")) /\ claims' = claims \union {d}
      BY <1>2 DEF ClaimAllowed, Claim
    <2>4. ms' \in States /\ (ms' = "ACCEPTED" <=> ms = "ACCEPTED")
      BY <2>1, <2>3 DEF Typed, States
    <2>5. Typed'
      BY <1>2, <2>1, <2>3, <2>4 DEF Typed
    <2> QED
      BY <1>2, <2>2, <2>4, <2>5, LogKeepsInv DEF CaptureKept, JobsRight
  <1>3. CASE ControlResultIssue(p) /\ UNCHANGED <<claims, rows, order>>
    BY <1>3, IssueKeeps
  <1> QED
    BY <1>1, <1>2, <1>3 DEF Enqueue

(* The first reviews of a candidate are enqueued, one transaction at a time. *)
LEMMA QueueControlReviewsKeeps ==
    ASSUME Inv, NEW p \in Procs, QueueControlReviews(p)
    PROVE  Inv'
  <1> DEFINE g == job[p].d[2]
             s == job[p].sha
             open == {r \in InitialRoles : rows[<<r, g>>] = NoRow}
  <1>1. job[p].at = "reviews" /\ UNCHANGED <<retained, head, dirty, capture, scan, up>>
    BY DEF QueueControlReviews
  <1>2. Good(g, s) /\ g \in 1 .. 2
    <2>1. job[p] \in Job
      BY DEF Inv, Typed
    <2>2. job[p].d \in Dispatches
      BY <2>1 DEF Job
    <2> QED
      BY <1>1, <2>2 DEF Inv, JobFacts, JobFact, Dispatches
  <1>3. CASE ControlResultIssue(p) /\ UNCHANGED <<claims, rows, order>>
    BY <1>1, <1>3, IssueKeeps
  <1>4. CASE Done(p) /\ UNCHANGED <<ms, facts, claims, rows, order>>
    BY <1>1, <1>4, DoneKeeps
  <1>5. CASE \E r \in open : Enqueue(p, <<r, g>>, s, {})
    <2>1. PICK r \in InitialRoles : Enqueue(p, <<r, g>>, s, {})
      BY <1>5
    <2> DEFINE d == <<r, g>>
    <2>2. r \in Roles
      BY DEF InitialRoles, Roles
    <2>3. d \in Dispatches /\ d # Executor(1) /\ Under(d) = g
      BY <1>2, <2>2, RoleDispatch DEF Executor, Under
    <2>4. Green(d, s)
      BY DEF Green, InitialRoles
    <2>5. {} \in SUBSET Roles
      OBVIOUS
    <2> HIDE DEF d
    <2> QED
      BY <1>1, <1>2, <2>1, <2>3, <2>4, <2>5, EnqueueKeeps DEF d
  <1> QED
    BY <1>3, <1>4, <1>5, Zenon DEF QueueControlReviews

(* A review is recorded. *)
LEMMA RecordReviewKeeps ==
    ASSUME Inv, NEW d \in Dispatches, RecordReview(d)
    PROVE  Inv'
  <1>1. /\ job["harness"].at = "record" /\ job["harness"].d = d /\ d[1] # "executor"
        /\ UNCHANGED <<claims, rows, scan, up, capture, budget, retained, head, dirty, order>>
    BY DEF RecordReview, durable
  <1>2. /\ "harness" \in Procs /\ "operator" \in Procs /\ rows[d].state = "done"
        /\ job \in [Procs -> Job] /\ ms \in States /\ facts \in Seq(FactRecord)
    BY <1>1 DEF Procs, Inv, Typed, JobFacts, JobFact
  <1>3. CASE ReviewConflicts(d)
    BY <1>1, <1>2, <1>3, IssueKeeps DEF RecordReview
  <1>4. CASE ~ReviewConflicts(d)
    <2> DEFINE f == Fact("review_completed", rows[d].sha, d[2], d[1], rows[d].says)
    <2>1. CurrentSha = rows[d].sha /\ rows[d].says # "stray"
      BY <1>4 DEF ReviewConflicts
    <2>2. d[1] \in Roles /\ d[2] \in 1 .. 2 /\ d = <<d[1], d[2]>>
      BY <1>1 DEF Dispatches
    <2>3. rows[d].sha \in Nat /\ rows[d].says \in Says
      <3>1. rows[d] \in Row
        BY DEF Inv, Typed
      <3> QED
        BY <3>1 DEF Row
    <2>4. f \in FactRecord /\ Harmless(f)
      <3>1. "review_completed" \in Kinds
        BY DEF Kinds
      <3>2. /\ f \in FactRecord /\ f.kind = "review_completed" /\ f.sha = rows[d].sha
            /\ f.gen = d[2] /\ f.by = d[1] /\ f.says = rows[d].says
        BY <2>2, <2>3, <3>1, FactTyped
      <3> HIDE DEF f
      <3>3. ReviewRight(f)
        BY <1>2, <2>1, <2>2, <3>2 DEF ReviewRight
      <3> QED
        BY <2>1, <3>2, <3>3 DEF Harmless
    <2>5. (facts' = facts \/ facts' = Append(facts, f)) /\ ms' = ms /\ Continue("harness", "advance")
      BY <1>4 DEF RecordReview
    <2> HIDE DEF f
    <2> DEFINE j == [job["harness"] EXCEPT !.at = "advance"]
    <2>6. j \in Job /\ j.at = "advance" /\ j.d = d
      <3>1. job["harness"] \in Job
        BY <1>2
      <3> QED
        BY <1>1, <3>1 DEF Job
    <2>7. job' = [job EXCEPT !["harness"] = j]
      BY <2>5 DEF Continue
    <2> HIDE DEF j
    <2>8. job' \in [Procs -> Job] /\ job'["harness"] = j /\ \A p \in Procs : p # "harness" => job'[p] = job[p]
      BY <1>2, <2>6, <2>7
    <2>9. CurrentSha' = CurrentSha
      <3>1. Notes
        <4>1. CASE facts' = facts
          BY <1>2, <4>1, LogStays
        <4>2. CASE facts' = Append(facts, f)
          <5>1. Longer /\ \A i \in DOMAIN facts' : Fresh(i) => facts'[i] = f
            BY <1>2, <2>4, <4>2, AppendIsLonger
          <5>2. Len(facts') = Len(facts) + 1 /\ Len(facts) \in Nat
            BY <1>2, <4>2
          <5> QED
            BY <2>4, <5>1, <5>2 DEF Notes, Harmless, Cand
        <4> QED
          BY <2>5, <4>1, <4>2
      <3> QED
        BY <1>2, <3>1, NotesKeepLog DEF Inv
    <2>10. JobFact("harness")'
      BY <1>1, <1>2, <2>1, <2>2, <2>6, <2>8, <2>9 DEF JobFact
    <2> QED
      BY <1>1, <1>2, <2>4, <2>5, <2>8, <2>10, LogStep
  <1> QED
    BY <1>3, <1>4


-----------------------------------------------------------------------------
(* The results of executors. *)

(* The facts that supersede an earlier candidate. *)
Superseding(s) == <<Plain("candidate_superseded", s, 2), Plain("reviews_invalidated", s, 2)>>

(* A new candidate f and what supersedes the one it repairs are appended. *)
Recording(f, g, s) ==
    /\ Records(g, s)
    /\ \E c \in DOMAIN facts' : Fresh(c) /\ facts'[c] = f
    /\ \A i \in DOMAIN facts' : Fresh(i) =>
        /\ facts'[i].sha = s
        /\ facts'[i].kind \in {"candidate_recorded", "candidate_superseded", "reviews_invalidated"}

(* What the recording of a new candidate appends: the candidate, and what *)
(* supersedes the one it repairs.                                          *)
LEMMA RecordedLog ==
    ASSUME facts \in Seq(FactRecord), NEW f \in FactRecord, f.kind = "candidate_recorded",
           NEW g \in 1 .. 2, NEW s \in Nat, f.gen = g, f.sha = s, NEW extra,
           extra = <<>> \/ extra = Superseding(s),
           facts' = facts \o <<f>> \o extra,
           \A i \in DOMAIN facts : Cand(i) => facts[i].gen # g
    PROVE  Recording(f, g, s)
  <1> DEFINE a == Plain("candidate_superseded", s, 2)
             b == Plain("reviews_invalidated", s, 2)
             n == Len(facts)
             one == Append(facts, f)
             two == Append(one, a)
  <1>1. /\ a \in FactRecord /\ a.kind = "candidate_superseded" /\ a.sha = s
        /\ b \in FactRecord /\ b.kind = "reviews_invalidated" /\ b.sha = s
    BY PlainTyped DEF Kinds
  <1> HIDE DEF a, b
  <1>2. /\ one \in Seq(FactRecord) /\ n \in Nat /\ Len(one) = n + 1 /\ one[n + 1] = f
        /\ \A i \in 1 .. n : one[i] = facts[i]
    OBVIOUS
  <1>3. extra = <<>> \/ extra = <<a, b>>
    BY DEF a, b, Superseding
  <1>4. facts' = one \o extra
    BY AppendIsConcat
  <1>5. CASE extra = <<>>
    <2>1. facts' = one
      BY <1>2, <1>4, <1>5, ConcatEmptySeq
    <2>2. Longer /\ \A i \in DOMAIN facts' : Fresh(i) => facts'[i] = f
      BY <2>1, AppendIsLonger
    <2>3. n + 1 \in DOMAIN facts' /\ Fresh(n + 1) /\ facts'[n + 1] = f
      BY <2>1, AppendIsLonger
    <2>4. \A i \in DOMAIN facts' : Fresh(i) => i = n + 1
      BY <1>2, <2>1 DEF Fresh
    <2> HIDE DEF n, one, two
    <2>5. Records(g, s)
      BY <2>2, <2>3, <2>4 DEF Records, Cand
    <2> QED
      BY <2>2, <2>3, <2>5 DEF Recording
  <1>6. CASE extra = <<a, b>>
    <2>1. /\ facts' \in Seq(FactRecord) /\ Len(facts') = n + 3
          /\ facts'[n + 1] = f /\ facts'[n + 2] = a /\ facts'[n + 3] = b
          /\ \A i \in 1 .. n : facts'[i] = facts[i]
      <3> HIDE DEF one, n, two
      <3>1. extra \in Seq(FactRecord) /\ Len(extra) = 2 /\ extra[1] = a /\ extra[2] = b
        BY <1>1, <1>6
      <3>2. /\ facts' \in Seq(FactRecord) /\ Len(facts') = Len(one) + Len(extra)
            /\ \A i \in 1 .. Len(one) + Len(extra) :
                  facts'[i] = IF i <= Len(one) THEN one[i] ELSE extra[i - Len(one)]
        <4> DEFINE long == one \o extra
        <4>1. one \in Seq(FactRecord) /\ extra \in Seq(FactRecord)
          BY <1>2, <3>1
        <4>2. /\ long \in Seq(FactRecord) /\ Len(long) = Len(one) + Len(extra)
              /\ \A i \in 1 .. Len(one) + Len(extra) :
                    long[i] = IF i <= Len(one) THEN one[i] ELSE extra[i - Len(one)]
          BY ONLY <4>1, ConcatProperties
        <4>3. facts' = long
          BY <1>4
        <4> HIDE DEF long
        <4> QED
          BY ONLY <4>2, <4>3
      <3>3. \A i \in 1 .. n + 3 : facts'[i] = IF i <= n + 1 THEN one[i] ELSE extra[i - (n + 1)]
        BY <1>2, <3>1, <3>2
      <3>4. /\ n + 1 \in 1 .. n + 3 /\ n + 2 \in 1 .. n + 3 /\ n + 3 \in 1 .. n + 3
            /\ n + 1 <= n + 1 /\ ~(n + 2 <= n + 1) /\ ~(n + 3 <= n + 1)
            /\ (n + 2) - (n + 1) = 1 /\ (n + 3) - (n + 1) = 2 /\ Len(one) + Len(extra) = n + 3
            /\ \A i \in 1 .. n : i \in 1 .. n + 3 /\ i <= n + 1
        BY <1>2, <3>1
      <3>5. facts'[n + 1] = one[n + 1] /\ facts'[n + 2] = extra[1] /\ facts'[n + 3] = extra[2]
        BY <3>3, <3>4
      <3> QED
        BY <1>2, <3>1, <3>2, <3>3, <3>4, <3>5
    <2>2. DOMAIN facts = 1 .. n /\ DOMAIN facts' = 1 .. (n + 3)
      BY <2>1
    <2> HIDE DEF n, one, two
    <2>3. \A i \in DOMAIN facts' : Fresh(i) <=> i \in {n + 1, n + 2, n + 3}
      BY <1>2, <2>2 DEF Fresh
    <2>4. Longer
      BY <1>2, <2>1, <2>2 DEF Longer, n
    <2>5. Fresh(n + 1) /\ n + 1 \in DOMAIN facts' /\ n + 1 # n + 2 /\ n + 1 # n + 3
      BY <1>2, <2>2 DEF Fresh
    <2>6. \A i \in DOMAIN facts' : Fresh(i) /\ i # n + 1 => facts'[i] = a \/ facts'[i] = b
      BY <2>1, <2>3
    <2>7. Records(g, s)
      BY ZenonT(30), <1>1, <2>1, <2>4, <2>5, <2>6 DEF Records, Cand
    <2> QED
      BY <1>1, <2>1, <2>5, <2>6, <2>7 DEF Recording
  <1> QED
    BY <1>3, <1>5, <1>6

(* The result of an executor becomes a candidate, is found recorded, or is refused. *)
LEMMA RecordResultKeeps ==
    ASSUME Inv, NEW p \in Procs, NEW g \in 1 .. 2, NEW s \in Nat, s <= head,
           NEW by \in {"direct", "queue"}, NEW says \in Says, NEW blocker \in Reasons,
           RecordControlExecutorResult(p, g, s, by, says, blocker),
           p = "operator" => g = 1,
           p = "harness" => job["harness"].at = "record",
           g = 2 => /\ s # 0
                    /\ \E j \in DOMAIN facts : Cand(j) /\ facts[j].gen = 1 /\ facts[j].sha \notin {0, s},
           g = 2 /\ says = "completed" => s = retained + 1 /\ capture.sha = s /\ capture.bound,
           UNCHANGED <<retained, head, dirty, capture, claims, rows, order, scan, up>>
    PROVE  Inv'
  <1> DEFINE f == CandidateFact(g, s, by, says, blocker)
             next == [job EXCEPT ![p] = [at |-> "reviews", d |-> Executor(g), sha |-> s]]
             extra == IF CurrentSha # 0 /\ g > CandidateGeneration(CurrentSha) /\ s # 0
                      THEN Superseding(s) ELSE <<>>
  <1>1. /\ f \in FactRecord /\ f.kind = "candidate_recorded" /\ f.sha = s /\ f.gen = g
        /\ f.says = says /\ f.blocker = blocker
    BY CandidateTyped DEF Inv
  <1>2. \/ ControlResultIssue(p)
        \/ /\ ~ResultConflicts(g, s, says, f)
           /\ \/ f \in Recorded("candidate_recorded") /\ UNCHANGED <<ms, facts>>
              \/ /\ f \notin Recorded("candidate_recorded") /\ ResultState(s, says) # "refused"
                 /\ ms' = ResultState(s, says) /\ facts' = facts \o <<f>> \o extra
           /\ (says = "completed" /\ s # 0 /\ job' = next) \/ Done(p)
    BY Zenon DEF RecordControlExecutorResult, Superseding
  <1>3. /\ facts \in Seq(FactRecord) /\ job \in [Procs -> Job] /\ rows \in [Dispatches -> Row]
        /\ Typed /\ CandidateFacts /\ CurrentFacts /\ RowFacts
        /\ \A x \in Dispatches : rows[x].state = "none" => rows[x] = NoRow
    BY DEF Inv, Typed
  <1> HIDE DEF f, extra
  <1>4. CASE ControlResultIssue(p)
    BY <1>4, IssueKeeps
  <1>5. next \in [Procs -> Job] /\ next[p] = [at |-> "reviews", d |-> Executor(g), sha |-> s]
        /\ \A q \in Procs : q # p => next[q] = job[q]
    BY <1>3, RoleDispatch, JobTyped
  <1>6. Executor(g)[2] = g
    BY DEF Executor
  <1>7. job' = next /\ Good(g, s)' => JobFact(p)'
    BY <1>5, <1>6 DEF JobFact
  <1>8. CASE f \in Recorded("candidate_recorded") /\ UNCHANGED <<ms, facts>>
             /\ ((says = "completed" /\ s # 0 /\ job' = next) \/ Done(p))
    <2>1. CASE Done(p)
      BY <1>8, <2>1, DoneKeeps
    <2>2. CASE says = "completed" /\ s # 0 /\ job' = next
      <3>1. PICK i \in DOMAIN facts : facts[i] = f
        BY <1>8 DEF Recorded, Range
      <3>2. Good(g, s)
        BY <1>1, <2>2, <3>1 DEF Good, Cand
      <3>3. \A x, y : Good(x, y) => Good(x, y)'
        BY <1>8 DEF Good, Cand
      <3>4. Good(g, s)'
        BY <3>2, <3>3
      <3> HIDE DEF next
      <3>5. job' \in [Procs -> Job] /\ \A q \in Procs : job'[q] = job[q] \/ JobFact(q)'
        BY <1>5, <1>7, <2>2, <3>4
      <3> QED
        BY <1>8, <3>5, JobStep
    <2> QED
      BY <1>8, <2>1, <2>2
  <1>9. CASE /\ ~ResultConflicts(g, s, says, f) /\ f \notin Recorded("candidate_recorded")
             /\ ResultState(s, says) # "refused"
             /\ ms' = ResultState(s, says) /\ facts' = facts \o <<f>> \o extra
             /\ (says = "completed" /\ s # 0 /\ job' = next) \/ Done(p)
    <2>1. \A i \in DOMAIN facts : Cand(i) => facts[i].gen # g
      <3> DEFINE same == {x \in Recorded("candidate_recorded") : x.gen = g}
      <3>1. ~(IF same # {} THEN same # {f} ELSE FALSE)
        BY <1>9, Zenon DEF ResultConflicts
      <3>2. f \notin same
        BY <1>9
      <3>3. same = {}
        BY <3>1, <3>2
      <3> QED
        BY <3>3 DEF Recorded, Range, Cand
    <2>2. g = 1 => \A i \in DOMAIN facts : ~Cand(i)
      <3>1. \A i \in DOMAIN facts : facts[i] \in FactRecord
        BY <1>3
      <3>2. \A i \in DOMAIN facts : facts[i].gen \in 0 .. 2
        BY <3>1 DEF FactRecord
      <3> QED
        BY <1>3, <2>1, <3>2 DEF CandidateFacts
    <2>3. Recording(f, g, s)
      <3>1. extra = <<>> \/ extra = Superseding(s)
        BY DEF extra
      <3>2. f \in FactRecord /\ f.kind = "candidate_recorded" /\ f.gen = g /\ f.sha = s
        BY <1>1
      <3>3. facts' = facts \o <<f>> \o extra /\ facts \in Seq(FactRecord) /\ g \in 1 .. 2 /\ s \in Nat
        BY <1>3, <1>9
      <3> QED
        BY ONLY <2>1, <3>1, <3>2, <3>3, RecordedLog
    <2>4. Longer
      BY <2>3 DEF Recording, Records
    <2>5. CandidateFacts' /\ CurrentFacts' /\ CurrentSha' = s
      BY <1>3, <2>2, <2>3, RecordKeepsLog DEF Recording
    <2>6. ms' \in States /\ ms # "ACCEPTED" /\ ms' # "ACCEPTED"
      BY <1>9, Zenon DEF ResultState, States, Closed
    <2>7. RowsMove /\ RowsEnter /\ CaptureKept
      BY <1>3, RowsStay DEF CaptureKept
    <2>8. ReviewsRight
      BY <2>3 DEF ReviewsRight, Recording
    <2>9. (says = "completed" /\ s # 0) => Good(g, s)'
      BY <1>1, <2>3 DEF Good, Cand, Recording
    <2>10. job' \in [Procs -> Job] /\ (\A q \in Procs : q # p => job'[q] = job[q]) /\ JobFact(p)'
      <3>1. CASE Done(p)
        <4>1. job'[p] = Idle /\ job' \in [Procs -> Job] /\ \A q \in Procs : q # p => job'[q] = job[q]
          BY <1>3, <3>1, ForgetJob DEF Done
        <4> QED
          BY <4>1, IdleJob
      <3>2. CASE says = "completed" /\ s # 0 /\ job' = next
        <4> HIDE DEF next
        <4> QED
          BY <1>5, <1>7, <2>9, <3>2
      <3> QED
        BY <1>9, <3>1, <3>2
    <2>11. \A q \in Procs : q # p => job[q].at # "advance"
      <3>1. SUFFICES ASSUME p = "operator", job["harness"].at = "advance"
                     PROVE  FALSE
        BY <1>3 DEF Procs, Inv, JobFacts, JobFact
      <3>2. "harness" \in Procs
        BY DEF Procs
      <3> DEFINE d == job["harness"].d
      <3>3. rows[d].state = "done" /\ d[1] \in Roles
        BY <3>1, <3>2 DEF Inv, JobFacts, JobFact
      <3>4. d \in Dispatches
        BY <1>3, <3>2 DEF Job
      <3>5. d # Executor(1)
        BY <3>3, RoleDispatch DEF Executor
      <3>6. Good(Under(d), rows[d].sha)
        BY <1>3, <3>3, <3>4, <3>5 DEF RowFacts
      <3> QED
        BY <2>2, <3>1, <3>6 DEF Good
    <2>12. JobFacts'
      <3>1. \A q \in Procs : JobFact(q)'
        <4>1. SUFFICES ASSUME NEW q \in Procs, q # p
                       PROVE  JobFact(q)'
          BY <2>10
        <4>2. JobFact(q) /\ job'[q] = job[q] /\ job[q].at # "advance"
          BY <2>10, <2>11, <4>1 DEF Inv, JobFacts
        <4> QED
          BY <1>3, <2>4, <2>7, <4>2, JobKept
      <3> QED
        BY <3>1 DEF JobFacts, Inv
    <2>13. Typed'
      <3>1. /\ facts' \in Seq(FactRecord)
            /\ \A i \in DOMAIN facts' : (i \in DOMAIN facts /\ facts'[i] = facts[i]) \/ facts'[i].sha = s
        BY <2>3, <2>4 DEF Longer, Fresh, Recording
      <3>2. \A i \in DOMAIN facts' : facts'[i].sha <= head
        BY <1>3, <3>1 DEF Typed
      <3> QED
        BY <1>3, <2>6, <2>10, <3>1, <3>2 DEF Typed
    <2>14. AcceptedFacts'
      BY <2>6 DEF AcceptedFacts
    <2> HIDE DEF next
    <2> QED
      BY <2>3, <2>4, <2>5, <2>6, <2>7, <2>8, <2>12, <2>13, <2>14, LongerKeepsInv DEF Recording
  <1> QED
    BY <1>2, <1>4, <1>8, <1>9

(* The result of the queue's executor is taken up. *)
LEMMA RecordExecutorKeeps ==
    ASSUME Inv, NEW d \in Dispatches, RecordExecutor(d)
    PROVE  Inv'
  <1> DEFINE g == d[2]
             row == rows[d]
             s == InspectedSha(g)
             recorded == RecordControlExecutorResult("harness", g, s, "queue", row.says, row.blocker)
  <1>1. /\ job["harness"].at = "record" /\ job["harness"].d = d /\ d[1] = "executor"
        /\ UNCHANGED <<claims, rows, scan, up, capture, budget, retained, head, dirty, order>>
    BY DEF RecordExecutor, durable
  <1>2. \/ ControlResultIssue("harness")
        \/ /\ recorded /\ ~InspectionRefused(g)
           /\ g = 2 /\ row.says = "completed" =>
                row.sha = retained /\ RepairAuthority(head) /\ head = row.sha + 1
    BY Zenon DEF RecordExecutor
  <1>3. "harness" \in Procs /\ g \in 1 .. 2 /\ d = Executor(g)
    BY <1>1 DEF Procs, Dispatches, Executor
  <1>4. rows[d].state = "done"
    BY <1>1, <1>3 DEF Inv, JobFacts, JobFact
  <1>5. row.says \in Says /\ row.blocker \in Reasons /\ row.sha \in Nat
    <2>1. row \in Row
      BY DEF Inv, Typed
    <2> QED
      BY <2>1 DEF Row
  <1>6. s \in Nat /\ s <= head /\ head \in Nat /\ (g = 2 => s = head)
    BY DEF InspectedSha, Inv, Typed
  <1>7. g = 2 => Good(1, row.sha)
    BY <1>1, <1>3, <1>4 DEF Inv, RowFacts, Under, Executor
  <1>8. CASE ControlResultIssue("harness")
    BY <1>1, <1>3, <1>8, IssueKeeps
  <1>9. CASE /\ recorded /\ ~InspectionRefused(g)
             /\ g = 2 /\ row.says = "completed" =>
                  row.sha = retained /\ RepairAuthority(head) /\ head = row.sha + 1
    <2>1. g = 2 => row.sha < head
      BY <1>3, <1>5, <1>6, <1>9 DEF InspectionRefused
    <2>2. g = 2 => /\ s # 0
                   /\ \E j \in DOMAIN facts : Cand(j) /\ facts[j].gen = 1 /\ facts[j].sha \notin {0, s}
      <3>1. SUFFICES ASSUME g = 2 PROVE /\ s # 0
                                        /\ \E j \in DOMAIN facts :
                                              Cand(j) /\ facts[j].gen = 1 /\ facts[j].sha \notin {0, s}
        OBVIOUS
      <3>2. PICK j \in DOMAIN facts : Cand(j) /\ facts[j].gen = 1 /\ facts[j].sha = row.sha
        BY <1>7, <3>1 DEF Good
      <3>3. row.sha # 0 /\ row.sha # s /\ s # 0
        BY <1>5, <1>6, <1>7, <2>1, <3>1 DEF Good
      <3> QED
        BY <3>2, <3>3
    <2>3. g = 2 /\ row.says = "completed" => s = retained + 1 /\ capture.sha = s /\ capture.bound
      BY <1>6, <1>9 DEF RepairAuthority
    <2> HIDE DEF g, row, s
    <2> QED
      BY <1>1, <1>3, <1>5, <1>6, <1>9, <2>2, <2>3, RecordResultKeeps
  <1> QED
    BY <1>2, <1>8, <1>9

(* The operator adopts a completed direct execution. *)
LEMMA ReconcileKeeps ==
    ASSUME Inv, ReconcileControlExecution
    PROVE  Inv'
  <1>1. /\ retained \in Nat /\ retained <= head /\ "operator" \in Procs
        /\ "completed" \in Says /\ "none" \in Reasons
    BY DEF Inv, Typed, Procs, Says, Reasons
  <1> QED
    BY <1>1, RecordResultKeeps DEF ReconcileControlExecution, durable

-----------------------------------------------------------------------------
(* The advance of the acceptance after a review. *)

(* The declared authorities other than the late one are some of them. *)
LEMMA InitialRolesAre == InitialRoles \subseteq Roles
  BY DEF InitialRoles, Roles

(* All reviewed and none stopping, every authority of roles accepted. *)
LEMMA NoneStopped ==
    ASSUME Inv, NEW g, NEW s, NEW roles, Reviewed(g, s, roles), ~Stopped(g, s, roles)
    PROVE  /\ CandidateBlocker(s) = "none"
           /\ \A f \in Reviews(g, s) : f.by \in roles => f.says = "accept"
           /\ \A r \in roles : \E f \in Reviews(g, s) : f.by = r /\ f.says = "accept"
  <1>1. \A f \in Reviews(g, s) : f.says \in {"accept", "reject", "object"}
    <2>1. SUFFICES ASSUME NEW f \in Reviews(g, s)
                   PROVE  f.says \in {"accept", "reject", "object"}
      OBVIOUS
    <2>2. PICK i \in DOMAIN facts : facts[i] = f /\ f.kind = "review_completed"
      BY DEF Reviews, Recorded, Range
    <2> DEFINE d == <<f.by, f.gen>>
    <2>3. /\ f.by \in Roles /\ f.gen \in 1 .. 2
          /\ rows[d].state = "done" /\ rows[d].says = f.says /\ f.says # "stray"
      BY <2>2 DEF Inv, ReviewFacts
    <2>4. d \in Dispatches /\ d[1] # "executor"
      BY <2>3, RoleDispatch
    <2>5. rows[d].says \in Verdicts
      BY <2>3, <2>4 DEF Inv, RowFacts
    <2> QED
      BY <2>3, <2>5 DEF Verdicts
  <1>2. CandidateBlocker(s) = "none" /\ \A f \in Reviews(g, s) : f.by \in roles => ~Blocking(f)
    BY DEF Stopped
  <1>3. \A f \in Reviews(g, s) : f.by \in roles => f.says = "accept"
    BY <1>1, <1>2 DEF Blocking
  <1>4. \A r \in roles : \E f \in Reviews(g, s) : f.by = r
    BY DEF Reviewed
  <1> QED
    BY <1>2, <1>3, <1>4

(* A step that leaves facts to the harness's conclusion. *)
LEMMA ConcludeKeeps ==
    ASSUME Inv, NEW to \in {"BLOCKED", "NEEDS_DECISION", "FAILED"},
           NEW f, Harmless(f), f.kind # "review_completed",
           Conclude(to, f), UNCHANGED <<retained, head, dirty, capture, scan, up>>
    PROVE  Inv'
  <1>1. "harness" \in Procs /\ job \in [Procs -> Job] /\ UNCHANGED <<claims, rows, order>>
    BY DEF Procs, Inv, Typed, Conclude
  <1>2. CASE ControlResultIssue("harness")
    BY <1>1, <1>2, IssueKeeps
  <1>3. CASE TransitionOk("REVIEWING", to) /\ Transition(to, f) /\ Done("harness")
    <2>1. job' \in [Procs -> Job] /\ \A q \in Procs : job'[q] = job[q] \/ JobFact(q)'
      BY <1>1, <1>3, ForgetJob
    <2>2. ms' \in States /\ ms = "REVIEWING" /\ (ms' = "ACCEPTED" <=> ms = "ACCEPTED")
      BY <1>3 DEF TransitionOk, Transition, States, Closed
    <2>3. f \in FactRecord /\ facts' = Append(facts, f)
      BY <1>3 DEF Transition, Harmless
    <2> QED
      BY <1>1, <2>1, <2>2, <2>3, LogStep
  <1> QED
    BY <1>2, <1>3 DEF Conclude

(* What the advance after the review of d may rely on. *)
LEMMA AdvanceFrom ==
    ASSUME Inv, NEW d \in Dispatches, job["harness"].at = "advance", job["harness"].d = d
    PROVE  /\ d[1] \in Roles /\ d[2] \in 1 .. 2 /\ CurrentSha = rows[d].sha
           /\ Good(d[2], rows[d].sha) /\ rows[d].sha \in Nat /\ rows[d].sha <= head
  <1>1. "harness" \in Procs /\ rows[d] \in Row
    BY DEF Procs, Inv, Typed
  <1>2. d[1] \in Roles /\ CurrentSha = rows[d].sha /\ rows[d].state = "done"
    BY <1>1 DEF Inv, JobFacts, JobFact
  <1>3. d[2] \in 1 .. 2
    BY DEF Dispatches
  <1>4. d[1] # "executor"
    BY <1>2, <1>3, RoleDispatch
  <1>5. Good(d[2], rows[d].sha)
    BY <1>2, <1>4 DEF Inv, RowFacts, Under, Executor
  <1> QED
    BY <1>2, <1>3, <1>5, CurrentTyped

(* The findings a repair answers are of declared authorities. *)
LEMMA FindingsTyped ==
    ASSUME Inv, NEW g, NEW s
    PROVE  EligibleFindings(g, s) \in SUBSET Roles
  <1>1. \A f \in Reviews(g, s) : f.by \in Roles
    <2>1. SUFFICES ASSUME NEW f \in Reviews(g, s) PROVE f.by \in Roles
      OBVIOUS
    <2>2. PICK i \in DOMAIN facts : facts[i] = f /\ f.kind = "review_completed"
      BY DEF Reviews, Recorded, Range
    <2> QED
      BY <2>2 DEF Inv, ReviewFacts
  <1> QED
    BY <1>1 DEF EligibleFindings

(* The milestone is accepted. *)
LEMMA AcceptKeeps ==
    ASSUME Inv, NEW d \in Dispatches, job["harness"].at = "advance", job["harness"].d = d,
           d[2] = 2 => RepairAuthority(rows[d].sha),
           Reviewed(d[2], rows[d].sha, Roles), ~Stopped(d[2], rows[d].sha, Roles),
           Conclude("ACCEPTED", Plain("promotion_accepted", rows[d].sha, d[2])),
           UNCHANGED <<retained, head, dirty, capture, scan, up>>
    PROVE  Inv'
  <1> DEFINE g == d[2]
             s == rows[d].sha
             f == Plain("promotion_accepted", s, g)
  <1>1. /\ g \in 1 .. 2 /\ CurrentSha = s /\ Good(g, s) /\ s \in Nat /\ s <= head /\ s # 0
    BY AdvanceFrom DEF Good
  <1>2. /\ "harness" \in Procs /\ job \in [Procs -> Job] /\ facts \in Seq(FactRecord)
        /\ rows \in [Dispatches -> Row] /\ RowFacts /\ CandidateFacts /\ CurrentFacts
        /\ \A x \in Dispatches : rows[x].state = "none" => rows[x] = NoRow
        /\ UNCHANGED <<claims, rows, order>>
    BY DEF Procs, Inv, Typed, Conclude
  <1>3. f \in FactRecord /\ f.kind = "promotion_accepted" /\ f.sha = s
    BY <1>1, PlainTyped DEF Kinds
  <1>4. /\ CandidateBlocker(s) = "none"
        /\ \A x \in Reviews(g, s) : x.by \in Roles => x.says = "accept"
        /\ \A r \in Roles : \E x \in Reviews(g, s) : x.by = r /\ x.says = "accept"
    BY NoneStopped
  <1>5. \/ ControlResultIssue("harness")
        \/ ms = "REVIEWING" /\ ms' = "ACCEPTED" /\ facts' = Append(facts, f) /\ Done("harness")
    BY DEF Conclude, TransitionOk, Transition
  <1> HIDE DEF f, s, g
  <1>6. CASE ControlResultIssue("harness")
    BY <1>2, <1>6, IssueKeeps
  <1>7. CASE ms = "REVIEWING" /\ ms' = "ACCEPTED" /\ facts' = Append(facts, f) /\ Done("harness")
    <2>1. Longer /\ \A i \in DOMAIN facts' : Fresh(i) => facts'[i] = f
      BY <1>2, <1>3, <1>7, AppendIsLonger
    <2>2. Notes
      <3>1. Len(facts') = Len(facts) + 1 /\ Len(facts) \in Nat
        BY <1>2, <1>3, <1>7
      <3> QED
        BY <1>1, <1>3, <2>1, <3>1 DEF Notes, Cand
    <2>3. CandidateFacts' /\ CurrentFacts' /\ CurrentSha' = CurrentSha
      BY <1>2, <2>2, NotesKeepLog
    <2>4. RowsMove /\ RowsEnter /\ CaptureKept
      BY <1>2, RowsStay DEF CaptureKept
    <2>5. job' \in [Procs -> Job] /\ JobsRight
      BY <1>2, <1>7, ForgetJob DEF JobsRight
    <2>6. JobFacts'
      BY <2>1, <2>3, <2>4, <2>5, JobsKept
    <2>7. ReviewsRight
      BY <1>3, <2>1 DEF ReviewsRight
    <2>8. Typed'
      <3>1. \A i \in DOMAIN facts' : facts'[i].sha <= head
        <4>1. \A i \in DOMAIN facts' : (i \in DOMAIN facts /\ facts'[i] = facts[i]) \/ facts'[i].sha = s
          BY <1>3, <2>1 DEF Longer, Fresh
        <4> QED
          BY <1>1, <4>1 DEF Inv, Typed
      <3>2. facts' \in Seq(FactRecord)
        BY <2>1 DEF Longer
      <3> QED
        BY <1>2, <1>7, <2>5, <3>1, <3>2 DEF Inv, Typed, States, Closed
    <2>9. AcceptedFacts'
      <3>1. PICK i \in DOMAIN facts : Cand(i) /\ facts[i].gen = g /\ facts[i].sha = s
        BY <1>1 DEF Good
      <3>2. facts[i].blocker = "none"
        BY <1>1, <1>2, <1>4, <3>1, CandidateIs
      <3>3. \A x, y : Good(x, y) => Good(x, y)'
        BY <1>1, <1>2, <2>1, <2>4, GoodKept
      <3>4. i \in DOMAIN facts' /\ Cand(i)' /\ facts'[i] = facts[i]
        BY <1>2, <2>1, <3>1, OldPlaces DEF Longer
      <3>5. \A r \in Roles : \E j \in DOMAIN facts' : Review(j, r, i)'
        <4>1. SUFFICES ASSUME NEW r \in Roles PROVE \E j \in DOMAIN facts' : Review(j, r, i)'
          OBVIOUS
        <4>2. PICK x \in Reviews(g, s) : x.by = r
          BY <1>4
        <4>3. PICK j \in DOMAIN facts : facts[j] = x /\ x.kind = "review_completed" /\ x.sha = s /\ x.gen = g
          BY <4>2 DEF Reviews, Recorded, Range
        <4>4. j \in DOMAIN facts' /\ facts'[j] = facts[j]
          BY <1>2, <2>1, OldPlaces DEF Longer
        <4> QED
          BY <3>1, <3>4, <4>2, <4>3, <4>4 DEF Review
      <3>6. \A r \in Roles : \A j \in DOMAIN facts' : Review(j, r, i)' => facts'[j].says = "accept"
        <4>1. SUFFICES ASSUME NEW r \in Roles, NEW j \in DOMAIN facts', Review(j, r, i)'
                       PROVE  facts'[j].says = "accept"
          OBVIOUS
        <4>2. /\ facts'[j].kind = "review_completed" /\ facts'[j].by = r
              /\ facts'[j].gen = g /\ facts'[j].sha = s
          BY <3>1, <3>4, <4>1 DEF Review
        <4>3. j \in DOMAIN facts /\ facts'[j] = facts[j]
          BY <1>3, <2>1, <4>2 DEF Fresh, Longer
        <4>4. facts[j] \in Reviews(g, s)
          BY <4>2, <4>3 DEF Reviews, Recorded, Range
        <4> QED
          BY <1>4, <4>2, <4>3, <4>4
      <3>7. Good(facts[i].gen, facts[i].sha)'
        <4>1. Good(facts[i].gen, facts[i].sha)
          BY <1>1, <3>1
        <4> QED
          BY <3>3, <3>4, <4>1
      <3> QED
        BY <1>1, <2>3, <3>1, <3>2, <3>4, <3>5, <3>6, <3>7 DEF AcceptedFacts
    <2> QED
      BY <1>7, <2>1, <2>3, <2>4, <2>6, <2>7, <2>8, <2>9, LongerKeepsInv
  <1> QED
    BY <1>5, <1>6, <1>7

(* A dispatch is enqueued once: the next transaction, or found enqueued. *)
LEMMA EnqueueOnceKeeps ==
    ASSUME Inv, NEW d \in Dispatches, d # Executor(1),
           NEW s, NEW findings \in SUBSET Roles, Good(Under(d), s), Green(d, s),
           EnqueueOnce(d, s, findings), UNCHANGED <<retained, head, dirty, capture, scan, up>>
    PROVE  Inv'
  <1>1. "harness" \in Procs
    BY DEF Procs
  <1>2. CASE Enqueue("harness", d, s, findings)
    BY <1>1, <1>2, EnqueueKeeps
  <1>3. CASE Done("harness") /\ UNCHANGED <<ms, facts>> /\ UNCHANGED <<claims, rows, order>>
    BY <1>1, <1>3, DoneKeeps
  <1>4. CASE ControlResultIssue("harness") /\ UNCHANGED <<claims, rows, order>>
    BY <1>1, <1>4, IssueKeeps
  <1> QED
    BY <1>2, <1>3, <1>4 DEF EnqueueOnce

(* A repair is requested, once. *)
LEMMA RequestRepairKeeps ==
    ASSUME Inv, NEW s \in Nat, s = CurrentSha, NEW findings \in SUBSET Roles, RequestRepair(s, findings),
           UNCHANGED <<retained, head, dirty, capture, scan, up>>
    PROVE  Inv'
  <1> DEFINE f == [Plain("repair_requested", s, 2) EXCEPT !.findings = findings]
  <1>1. "harness" \in Procs /\ job \in [Procs -> Job] /\ UNCHANGED <<claims, rows, order>>
    BY DEF Procs, Inv, Typed, RequestRepair
  <1>2. f \in FactRecord /\ f.kind = "repair_requested" /\ f.sha = s
    <2>1. /\ Plain("repair_requested", s, 2) \in FactRecord
          /\ Plain("repair_requested", s, 2).kind = "repair_requested"
          /\ Plain("repair_requested", s, 2).sha = s
      BY PlainTyped DEF Kinds
    <2> QED
      BY <2>1 DEF FactRecord
  <1>3. Harmless(f)
    BY <1>2 DEF Harmless
  <1>4. CASE ControlResultIssue("harness")
    BY <1>1, <1>4, IssueKeeps
  <1>5. CASE TransitionOk("REVIEWING", "REPAIR_REQUIRED") /\ Transition("REPAIR_REQUIRED", f) /\ UNCHANGED job
    <2>1. ms' \in States /\ (ms' = "ACCEPTED" <=> ms = "ACCEPTED") /\ facts' = Append(facts, f)
      BY <1>5 DEF TransitionOk, Transition, States, Closed
    <2> HIDE DEF f
    <2> QED
      BY <1>1, <1>2, <1>3, <1>5, <2>1, LogStep
  <1> QED
    BY <1>4, <1>5 DEF RequestRepair

(* One advance of the acceptance. *)
LEMMA AdvanceKeeps ==
    ASSUME Inv, NEW d \in Dispatches, Advance(d)
    PROVE  Inv'
  <1> DEFINE g == d[2]
             s == rows[d].sha
             findings == EligibleFindings(g, s)
  <1>1. /\ job["harness"].at = "advance" /\ job["harness"].d = d
        /\ UNCHANGED <<retained, head, dirty, capture, scan, up>>
    BY DEF Advance
  <1>2. /\ g \in 1 .. 2 /\ CurrentSha = s /\ Good(g, s) /\ s \in Nat /\ s <= head
    BY <1>1, AdvanceFrom
  <1>3. findings \in SUBSET Roles /\ "harness" \in Procs
    BY FindingsTyped DEF Procs
  <1>4. \/ ControlResultIssue("harness") /\ UNCHANGED <<claims, rows, order>>
        \/ /\ g = 2 => RepairAuthority(s)
           /\ \/ Verdict(g, s) = "promoted" /\ PromotionRecovered(s)
              \/ Done("harness") /\ UNCHANGED <<ms, facts, claims, rows, order>>
              \/ Verdict(g, s) = "architecture" /\ EnqueueOnce(<<"architecture", g>>, s, {})
              \/ Verdict(g, s) = "accept" /\ Conclude("ACCEPTED", Plain("promotion_accepted", s, g))
              \/ RequestRepair(s, findings)
              \/ Verdict(g, s) = "repair" /\ EnqueueOnce(Executor(2), s, findings)
              \/ Conclude(RejectedState(s),
                          Plain(IF g = 2 THEN "re_review_rejected" ELSE "candidate_blocked", s, g))
    BY Zenon DEF Advance
  <1> HIDE DEF g, s, findings
  <1>5. CASE ControlResultIssue("harness") /\ UNCHANGED <<claims, rows, order>>
    BY <1>1, <1>3, <1>5, IssueKeeps
  <1>6. CASE Verdict(g, s) = "promoted" /\ PromotionRecovered(s)
    <2>1. \E f \in Recorded("promotion_accepted") : f.sha = s
      BY <1>6, Zenon DEF Verdict
    <2>2. ms = "ACCEPTED"
      BY <2>1 DEF Recorded, Range, Inv, PromotionFacts
    <2>3. Done("harness") /\ UNCHANGED <<ms, facts, claims, rows, order>>
      BY <1>6, <2>2 DEF PromotionRecovered
    <2> QED
      BY <1>1, <1>3, <2>3, DoneKeeps
  <1>7. CASE Done("harness") /\ UNCHANGED <<ms, facts, claims, rows, order>>
    BY <1>1, <1>3, <1>7, DoneKeeps
  <1>8. CASE Verdict(g, s) = "architecture" /\ EnqueueOnce(<<"architecture", g>>, s, {})
    <2>1. /\ Reviewed(g, s, InitialRoles) /\ ~Stopped(g, s, InitialRoles)
          /\ ~Reviewed(g, s, Roles)
      BY <1>8, Zenon DEF Verdict
    <2>2. "architecture" \in Roles
      BY <2>1 DEF InitialRoles, Roles
    <2> DEFINE a == <<"architecture", g>>
    <2>3. a \in Dispatches /\ a # Executor(1) /\ Under(a) = g /\ a[2] = g
      BY <1>2, <2>2, RoleDispatch DEF Executor, Under
    <2>4. \A r \in InitialRoles : \E f \in Reviews(g, s) : f.by = r /\ f.says = "accept"
      BY <2>1, NoneStopped
    <2>5. Green(a, s)
      BY <2>3, <2>4 DEF Green
    <2>6. {} \in SUBSET Roles
      OBVIOUS
    <2> HIDE DEF a
    <2> QED
      BY <1>1, <1>2, <1>8, <2>3, <2>5, <2>6, EnqueueOnceKeeps DEF a
  <1>9. CASE /\ g = 2 => RepairAuthority(s)
             /\ Verdict(g, s) = "accept" /\ Conclude("ACCEPTED", Plain("promotion_accepted", s, g))
    <2>1. Reviewed(g, s, Roles) /\ ~Stopped(g, s, Roles)
      BY <1>9, Zenon DEF Verdict
    <2> QED
      BY <1>1, <1>9, <2>1, AcceptKeeps DEF g, s
  <1>10. CASE RequestRepair(s, findings)
    BY <1>1, <1>2, <1>3, <1>10, RequestRepairKeeps
  <1>11. CASE Verdict(g, s) = "repair" /\ EnqueueOnce(Executor(2), s, findings)
    <2>1. g = 1
      BY <1>11, Zenon DEF Verdict
    <2>2. /\ Executor(2) \in Dispatches /\ Executor(2) # Executor(1)
          /\ Good(Under(Executor(2)), s) /\ Green(Executor(2), s)
      BY <1>2, <2>1, RoleDispatch DEF Executor, Under, Green
    <2> QED
      BY <1>1, <1>3, <1>11, <2>2, EnqueueOnceKeeps
  <1>12. CASE Conclude(RejectedState(s),
                       Plain(IF g = 2 THEN "re_review_rejected" ELSE "candidate_blocked", s, g))
    <2> DEFINE kind == IF g = 2 THEN "re_review_rejected" ELSE "candidate_blocked"
               f == Plain(kind, s, g)
    <2>1. kind \in Kinds /\ kind \notin {"candidate_recorded", "promotion_accepted", "review_completed"}
      BY DEF Kinds
    <2> HIDE DEF kind
    <2>2. f \in FactRecord /\ f.kind = kind /\ f.sha = s
      BY <1>2, <2>1, PlainTyped
    <2> HIDE DEF f
    <2>3. Harmless(f) /\ f.kind # "review_completed"
      BY <1>2, <2>1, <2>2 DEF Harmless
    <2>4. RejectedState(s) \in {"BLOCKED", "NEEDS_DECISION", "FAILED"}
      BY DEF RejectedState
    <2>5. Conclude(RejectedState(s), f)
      BY <1>12 DEF f, kind
    <2> QED
      BY <1>1, <2>3, <2>4, <2>5, ConcludeKeeps
  <1> QED
    BY <1>4, <1>5, <1>6, <1>7, <1>8, <1>9, <1>10, <1>11, <1>12

-----------------------------------------------------------------------------
(* The invariant holds at first. *)
LEMMA InitInv == Init => Inv
  <1> SUFFICES ASSUME Init PROVE Inv
    OBVIOUS
  <1> DEFINE first == [NoRow EXCEPT !.state = "queued", !.child = TRUE]
  <1>1. /\ facts = <<>> /\ facts \in Seq(FactRecord) /\ DOMAIN facts = {}
        /\ dirty = FALSE /\ capture = NoCapture /\ claims = {Executor(1)}
        /\ job = [p \in Procs |-> Idle] /\ scan = {} /\ up = TRUE
    BY DEF Init
  <1>2. NoRow \in Row /\ NoRow.state = "none" /\ NoRow.sha = 0
    BY DEF NoRow, Row, RowStates, Says, Reasons
  <1>3. first \in Row /\ first.state = "queued"
    BY DEF NoRow, Row, RowStates, Says, Reasons
  <1> HIDE DEF first
  <1>4. /\ ms \in {"STARTING", "COMPLETED"} /\ (retained = 0 \/ retained = 1) /\ head = retained
        /\ \/ rows = [d \in Dispatches |-> NoRow] /\ order = <<>>
           \/ /\ rows = [d \in Dispatches |-> IF d = Executor(1) THEN first ELSE NoRow]
              /\ order = <<Executor(1)>>
    BY Zenon DEF Init, first
  <1>5. Executor(1) \in Dispatches /\ {Executor(1)} \subseteq Dispatches
    BY RoleDispatch
  <1>6. /\ rows \in [Dispatches -> Row] /\ order \in Seq(Dispatches)
        /\ \A d \in Dispatches : rows[d].state = "none" => rows[d] = NoRow
        /\ \A d \in Dispatches : rows[d].state # "none" => d = Executor(1) /\ rows[d].state = "queued"
        /\ \A d \in Dispatches : rows[d].state # "none" <=> d \in Range(order)
        /\ Range(order) \subseteq {Executor(1)}
    <2>1. CASE rows = [d \in Dispatches |-> NoRow] /\ order = <<>>
      <3>1. order \in Seq(Dispatches) /\ Range(order) = {}
        BY <2>1 DEF Range
      <3> QED
        BY <1>2, <2>1, <3>1
    <2>2. CASE /\ rows = [d \in Dispatches |-> IF d = Executor(1) THEN first ELSE NoRow]
               /\ order = <<Executor(1)>>
      <3>1. order \in Seq(Dispatches) /\ Range(order) = {Executor(1)}
        BY <1>5, <2>2 DEF Range
      <3>2. \A d \in Dispatches : rows[d] = IF d = Executor(1) THEN first ELSE NoRow
        BY <2>2
      <3>3. rows \in [Dispatches -> Row]
        BY <1>2, <1>3, <2>2
      <3> QED
        BY <1>2, <1>3, <3>1, <3>2, <3>3
    <2> QED
      BY <1>4, <2>1, <2>2
  <1>7. Idle \in Job /\ Idle.at = "idle"
    BY <1>5 DEF Idle, Job
  <1>8. Typed
    <2>1. capture \in [sha : Nat, bound : BOOLEAN] /\ capture.sha = 0
      BY <1>1 DEF NoCapture
    <2>2. job \in [Procs -> Job]
      BY <1>1, <1>7
    <2>3. head \in 0 .. MaxHead /\ retained \in 0 .. 1 /\ retained <= head /\ 0 <= head
      BY <1>4, BoundsAssumption
    <2> QED
      BY <1>1, <1>4, <1>5, <1>6, <2>1, <2>2, <2>3 DEF Typed, States, Closed
  <1>9. CandidateFacts /\ CurrentFacts /\ ReviewFacts /\ PromotionFacts
    BY <1>1 DEF CandidateFacts, CurrentFacts, ReviewFacts, PromotionFacts
  <1>10. AcceptedFacts
    BY <1>4 DEF AcceptedFacts
  <1>11. RowFacts
    BY <1>6 DEF RowFacts, Executor
  <1>12. JobFacts
    BY <1>1, <1>7 DEF JobFacts, JobFact
  <1>13. ArchitectureIsLate
    <2>1. \A g \in 1 .. 2 : <<"architecture", g>> # Executor(1)
      BY DEF Executor
    <2> QED
      BY <1>2, <1>6, <2>1 DEF ArchitectureIsLate
  <1> QED
    BY <1>8, <1>9, <1>10, <1>11, <1>12, <1>13 DEF Inv

(* Every step keeps it. *)
LEMMA InvNext == Inv /\ [Next]_vars => Inv'
  <1> SUFFICES ASSUME Inv, [Next]_vars PROVE Inv'
    OBVIOUS
  <1>1. CASE UNCHANGED vars
    <2>1. /\ UNCHANGED <<ms, facts, retained, head, dirty, capture, claims, rows, order, up>>
          /\ job' = job /\ scan' = scan
      BY <1>1 DEF vars
    <2>2. job' \in [Procs -> Job] /\ \A p \in Procs : job'[p] = job[p] \/ JobFact(p)'
      BY <2>1 DEF Inv, Typed
    <2> QED
      BY <2>1, <2>2, JobStep
  <1>2. CASE HarnessStep
    <2>1. CASE \E d \in Dispatches : RecordExecutor(d) \/ RecordReview(d) \/ Advance(d)
      BY <2>1, RecordExecutorKeeps, RecordReviewKeeps, AdvanceKeeps
    <2>2. CASE \E d \in Dispatches : IngestRecovered(d) \/ Repeat(d)
      BY <2>2, IngestRecoveredKeeps, RepeatKeeps
    <2>3. CASE QueueControlReviews("harness")
      BY <2>3, QueueControlReviewsKeeps DEF Procs
    <2>4. CASE ReapChildren
      BY <2>4, ReapChildrenKeeps
    <2>5. CASE Restart
      BY <2>5, RestartKeeps
    <2> QED
      BY <1>2, <2>1, <2>2, <2>3, <2>4, <2>5 DEF HarnessStep
  <1>3. CASE QueueControlReviews("operator")
    BY <1>3, QueueControlReviewsKeeps DEF Procs
  <1>4. CASE ReconcileControlExecution
    BY <1>4, ReconcileKeeps
  <1>5. CASE TurnCompleted
    BY <1>5, TurnCompletedKeeps
  <1>6. CASE \E d \in Dispatches : WorkerCommits(d) \/ SubmitResult(d) \/ WorkerDies(d)
    BY <1>6, WorkerCommitsKeeps, SubmitResultKeeps, WorkerDiesKeeps
  <1>7. CASE HarnessCrash \/ OperatorCrash \/ ForeignEdit
    BY <1>7, HarnessCrashKeeps, OperatorCrashKeeps, ForeignEditKeeps
  <1> QED
    BY <1>1, <1>2, <1>3, <1>4, <1>5, <1>6, <1>7 DEF Next

(* The log, the rows, the processes' jobs and the milestone agree with each   *)
(* other at every step: src/codex_flow/harness.py repeats what it reads in    *)
(* the log, and src/codex_flow/ledger.py's transactions keep the log right.   *)
THEOREM AcceptanceInvariant == Spec => []Inv
  <1>1. Init => Inv
    BY InitInv
  <1>2. Inv /\ [Next]_vars => Inv'
    BY InvNext
  <1> QED
    BY <1>1, <1>2, PTL DEF Spec

(* Type correctness: the facts name commits of the checkout, a row belongs to *)
(* a claimed dispatch, and the recovery scan repeats rows of the queue.       *)
THEOREM TypeCorrect == Spec => []TypeOK
  <1>1. Inv => TypeOK
    <2> SUFFICES ASSUME Inv PROVE TypeOK
      OBVIOUS
    <2>1. \A f \in Range(facts) : f.sha \in 0 .. head /\ f.gen \in 0 .. 2
      <3>1. SUFFICES ASSUME NEW i \in DOMAIN facts
                     PROVE  facts[i].sha \in 0 .. head /\ facts[i].gen \in 0 .. 2
        BY DEF Range
      <3>2. facts[i] \in FactRecord /\ facts[i].sha <= head /\ head \in Nat
        BY DEF Inv, Typed
      <3> QED
        BY <3>2 DEF FactRecord
    <2>2. \A d \in Dispatches : rows[d].state \in RowStates
      <3>1. \A d \in Dispatches : rows[d] \in Row
        BY DEF Inv, Typed
      <3> QED
        BY <3>1 DEF Row
    <2>3. \A d \in Dispatches : rows[d] # NoRow <=> d \in Range(order)
      BY DEF Inv, Typed, NoRow
    <2>4. \A p \in Procs : job[p].at \in {"idle", "record", "reviews", "advance"}
      <3>1. \A p \in Procs : job[p] \in Job
        BY DEF Inv, Typed
      <3> QED
        BY <3>1 DEF Job
    <2>5. scan \subseteq Range(order)
      BY DEF Inv, Typed, JobFacts
    <2>6. capture.sha \in 0 .. head /\ capture.bound \in BOOLEAN
      <3>1. capture \in [sha : Nat, bound : BOOLEAN] /\ capture.sha <= head /\ head \in Nat
        BY DEF Inv, Typed
      <3> QED
        BY <3>1
    <2> QED
      BY <2>1, <2>2, <2>3, <2>4, <2>5, <2>6 DEF TypeOK, RowStates, Inv, Typed
  <1> QED
    BY <1>1, AcceptanceInvariant, PTL

(* An accepted milestone was reviewed: one candidate, accepted by every      *)
(* declared authority in the generation that made it, no blocker, and a      *)
(* repair is the captured direct successor of the retained candidate.        *)
THEOREM AcceptedWasReviewed == Spec => []AcceptedIsReviewed
  <1>1. Inv => AcceptedIsReviewed
    <2> SUFFICES ASSUME Inv, ms = "ACCEPTED"
                 PROVE  LET c == CurrentSha
                            g == CandidateGeneration(c)
                        IN  /\ c # 0 /\ CandidateBlocker(c) = "none"
                            /\ \A r \in Roles : \E f \in Reviews(g, c) : f.by = r /\ f.says = "accept"
                            /\ ~\E f \in Reviews(g, c) : Blocking(f)
                            /\ g = 2 => c = retained + 1 /\ capture = [sha |-> c, bound |-> TRUE]
      BY DEF AcceptedIsReviewed
    <2>1. facts \in Seq(FactRecord) /\ CandidateFacts /\ ReviewFacts
      BY DEF Inv, Typed
    <2>2. PICK i \in DOMAIN facts :
            /\ Cand(i) /\ facts[i].blocker = "none" /\ facts[i].sha = CurrentSha
            /\ Good(facts[i].gen, facts[i].sha)
            /\ \A r \in Roles :
                /\ \E j \in DOMAIN facts : Review(j, r, i)
                /\ \A j \in DOMAIN facts : Review(j, r, i) => facts[j].says = "accept"
      BY DEF Inv, AcceptedFacts
    <2> DEFINE c == CurrentSha
               g == CandidateGeneration(c)
    <2>3. c # 0 /\ facts[i].sha # 0 /\ facts[i].sha = c
      BY <2>2 DEF Good
    <2>4. CandidateGeneration(facts[i].sha) = facts[i].gen /\ CandidateBlocker(facts[i].sha) = "none"
      BY <2>1, <2>2, <2>3, CandidateIs
    <2>5. g = facts[i].gen /\ CandidateBlocker(c) = "none"
      BY <2>3, <2>4
    <2> HIDE DEF c, g
    <2>6. \A r \in Roles : \E f \in Reviews(g, c) : f.by = r /\ f.says = "accept"
      <3>1. SUFFICES ASSUME NEW r \in Roles
                     PROVE  \E f \in Reviews(g, c) : f.by = r /\ f.says = "accept"
        OBVIOUS
      <3>2. PICK j \in DOMAIN facts : Review(j, r, i) /\ facts[j].says = "accept"
        BY <2>2
      <3>3. facts[j] \in Reviews(g, c) /\ facts[j].by = r
        BY <2>3, <2>5, <3>2 DEF Review, Reviews, Recorded, Range
      <3> QED
        BY <3>2, <3>3
    <2>7. ~\E f \in Reviews(g, c) : Blocking(f)
      <3>1. SUFFICES ASSUME NEW f \in Reviews(g, c) PROVE ~Blocking(f)
        OBVIOUS
      <3>2. PICK j \in DOMAIN facts : facts[j] = f /\ f.kind = "review_completed" /\ f.sha = c /\ f.gen = g
        BY DEF Reviews, Recorded, Range
      <3>3. f.by \in Roles
        BY <2>1, <3>2 DEF ReviewFacts
      <3>4. Review(j, f.by, i)
        BY <2>3, <2>5, <3>2 DEF Review
      <3> QED
        BY <2>2, <3>2, <3>3, <3>4 DEF Blocking
    <2>8. g = 2 => c = retained + 1 /\ capture = [sha |-> c, bound |-> TRUE]
      <3>1. SUFFICES ASSUME g = 2 PROVE c = retained + 1 /\ capture = [sha |-> c, bound |-> TRUE]
        OBVIOUS
      <3>2. c = retained + 1 /\ capture.sha = c /\ capture.bound
        BY <2>2, <2>3, <2>5, <3>1 DEF Good
      <3>3. capture \in [sha : Nat, bound : BOOLEAN]
        BY DEF Inv, Typed
      <3> QED
        BY <3>2, <3>3
    <2> QED
      BY <2>3, <2>5, <2>6, <2>7, <2>8 DEF c, g
  <1> QED
    BY <1>1, AcceptanceInvariant, PTL

(* Architecture is a late gate, also after a crash, a repeated result or a *)
(* repair: its dispatch follows the other authorities' accepting reviews of *)
(* the same commit.                                                         *)
THEOREM ArchitectureComesLate == Spec => []ArchitectureIsLate
  <1>1. Inv => ArchitectureIsLate
    BY DEF Inv
  <1> QED
    BY <1>1, AcceptanceInvariant, PTL

=============================================================================
