------------------------ MODULE ReviewedTrunkProofs -------------------------
(***************************************************************************)
(* Proofs about ReviewedTrunk, for any milestones, dependencies, reviewers  *)
(* and subjects.  Module Programs implements ReviewedTrunk, so what is      *)
(* proved here is what a program promises of the trunk it builds.           *)
(*                                                                         *)
(* TrunkInOrder is not inductive: that a dependency stands on the trunk     *)
(* when its dependent is merged was established earlier, at the approval.   *)
(* The strengthening is Ready, which keeps that fact for every approved     *)
(* subject, merged or not.                                                 *)
(***************************************************************************)
EXTENDS ReviewedTrunk, TLAPS

\* What an approved subject depends on stays delivered.
Ready ==
    \A m \in Milestones, s \in Subjects :
        <<m, s>> \in approved => \A d \in Deps[m] : Delivered(d)

Inv == TypeOK /\ MergedOnce /\ TrunkInOrder /\ Ready

(* The empty program satisfies the invariant. *)
LEMMA InitInv == Init => Inv
  BY DEF Init, Inv, TypeOK, MergedOnce, TrunkInOrder, Ready

(* What was delivered before stays so while the trunk grows.               *)
LEMMA StaysBefore ==
    ASSUME approved \subseteq approved', NEW i \in 1..Len(trunk),
           Len(trunk) \in Nat,
           \A j \in 1..Len(trunk) : trunk'[j] = trunk[j],
           NEW d, DeliveredBefore(d, i)
    PROVE  DeliveredBefore(d, i)'
  <1>1. \A j \in 1..(i - 1) : trunk'[j] = trunk[j]
    OBVIOUS
  <1> QED
    BY <1>1 DEF DeliveredBefore

(* A verdict changes nothing the invariant speaks of.                      *)
LEMMA JudgeStep ==
    ASSUME Inv, UNCHANGED <<approved, trunk>>
    PROVE  Inv'
  <1>1. TypeOK' /\ MergedOnce'
    BY DEF Inv, TypeOK, MergedOnce
  <1>2. \A d, i : DeliveredBefore(d, i)' = DeliveredBefore(d, i)
    BY DEF DeliveredBefore
  <1>3. \A d : Delivered(d)' = Delivered(d)
    BY DEF Delivered, OnTrunk
  <1>4. TrunkInOrder'
    BY <1>2 DEF Inv, TrunkInOrder
  <1>5. Ready'
    BY <1>3 DEF Inv, Ready
  <1> QED
    BY <1>1, <1>4, <1>5 DEF Inv

(* Approvals are never taken back, so what was delivered stays so.         *)
LEMMA ApproveStep ==
    ASSUME Inv, NEW m \in Milestones, NEW s \in Subjects, Approve(m, s)
    PROVE  Inv'
  <1>1. approved' = approved \union {<<m, s>>} /\ trunk' = trunk
    BY DEF Approve
  <1>2. \A d : Delivered(d) => Delivered(d)'
    BY <1>1 DEF Delivered, OnTrunk
  <1>3. TypeOK' /\ MergedOnce'
    BY <1>1 DEF Inv, TypeOK, MergedOnce
  <1>4. TrunkInOrder'
    <2>1. \A d, i : DeliveredBefore(d, i) => DeliveredBefore(d, i)'
      BY <1>1 DEF DeliveredBefore
    <2> QED
      BY <1>1, <2>1 DEF Inv, TrunkInOrder
  <1>5. Ready'
    <2>1. \A d \in Deps[m] : Delivered(d)'
      BY <1>2 DEF Approve
    <2> SUFFICES ASSUME NEW n \in Milestones, NEW t \in Subjects,
                        <<n, t>> \in approved', NEW d \in Deps[n]
                 PROVE  Delivered(d)'
      BY DEF Ready
    <2>2. CASE <<n, t>> = <<m, s>>
      BY <2>1, <2>2
    <2>3. CASE <<n, t>> \in approved
      BY <1>2, <2>3 DEF Inv, Ready
    <2> QED
      BY <1>1, <2>2, <2>3
  <1> QED
    BY <1>3, <1>4, <1>5 DEF Inv

(* The trunk grows by one commit at its end.                               *)
LEMMA Grown ==
    ASSUME Inv, NEW c \in Commits \union Others, trunk' = Append(trunk, c),
           UNCHANGED approved
    PROVE  /\ TypeOK'
           /\ Len(trunk') = Len(trunk) + 1 /\ Len(trunk) \in Nat
           /\ \A i \in 1..Len(trunk) : trunk'[i] = trunk[i]
           /\ trunk'[Len(trunk) + 1] = c
           /\ \A d : Delivered(d) => Delivered(d)'
           /\ Ready'
  <1>1. trunk \in Seq(Commits \union Others)
    BY DEF Inv, TypeOK
  <1>2. /\ Len(trunk') = Len(trunk) + 1 /\ Len(trunk) \in Nat
        /\ \A i \in 1..Len(trunk) : trunk'[i] = trunk[i]
        /\ trunk'[Len(trunk) + 1] = c
        /\ trunk' \in Seq(Commits \union Others)
    BY <1>1
  <1>3. TypeOK'
    BY <1>2 DEF Inv, TypeOK
  <1>4. \A d : Delivered(d) => Delivered(d)'
    BY <1>2 DEF Delivered, OnTrunk
  <1>5. Ready'
    BY <1>4 DEF Inv, Ready
  <1> QED
    BY <1>2, <1>3, <1>4, <1>5

(* A merge appends one commit of a milestone that has none on the trunk.   *)
LEMMA MergeStep ==
    ASSUME Inv, NEW m \in Milestones, NEW s \in Subjects, Merge(m, s)
    PROVE  Inv'
  <1> DEFINE n == Len(trunk)
  <1>1. /\ m \in GitMilestones /\ <<m, s>> \in approved /\ ~OnTrunk(m)
        /\ trunk' = Append(trunk, <<m, s>>) /\ approved' = approved
        /\ <<m, s>> \in Commits
    BY DEF Merge, Commits
  <1>2. /\ TypeOK' /\ Ready'
        /\ Len(trunk') = n + 1 /\ n \in Nat
        /\ \A i \in 1..n : trunk'[i] = trunk[i]
        /\ trunk'[n + 1] = <<m, s>>
    BY <1>1, Grown
  <1>3. MergedOnce'
    <2>1. \A i \in 1..n, t \in Subjects : trunk'[i] # <<m, t>>
      BY <1>1, <1>2 DEF OnTrunk
    <2> SUFFICES ASSUME NEW i \in 1..(n + 1), NEW j \in 1..(n + 1),
                        NEW x \in GitMilestones,
                        NEW t \in Subjects, NEW u \in Subjects,
                        trunk'[i] = <<x, t>>, trunk'[j] = <<x, u>>
                 PROVE  i = j
      BY <1>2 DEF MergedOnce
    <2>2. CASE i \in 1..n /\ j \in 1..n
      BY <1>2, <2>2 DEF Inv, MergedOnce
    <2>3. CASE i = n + 1 \/ j = n + 1
      BY <1>2, <2>1, <2>3
    <2> QED
      BY <1>2, <2>2, <2>3
  <1>4. TrunkInOrder'
    <2> SUFFICES ASSUME NEW i \in 1..(n + 1), NEW x \in GitMilestones,
                        NEW t \in Subjects, trunk'[i] = <<x, t>>
                 PROVE  /\ <<x, t>> \in approved'
                        /\ \A d \in Deps[x] : DeliveredBefore(d, i)'
      BY <1>2 DEF TrunkInOrder
    <2>1. CASE i \in 1..n
      <3>1. trunk[i] = <<x, t>>
        BY <1>2, <2>1
      <3>2. <<x, t>> \in approved /\ \A d \in Deps[x] : DeliveredBefore(d, i)
        BY <2>1, <3>1 DEF Inv, TrunkInOrder
      <3> QED
        BY <1>1, <1>2, <2>1, <3>2, StaysBefore
    <2>2. CASE i = n + 1
      <3>1. x = m /\ t = s
        BY <1>2, <2>2
      <3>2. \A d \in Deps[m] : Delivered(d)
        BY <1>1 DEF Inv, Ready
      <3>3. \A d : Delivered(d) => DeliveredBefore(d, i)'
        <4>1. 1..(i - 1) = 1..n
          BY <1>2, <2>2
        <4>2. \A d : OnTrunk(d) =>
                  \E j \in 1..(i - 1), u \in Subjects : trunk'[j] = <<d, u>>
          BY <1>2, <4>1 DEF OnTrunk
        <4> QED
          BY <1>1, <4>2 DEF Delivered, DeliveredBefore
      <3> QED
        BY <1>1, <3>1, <3>2, <3>3
    <2>3. i \in 1..n \/ i = n + 1
      BY <1>2
    <2> QED
      BY <2>1, <2>2, <2>3
  <1> QED
    BY <1>2, <1>3, <1>4 DEF Inv

(* A commit of somebody else is none of the program's.                     *)
LEMMA OtherStep ==
    ASSUME Inv, NEW c \in Others, Other(c)
    PROVE  Inv'
  <1> DEFINE n == Len(trunk)
  <1>1. /\ c \notin Commits /\ trunk' = Append(trunk, c) /\ approved' = approved
    BY DEF Other
  <1>2. /\ TypeOK' /\ Ready'
        /\ Len(trunk') = n + 1 /\ n \in Nat
        /\ \A i \in 1..n : trunk'[i] = trunk[i]
        /\ trunk'[n + 1] = c
    BY <1>1, Grown
  <1>3. \A i \in 1..(n + 1), m \in GitMilestones, s \in Subjects :
            trunk'[i] = <<m, s>> => i \in 1..n /\ trunk[i] = <<m, s>>
    <2> SUFFICES ASSUME NEW i \in 1..(n + 1), NEW m \in GitMilestones,
                        NEW s \in Subjects, trunk'[i] = <<m, s>>
                 PROVE  i \in 1..n /\ trunk[i] = <<m, s>>
      OBVIOUS
    <2>1. <<m, s>> \in Commits
      BY DEF Commits
    <2>2. i # n + 1
      BY <1>1, <1>2, <2>1
    <2> QED
      BY <1>2, <2>2
  <1>4. MergedOnce'
    BY <1>2, <1>3 DEF Inv, MergedOnce
  <1>5. TrunkInOrder'
    <2> SUFFICES ASSUME NEW i \in 1..n, NEW m \in GitMilestones,
                        NEW s \in Subjects, trunk[i] = <<m, s>>
                 PROVE  /\ <<m, s>> \in approved'
                        /\ \A d \in Deps[m] : DeliveredBefore(d, i)'
      BY <1>2, <1>3 DEF TrunkInOrder
    <2>1. <<m, s>> \in approved /\ \A d \in Deps[m] : DeliveredBefore(d, i)
      BY DEF Inv, TrunkInOrder
    <2> QED
      BY <1>1, <1>2, <2>1, StaysBefore
  <1> QED
    BY <1>2, <1>4, <1>5 DEF Inv

(* The invariant is inductive. *)
LEMMA NextInv == Inv /\ [Next]_vars => Inv'
  <1> SUFFICES ASSUME Inv, [Next]_vars PROVE Inv'
    OBVIOUS
  <1>1. CASE \E m \in Milestones, s \in Subjects, a, b \in BOOLEAN :
                \E r \in Roles[m] : Judge(<<m, s, r, a, b>>)
    BY <1>1, JudgeStep DEF Judge
  <1>2. ASSUME NEW m \in Milestones, NEW s \in Subjects,
               Approve(m, s) \/ Merge(m, s)
        PROVE  Inv'
    BY <1>2, ApproveStep, MergeStep
  <1>3. CASE \E c \in Others : Other(c)
    BY <1>3, OtherStep
  <1>4. CASE UNCHANGED vars
    BY <1>4, JudgeStep DEF vars
  <1> QED
    BY <1>1, <1>2, <1>3, <1>4 DEF Next

(* The inductive invariant of the abstract program, for every set of milestones, roles and
   dependencies. *)
THEOREM TrunkInvariant == Spec => []Inv
  BY InitInv, NextInv, PTL DEF Spec

(* What is approved and merged are subjects of the program's milestones.   *)
THEOREM TrunkTyped == Spec => []TypeOK
  <1>1. Inv => TypeOK
    BY DEF Inv
  <1> QED
    BY <1>1, TrunkInvariant, PTL

(* No milestone is merged twice, however often its effect is replayed.     *)
THEOREM TrunkMergedOnce == Spec => []MergedOnce
  <1>1. Inv => MergedOnce
    BY DEF Inv
  <1> QED
    BY <1>1, TrunkInvariant, PTL

(* Only approved commits are on the trunk, after all they depend on.       *)
THEOREM TrunkOrdered == Spec => []TrunkInOrder
  <1>1. Inv => TrunkInOrder
    BY DEF Inv
  <1> QED
    BY <1>1, TrunkInvariant, PTL
=============================================================================
