--------------------------- MODULE ReviewedTrunk ---------------------------
(***************************************************************************)
(* What a program promises of its trunk.                                   *)
(*                                                                         *)
(* A program is a set of milestones that depend on one another.  Reviewers *)
(* give verdicts on the subjects (commits or evidence snapshots) that are  *)
(* produced for a milestone.  A subject is approved when every reviewer    *)
(* the milestone declares has accepted it and none has objected, and the   *)
(* milestones it depends on have been delivered.  Only an approved commit  *)
(* enters the trunk, and a milestone enters it once.                       *)
(*                                                                         *)
(* Nothing is said here about controllers, bundles, crashes or workers:    *)
(* module Programs implements this specification.                          *)
(***************************************************************************)
EXTENDS Naturals, Sequences

CONSTANTS
    Milestones,
    GitMilestones,   \* the milestones whose result is merged into the trunk
    Deps,            \* Deps[m]: the milestones m depends on
    Roles,           \* Roles[m]: the reviewer roles m declares
    Subjects,        \* names of the subjects of one milestone
    Others           \* commits of others than the program

VARIABLES
    verdicts,        \* the verdicts given: <<m, s, role, accepted, blocking>>
    approved,        \* the approved subjects: <<m, s>>
    trunk            \* the commits on the trunk, in order

vars == <<verdicts, approved, trunk>>

Commits == GitMilestones \X Subjects

OnTrunk(m) == \E i \in 1..Len(trunk), s \in Subjects : trunk[i] = <<m, s>>

Delivered(m) ==
    IF m \in GitMilestones THEN OnTrunk(m)
    ELSE \E s \in Subjects : <<m, s>> \in approved

Endorsed(m, s) ==
    /\ \A r \in Roles[m] :
          \E v \in verdicts : v[1] = m /\ v[2] = s /\ v[3] = r /\ v[4]
    /\ \A v \in verdicts : v[1] = m /\ v[2] = s => ~v[5]

Init ==
    /\ verdicts = {}
    /\ approved = {}
    /\ trunk = <<>>

Judge(v) ==
    /\ verdicts' = verdicts \union {v}
    /\ UNCHANGED <<approved, trunk>>

Approve(m, s) ==
    /\ Endorsed(m, s)
    /\ \A d \in Deps[m] : Delivered(d)
    /\ approved' = approved \union {<<m, s>>}
    /\ UNCHANGED <<verdicts, trunk>>

Merge(m, s) ==
    /\ m \in GitMilestones
    /\ <<m, s>> \in approved
    /\ ~OnTrunk(m)
    /\ trunk' = Append(trunk, <<m, s>>)
    /\ UNCHANGED <<verdicts, approved>>

\* Others commit to the same trunk.
Other(c) ==
    /\ c \notin Commits
    /\ trunk' = Append(trunk, c)
    /\ UNCHANGED <<verdicts, approved>>

Next ==
    \/ \E m \in Milestones, s \in Subjects, a, b \in BOOLEAN :
          \E r \in Roles[m] : Judge(<<m, s, r, a, b>>)
    \/ \E m \in Milestones, s \in Subjects : Approve(m, s) \/ Merge(m, s)
    \/ \E c \in Others : Other(c)

Spec == Init /\ [][Next]_vars

----------------------------------------------------------------------------
(* What follows from the promise *)

TypeOK ==
    /\ approved \subseteq Milestones \X Subjects
    /\ trunk \in Seq(Commits \union Others)

(* No milestone is merged twice.                                           *)
MergedOnce ==
    \A i, j \in 1..Len(trunk), m \in GitMilestones, s, t \in Subjects :
        trunk[i] = <<m, s>> /\ trunk[j] = <<m, t>> => i = j

\* Delivered when position i of the trunk was filled.
DeliveredBefore(m, i) ==
    IF m \in GitMilestones
    THEN \E j \in 1..(i - 1), s \in Subjects : trunk[j] = <<m, s>>
    ELSE \E s \in Subjects : <<m, s>> \in approved

(* Everything the program put on the trunk was approved, and so was        *)
(* delivered after what it depends on: a Git dependency stands earlier on  *)
(* the trunk.                                                              *)
TrunkInOrder ==
    \A i \in 1..Len(trunk), m \in GitMilestones, s \in Subjects :
        trunk[i] = <<m, s>> =>
            /\ <<m, s>> \in approved
            /\ \A d \in Deps[m] : DeliveredBefore(d, i)
=============================================================================
