----------------------------- MODULE MCPrograms -----------------------------
(* Instances of Programs for TLC. *)
EXTENDS Programs

\* b is built on a; both are merged into the trunk.
ChainMilestones == {"a", "b"}
ChainMode == [m \in ChainMilestones |-> "git"]
ChainDeps == [m \in ChainMilestones |-> IF m = "b" THEN {"a"} ELSE {}]
ChainRoles == [m \in ChainMilestones |-> IF m = "a" THEN {"code", "visual"} ELSE {"code"}]

\* g is merged into the trunk; the evidence e is gathered on it.
MixedMilestones == {"e", "g"}
MixedMode == [m \in MixedMilestones |-> IF m = "e" THEN "evidence" ELSE "git"]
MixedDeps == [m \in MixedMilestones |-> IF m = "e" THEN {"g"} ELSE {}]
MixedRoles == [m \in MixedMilestones |-> IF m = "e" THEN {"code", "architecture"}
                                        ELSE {"code"}]
=============================================================================
