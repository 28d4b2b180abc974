---------------------------- MODULE MCExecutions ----------------------------
(* An instance of Executions for TLC.                                      *)
EXTENDS Executions

\* Two executions of one run in one checkout.
PairExecs == {"e1", "e2"}
PairWorkspaces == {"w"}
PairWs == [e \in PairExecs |-> "w"]
PairLane == [e \in PairExecs |-> "main"]
=============================================================================
