-------------------------- MODULE MCControlCommands --------------------------
(***************************************************************************)
(* The instance of ControlCommands for the model checker.                  *)
(***************************************************************************)
EXTENDS ControlCommands

=============================================================================
