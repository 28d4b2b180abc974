-------------------------- MODULE MCDispatchLedger --------------------------
(* Small instances of DispatchLedger for TLC.                              *)
EXTENDS DispatchLedger

(* One retry of each class but schema_envelope, which is retried in place  *)
(* like invalid_response_chain, without the fresh thread.                  *)
OneRetry ==
    [c \in RetryClasses |-> IF c = "schema_envelope" THEN 0 ELSE 1]
=============================================================================
