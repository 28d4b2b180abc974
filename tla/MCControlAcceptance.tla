-------------------------- MODULE MCControlAcceptance --------------------------
(***************************************************************************)
(* Instances of ControlAcceptance for the model checker, and what the      *)
(* repository says of it that the code does not do.                        *)
(***************************************************************************)
EXTENDS ControlAcceptance

BothModes == {"objective", "architecture"}
OneMode == {"objective"}

(* ledger.py:12549 "Retain one exact ordinary-control authority review        *)
(* idempotently" and harness.py:6012 "A crash may have occurred after queue   *)
(* terminalization but before the event-driven program projection was         *)
(* recorded": to repeat a review that is recorded already changes nothing, so *)
(* a repeat never closes a milestone whose checkout nobody touched.           *)
RepeatedReviewChangesNothing ==
    [][\A d \in Dispatches :
        /\ job["harness"].at = "record" /\ job["harness"].d = d
        /\ \E f \in Recorded("review_completed") : f.by = d[1] /\ f.gen = d[2]
        => UNCHANGED ms]_vars

(* README.md:287-293 "Architecture is a late promotion gate: it is dispatched  *)
(* only after every declared non-architecture authority is green on the exact  *)
(* candidate.  A repair after an architecture finding creates a successor that *)
(* must regain those earlier approvals before architecture re-review": green    *)
(* earlier reviews of an untouched candidate lead to the architecture dispatch, *)
(* never to a rejected result.                                                  *)
GreenReachesArchitecture ==
    [][\A d \in Dispatches :
        /\ job["harness"].at = "advance" /\ job["harness"].d = d /\ ms = "REVIEWING"
        /\ Verdict(d[2], rows[d].sha) = "architecture"
        => ms' = "REVIEWING"]_vars

=============================================================================
