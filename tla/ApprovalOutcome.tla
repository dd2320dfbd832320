---------------------------- MODULE ApprovalOutcome ----------------------------
(***************************************************************************)
(* What an approval promises to the requester (user guide, chapter 14,     *)
(* "Hasil approval"): the steps of the workflow are passed in their order, *)
(* passing the last one approves the request in the same moment, and a     *)
(* refusal at any time before ends it for good.                            *)
(***************************************************************************)
EXTENDS Naturals

CONSTANT MaxStep            \* the largest step order (bound)

VARIABLES
  steps,    \* the orders of the steps the request has to pass
  passed,   \* those it has passed
  outcome   \* "open" until the approval ends

Refusals == {"rejected", "returned", "cancelled"}

OutcomeInit ==
  /\ steps \in (SUBSET (1..MaxStep)) \ {{}}
  /\ passed = {}
  /\ outcome = "open"

Pass(k) ==
  /\ outcome = "open"
  /\ k \in steps \ passed
  /\ \A j \in steps : j < k => j \in passed
  /\ passed' = passed \cup {k}
  /\ outcome' = IF passed' = steps THEN "approved" ELSE "open"
  /\ UNCHANGED steps

End(refusal) ==
  /\ outcome = "open"
  /\ outcome' = refusal
  /\ UNCHANGED <<steps, passed>>

OutcomeNext == \/ \E k \in steps : Pass(k)
               \/ \E refusal \in Refusals : End(refusal)

OutcomeSpec == OutcomeInit /\ [][OutcomeNext]_<<steps, passed, outcome>>
================================================================================
