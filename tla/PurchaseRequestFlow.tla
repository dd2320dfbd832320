-------------------------- MODULE PurchaseRequestFlow --------------------------
(***************************************************************************)
(* The life of a purchase request as its users see it: it is corrected     *)
(* while it is open, amended while procurement reviews it, and stands as   *)
(* it is from the moment it is handed to its approvers.                    *)
(***************************************************************************)
CONSTANT Matter     \* what is requested

VARIABLES phase, matter

Over == {"approved", "rejected", "cancelled", "deleted"}
Phases == {"open", "review", "approval"} \cup Over

FlowInit == phase = "open" /\ matter \in Matter

Go(from, to) == phase = from /\ phase' = to /\ UNCHANGED matter

Correct == phase \in {"open", "review"} /\ matter' \in Matter /\ UNCHANGED phase

Submit == Go("open", "review") \/ Go("open", "approval")
HandBack == Go("review", "open") \/ Go("approval", "open")
HandOver == Go("review", "approval")
Withdraw == Go("review", "cancelled") \/ Go("open", "deleted")
Decide == \E outcome \in Over \ {"deleted"} : Go("approval", outcome)

FlowNext == Correct \/ Submit \/ HandBack \/ HandOver \/ Withdraw \/ Decide

FlowSpec == FlowInit /\ [][FlowNext]_<<phase, matter>>
================================================================================
