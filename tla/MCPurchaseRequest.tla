--------------------------- MODULE MCPurchaseRequest ---------------------------
(* Small instances of PurchaseRequest for TLC.                               *)
EXTENDS PurchaseRequest, TLC

CONSTANTS small, large, travel, p1, p2, p3, i1, i2, i3

MCContents == {small, large, travel}

(* An administrator's workflows, whose stages have names of their own; that  *)
(* of the category travel is not the standard one.                           *)
MCOwnStages ==
  small  :> <<"finance_approval">> @@
  large  :> <<"finance_approval", "director_approval">> @@
  travel :> <<"manager_approval">>

(* The standard workflow as it is seeded; large is approved by one more.     *)
MCSeededStages ==
  small  :> <<"procurement_review", "finance_approval">> @@
  large  :> <<"procurement_review", "finance_approval", "director_approval">> @@
  travel :> <<>>

Symmetric == Permutations(Sessions) \cup Permutations(Instances)
================================================================================
