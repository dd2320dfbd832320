---------------------------- MODULE MCBudgetLedger ----------------------------
(* Small instances of BudgetLedger for TLC.                                  *)
EXTENDS BudgetLedger, TLC

CONSTANTS b1, r1, r2, p1, p2

MCAllocations == {1, 3}
(* Both requests charge the same budget.                                     *)
MCOneBudget == [r \in Requests |-> {b1}]

Symmetric == Permutations(Requests) \cup Permutations(Sessions)
=============================================================================
