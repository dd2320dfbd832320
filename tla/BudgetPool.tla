------------------------------ MODULE BudgetPool ------------------------------
(***************************************************************************)
(* What the budget service promises of every budget, whoever calls it and  *)
(* however the calls overlap: money is booked on an active budget only,    *)
(* and only while it is there.  An administrator may change the allocation *)
(* and the status at any time; that alone can leave a budget overbooked.   *)
(***************************************************************************)
EXTENDS Integers

CONSTANTS Accounts, Statuses

VARIABLES
  allocation,   \* the money of every budget
  standing,     \* its status
  booked        \* the part of the money that is reserved or committed

PoolInit ==
  /\ allocation \in [Accounts -> Nat]
  /\ standing \in [Accounts -> Statuses]
  /\ booked = [b \in Accounts |-> 0]

Book(b) ==
  /\ booked'[b] > booked[b]
  /\ standing[b] = "active"
  /\ booked'[b] <= allocation[b]

Free(b) == booked'[b] <= booked[b]

Move(b) ==
  /\ Book(b) \/ Free(b)
  /\ \A c \in Accounts \ {b} : booked'[c] = booked[c]
  /\ booked' \in [Accounts -> Nat]
  /\ UNCHANGED <<allocation, standing>>

Adjust ==
  /\ allocation' \in [Accounts -> Nat]
  /\ standing' \in [Accounts -> Statuses]
  /\ UNCHANGED booked

PoolNext == (\E b \in Accounts : Move(b)) \/ Adjust

PoolSpec == PoolInit /\ [][PoolNext]_<<allocation, standing, booked>>
================================================================================
