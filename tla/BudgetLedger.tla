------------------------------ MODULE BudgetLedger ------------------------------
(***************************************************************************)
(* The reservations that approved purchase requests hold on budgets        *)
(* (BudgetReservationService).  Every operation runs in one database       *)
(* transaction that locks the budget's row and the reservation's row -     *)
(* reserve in that order, the other four in the opposite one - reads the   *)
(* sum of the reservations, decides, writes the reservation and commits.   *)
(* The budget's row itself is edited by an administrator (BudgetResource), *)
(* with no regard to the reservations.                                     *)
(*                                                                         *)
(* Money is counted in units; the sum of the reservations is the number of *)
(* the units they hold.                                                    *)
(***************************************************************************)
EXTENDS Integers, FiniteSets

CONSTANTS
  Budgets,
  Requests,       \* approved purchase requests that charge a cost centre
  BudgetsOf,      \* BudgetsOf[r]: the budgets r resolves to, one a year
  Sessions,       \* database sessions in which the service is called
  MaxAmount,      \* largest amount of a reservation (bound)
  Allocations     \* the amounts a budget is given

Amounts == 1..MaxAmount

ASSUME LedgerAssumption ==
  /\ Budgets # {} /\ Requests # {} /\ Allocations # {}
  /\ IsFiniteSet(Requests)
  /\ BudgetsOf \in [Requests -> SUBSET Budgets]
  /\ MaxAmount \in Nat
  /\ Allocations \subseteq Nat

VARIABLES
  budget,   \* the budgets' rows
  row,      \* the reservations' rows, one for a budget and a request
  tx        \* the transaction of every session

vars == <<budget, row, tx>>

BudgetStatus == {"active", "closed", "draft"}
Budget == [amount: Allocations, status: BudgetStatus]

Available == {"reserved", "committed"}
Reservation == [status: Available \cup {"absent", "released", "cancelled"},
                amount: Amounts \cup {0}]
NoRow == [status |-> "absent", amount |-> 0]

Ops == {"reserve", "release", "cancel", "revise", "commit"}

(* A transaction: the call and its arguments, the rows it has locked, the  *)
(* copies it loaded when it locked them, and the available amount once it  *)
(* has been read.                                                          *)
Tx == [op: Ops \cup {"none"}, on: Budgets \X Requests, amount: Amounts \cup {0},
       held: SUBSET {"budget", "row"}, account: Budget, now: Reservation,
       read: BOOLEAN, seen: Int]

(***************************************************************************)
(* The sum of the reservations, and what is left.                          *)
(***************************************************************************)
Share(reservation) ==
  IF reservation.status \in Available THEN reservation.amount ELSE 0
Units(b) == {u \in Requests \X Amounts : u[2] <= Share(row[<<b, u[1]>>])}
Booked(b) == Cardinality(Units(b))

AvailableAmount(account, booked) ==
  IF account.status = "active" THEN account.amount - booked ELSE 0

(***************************************************************************)
(* Locks.                                                                  *)
(***************************************************************************)
HoldsBudget(p, b) == "budget" \in tx[p].held /\ tx[p].on[1] = b
HoldsRow(p, k) == "row" \in tx[p].held /\ tx[p].on = k
BudgetFree(p, b) == \A q \in Sessions \ {p} : ~HoldsBudget(q, b)
RowFree(p, k) == \A q \in Sessions \ {p} : ~HoldsRow(q, k)

WantsBudgetFirst(p) ==                                 \* mutation of WantsBudget
  /\ tx[p].op # "none" /\ "budget" \notin tx[p].held
  /\ tx[p].op \in {"reserve", "cancel"} \/ "row" \in tx[p].held
WantsBudget(p) == /\ tx[p].op # "none" /\ "budget" \notin tx[p].held
                  /\ tx[p].op = "reserve" \/ "row" \in tx[p].held
WantsRow(p) == /\ tx[p].op # "none" /\ "row" \notin tx[p].held
               /\ tx[p].op # "reserve" \/ "budget" \in tx[p].held

NoBudget == [amount |-> CHOOSE n \in Allocations : TRUE, status |-> "draft"]
IdleTx == [op |-> "none", on |-> CHOOSE k \in Budgets \X Requests : TRUE,
           amount |-> 0, held |-> {}, account |-> NoBudget, now |-> NoRow,
           read |-> FALSE, seen |-> 0]

Init ==
  /\ budget \in [Budgets -> Budget]
  /\ row = [k \in Budgets \X Requests |-> NoRow]
  /\ tx = [p \in Sessions |-> IdleTx]

(***************************************************************************)
(* The calls.  reserve looks for an active budget before its transaction   *)
(* starts; the others are given a reservation that exists.                 *)
(***************************************************************************)
Reserve(p, b, r, a) ==
  /\ tx[p].op = "none"
  /\ b \in BudgetsOf[r]
  /\ budget[b].status = "active"
  /\ tx' = [tx EXCEPT ![p] = [@ EXCEPT !.op = "reserve", !.on = <<b, r>>, !.amount = a]]
  /\ UNCHANGED <<budget, row>>

Call(p, op, k, a) ==
  /\ tx[p].op = "none"
  /\ row[k].status # "absent"
  /\ tx' = [tx EXCEPT ![p] = [@ EXCEPT !.op = op, !.on = k, !.amount = a]]
  /\ UNCHANGED <<budget, row>>

(* lockForUpdate waits for the row and loads what was committed last.      *)
LockBudgetUnguarded(p) ==                              \* mutation of LockBudget
  /\ WantsBudget(p)
  /\ tx' = [tx EXCEPT ![p] = [@ EXCEPT
       !.held = tx[p].held \cup {"budget"}, !.account = budget[tx[p].on[1]]]]
  /\ UNCHANGED <<budget, row>>
LockBudget(p) ==
  /\ WantsBudget(p)
  /\ BudgetFree(p, tx[p].on[1])
  /\ tx' = [tx EXCEPT ![p] = [@ EXCEPT
       !.held = tx[p].held \cup {"budget"}, !.account = budget[tx[p].on[1]]]]
  /\ UNCHANGED <<budget, row>>

LockRowUnguarded(p) ==                                 \* mutation of LockRow
  /\ WantsRow(p)
  /\ tx' = [tx EXCEPT ![p] = [@ EXCEPT
       !.held = tx[p].held \cup {"row"}, !.now = row[tx[p].on]]]
  /\ UNCHANGED <<budget, row>>
LockRow(p) ==
  /\ WantsRow(p)
  /\ RowFree(p, tx[p].on)
  /\ tx' = [tx EXCEPT ![p] = [@ EXCEPT
       !.held = tx[p].held \cup {"row"}, !.now = row[tx[p].on]]]
  /\ UNCHANGED <<budget, row>>

(* availableAmount: the sum is read once both rows are locked.             *)
Locked(p) == tx[p].held = {"budget", "row"}
Sums == {"reserve", "revise"}
Read(p) ==
  /\ Locked(p)
  /\ tx[p].op \in Sums
  /\ ~tx[p].read
  /\ tx' = [tx EXCEPT ![p] = [@ EXCEPT
       !.read = TRUE, !.seen = AvailableAmount(tx[p].account, Booked(tx[p].on[1]))]]
  /\ UNCHANGED <<budget, row>>

(* What each operation asks of the row and of the available amount, given  *)
(* the row it loaded ...                                                   *)
Revisable(now, a, available) ==
  now.status = "reserved" /\ a <= available + now.amount
AcceptedOnOwnMoney(op, now, a, available) ==            \* mutation of Accepted
  \/ op = "reserve" /\ a <= available + now.amount
  \/ op = "revise" /\ Revisable(now, a, available)
  \/ op = "release" /\ now.status # "cancelled"
  \/ op = "cancel" /\ now.status # "released"
  \/ op = "commit" /\ now.status = "reserved"
Accepted(op, now, a, available) ==
  \/ /\ op = "reserve" /\ now.status \in Available
     /\ now.amount = a \/ Revisable(now, a, available)
  \/ op = "reserve" /\ now.status \notin Available /\ a <= available
  \/ op = "revise" /\ Revisable(now, a, available)
  \/ op = "release" /\ now.status # "cancelled"
  \/ op = "cancel" /\ now.status # "released"
  \/ op = "commit" /\ now.status = "reserved"

(* ... and what it makes of it.                                            *)
StatusAfter(op, now) ==
  CASE op = "reserve" -> IF now.status \in Available THEN now.status ELSE "reserved"
    [] op = "release" -> "released"
    [] op = "cancel"  -> "cancelled"
    [] op = "commit"  -> "committed"
    [] OTHER          -> now.status
AmountWithheld(op, now, a) ==                           \* mutation of AmountAfter
  IF op \in Sums THEN a - now.amount ELSE now.amount
AmountAfter(op, now, a) == IF op \in Sums THEN a ELSE now.amount

Ready(p) == Locked(p) /\ (tx[p].op \in Sums => tx[p].read)
Granted(p) == Accepted(tx[p].op, tx[p].now, tx[p].amount, tx[p].seen)
Written(p) == [status |-> StatusAfter(tx[p].op, tx[p].now),
               amount |-> AmountAfter(tx[p].op, tx[p].now, tx[p].amount)]

Commit(p) ==
  /\ Ready(p)
  /\ Granted(p)
  /\ row' = [row EXCEPT ![tx[p].on] = Written(p)]
  /\ tx' = [tx EXCEPT ![p] = IdleTx]
  /\ UNCHANGED budget

Rollback(p) == tx' = [tx EXCEPT ![p] = IdleTx] /\ UNCHANGED <<budget, row>>

Refuse(p) == Ready(p) /\ ~Granted(p) /\ Rollback(p)

(* The database ends one of two transactions that wait for each other.     *)
WaitsFor(p, q) ==
  \/ WantsBudget(p) /\ p # q /\ HoldsBudget(q, tx[p].on[1])
  \/ WantsRow(p) /\ p # q /\ HoldsRow(q, tx[p].on)
DeadlockAbort(p) ==
  /\ \E q \in Sessions : WaitsFor(p, q) /\ WaitsFor(q, p)
  /\ Rollback(p)

(* An administrator saves another amount or status: one UPDATE, which      *)
(* waits while the row is locked.                                          *)
Edit(b, edited) ==
  /\ \A q \in Sessions : ~HoldsBudget(q, b)
  /\ budget' = [budget EXCEPT ![b] = edited]
  /\ UNCHANGED <<row, tx>>

(***************************************************************************)
(* The specification.                                                      *)
(***************************************************************************)
Next ==
  \/ \E p \in Sessions :
       \/ \E b \in Budgets, r \in Requests, a \in Amounts : Reserve(p, b, r, a)
       \/ \E k \in Budgets \X Requests :
            \/ \E a \in Amounts : Call(p, "revise", k, a)
            \/ \E op \in {"release", "cancel", "commit"} : Call(p, op, k, 0)
       \/ LockBudget(p) \/ LockRow(p) \/ Read(p)
       \/ Commit(p) \/ Refuse(p) \/ DeadlockAbort(p)
  \/ \E b \in Budgets, edited \in Budget : Edit(b, edited)

Spec == Init /\ [][Next]_vars

(***************************************************************************)
(* Properties.                                                             *)
(***************************************************************************)
(* Rows hold what the migration allows, transactions what they loaded.     *)
TypeOK ==
  /\ budget \in [Budgets -> Budget]
  /\ row \in [Budgets \X Requests -> Reservation]
  /\ tx \in [Sessions -> Tx]

(* What a transaction decides on is still so when it writes: the rows it   *)
(* loaded when it locked them, and the sum it read without locking the     *)
(* other reservations of the budget.                                       *)
DecidesOnCurrent ==
  \A p \in Sessions :
    /\ "budget" \in tx[p].held => tx[p].account = budget[tx[p].on[1]]
    /\ "row" \in tx[p].held => tx[p].now = row[tx[p].on]
    /\ tx[p].read => tx[p].seen = AvailableAmount(budget[tx[p].on[1]], Booked(tx[p].on[1]))

(* The amount of a committed reservation never changes, whichever revision *)
(* or re-reservation overlaps with the commitment.                         *)
CommittedIsFixed ==
  [][\A k \in Budgets \X Requests :
       row[k].status = "committed" => row'[k].amount = row[k].amount]_vars

(* However calls and edits overlap, no call books money that is not there  *)
(* (test_sequential_concurrent_reservation_attempts_cannot_overallocate_   *)
(* budget tries two calls, one after the other).                           *)
Pool == INSTANCE BudgetPool WITH
  Accounts <- Budgets, Statuses <- BudgetStatus,
  allocation <- [b \in Budgets |-> budget[b].amount],
  standing <- [b \in Budgets |-> budget[b].status],
  booked <- [b \in Budgets |-> Booked(b)]
ImplementsPool == Pool!PoolSpec

(* reserve takes the two locks in one order and the other operations in    *)
(* the opposite one: calls that all take them in the same order never      *)
(* block each other in a circle.                                           *)
SameOrder(S) == (\A p \in S : tx[p].op = "reserve") \/ (\A p \in S : tx[p].op # "reserve")
OnlyOppositeOrdersDeadlock ==
  \A S \in (SUBSET Sessions) \ {{}} :
    SameOrder(S) => \E p \in S : \A q \in S : ~WaitsFor(p, q)
================================================================================
