-------------------------- MODULE BudgetLedger_proofs --------------------------
(***************************************************************************)
(* What holds of BudgetLedger for every number of budgets, requests,       *)
(* sessions and amounts.                                                   *)
(***************************************************************************)
EXTENDS BudgetLedger, FiniteSetTheorems, TLAPS

Keys == Budgets \X Requests

(* The order of the locks, and what a transaction has once it has them.    *)
Disciplined ==
  \A p \in Sessions :
    /\ tx[p].op = "none" => tx[p].held = {}
    /\ tx[p].op = "reserve" => ("row" \in tx[p].held => "budget" \in tx[p].held)
    /\ tx[p].op # "reserve" => ("budget" \in tx[p].held => "row" \in tx[p].held)
    /\ tx[p].read => Locked(p)
    /\ tx[p].op \in Sums => tx[p].amount \in Amounts

(* A row is locked by one transaction at a time.                           *)
Exclusive ==
  \A p, q \in Sessions : p # q =>
    /\ HoldsBudget(p, tx[p].on[1]) => ~HoldsBudget(q, tx[p].on[1])
    /\ HoldsRow(p, tx[p].on) => ~HoldsRow(q, tx[p].on)

IInv == TypeOK /\ Disciplined /\ Exclusive /\ DecidesOnCurrent

LEMMA IdleTypes == IdleTx \in Tx
<1>0. PICK b \in Budgets, r \in Requests : TRUE
  BY LedgerAssumption
<1>1. <<b, r>> \in Budgets \X Requests
  OBVIOUS
<1>2. (CHOOSE k \in Budgets \X Requests : TRUE) \in Budgets \X Requests
  BY <1>1
<1>3. \E n \in Allocations : TRUE
  BY LedgerAssumption
<1>4. NoBudget \in Budget
  BY <1>3 DEF NoBudget, Budget, BudgetStatus
<1>5. NoRow \in Reservation
  BY DEF NoRow, Reservation
<1> QED BY <1>2, <1>4, <1>5 DEF IdleTx, Tx

(* The units a budget's reservations hold are finitely many.               *)
LEMMA PairsFinite == IsFiniteSet(Requests \X Amounts)
<1>1. IsFiniteSet(Amounts)
  BY FS_Interval, LedgerAssumption DEF Amounts
<1> QED BY <1>1, FS_Product, LedgerAssumption

LEMMA UnitsFinite ==
  ASSUME NEW b \in Budgets
  PROVE  IsFiniteSet(Units(b)) /\ Booked(b) \in Nat
<1>1. Units(b) \in SUBSET (Requests \X Amounts)
  BY DEF Units
<1>2. IsFiniteSet(Units(b))
  BY <1>1, PairsFinite, FS_Subset
<1> QED BY <1>2, FS_CardinalityType DEF Booked

LEMMA NextUnitsFinite ==
  ASSUME NEW b \in Budgets
  PROVE  Booked(b)' \in Nat
<1>1. Units(b)' \in SUBSET (Requests \X Amounts)
  BY DEF Units
<1>2. IsFiniteSet(Units(b)')
  BY <1>1, PairsFinite, FS_Subset
<1> QED BY <1>2, FS_CardinalityType DEF Booked

(* A budget none of whose reservations is written keeps its sum.           *)
LEMMA BookedKept ==
  ASSUME NEW b \in Budgets, \A r \in Requests : row'[<<b, r>>] = row[<<b, r>>]
  PROVE  Booked(b)' = Booked(b)
<1>1. \A u \in Requests \X Amounts : Share(row[<<b, u[1]>>])' = Share(row[<<b, u[1]>>])
  BY DEF Share
<1>2. Units(b)' = Units(b)
  BY <1>1 DEF Units
<1> QED BY <1>2 DEF Booked

LEMMA AvailableTypes ==
  ASSUME NEW account \in Budget, NEW b \in Budgets
  PROVE  AvailableAmount(account, Booked(b)) \in Int
<1>1. Booked(b) \in Int
  BY UnitsFinite
<1>2. account.amount \in Int
  <2>1. account.amount \in Allocations
    BY DEF Budget
  <2>2. Allocations \subseteq Nat
    BY LedgerAssumption
  <2>3. account.amount \in Nat
    BY <2>1, <2>2
  <2> QED BY <2>3
<1> QED BY <1>1, <1>2 DEF AvailableAmount

(* What is written to a reservation is a reservation.                      *)
LEMMA WrittenTypes ==
  ASSUME TypeOK, Disciplined, NEW p \in Sessions, tx[p].op # "none"
  PROVE  Written(p) \in Reservation
<1> USE DEF TypeOK, Disciplined
<1>1. tx[p] \in Tx /\ tx[p].op \in Ops /\ tx[p].now \in Reservation
  BY DEF Tx, Ops
<1>2. tx[p].op \in Sums => tx[p].amount \in Amounts
  OBVIOUS
<1>3. StatusAfter(tx[p].op, tx[p].now) \in Available \cup {"released", "cancelled", "absent"}
  BY <1>1 DEF StatusAfter, Ops, Available, Reservation
<1>4. AmountAfter(tx[p].op, tx[p].now, tx[p].amount) \in Amounts \cup {0}
  BY <1>1, <1>2 DEF AmountAfter, Reservation
<1> QED BY <1>3, <1>4 DEF Written, Reservation

LEMMA Initially == Init => IInv
<1> SUFFICES ASSUME Init PROVE IInv
  OBVIOUS
<1>1. TypeOK
  BY IdleTypes DEF Init, TypeOK, NoRow, Reservation
<1>2. \A p \in Sessions : tx[p].op = "none" /\ tx[p].held = {} /\ tx[p].read = FALSE
  BY DEF Init, IdleTx
<1>3. Disciplined
  BY <1>2 DEF Disciplined, Sums
<1>4. Exclusive
  BY <1>2 DEF Exclusive, HoldsBudget, HoldsRow
<1>5. DecidesOnCurrent
  BY <1>2 DEF DecidesOnCurrent
<1> QED BY <1>1, <1>3, <1>4, <1>5 DEF IInv

(* Only the transaction's own commit and an edit write a row, and they     *)
(* need the lock: the copies another transaction holds stay current.       *)
LEMMA CommitKeeps ==
  ASSUME IInv, NEW p \in Sessions, Commit(p)
  PROVE  IInv'
<1> USE DEF IInv
<1> DEFINE k == tx[p].on
<1>1. tx[p].op # "none" /\ tx[p] \in Tx /\ Locked(p) /\ k \in Keys
  <2>1. Locked(p) /\ tx[p] \in Tx
    BY DEF Commit, Ready, TypeOK
  <2> QED BY <2>1 DEF Disciplined, Locked, Tx, Keys
<1>2. TypeOK'
  <2>1. Written(p) \in Reservation
    BY <1>1, WrittenTypes
  <2> QED BY <2>1, <1>1, IdleTypes DEF Commit, TypeOK, Keys
<1>3. tx'[p] = IdleTx /\ \A q \in Sessions : q # p => tx'[q] = tx[q]
  BY DEF Commit, TypeOK
<1>4. Disciplined'
  BY <1>3 DEF Disciplined, IdleTx, Sums, Locked
<1>5. Exclusive'
  BY <1>3 DEF Exclusive, HoldsBudget, HoldsRow, IdleTx
<1>6. DecidesOnCurrent'
  <2> SUFFICES ASSUME NEW q \in Sessions, q # p
               PROVE  /\ "budget" \in tx[q].held => tx[q].account = budget[tx[q].on[1]]
                      /\ "row" \in tx[q].held => tx[q].now = row'[tx[q].on]
                      /\ tx[q].read => tx[q].seen =
                           AvailableAmount(budget[tx[q].on[1]], Booked(tx[q].on[1])')
    BY <1>3 DEF DecidesOnCurrent, IdleTx, Commit, AvailableAmount
  <2>1. "row" \in tx[q].held => tx[q].on # k
    BY <1>1 DEF Exclusive, HoldsRow, Locked
  <2>2. "row" \in tx[q].held => row'[tx[q].on] = row[tx[q].on]
    BY <2>1 DEF Commit, TypeOK, Tx
  <2>3. tx[q].read => tx[q].on[1] # k[1]
    BY <1>1 DEF Exclusive, HoldsBudget, Disciplined, Locked
  <2>4. ASSUME tx[q].read
        PROVE  tx[q].seen = AvailableAmount(budget[tx[q].on[1]], Booked(tx[q].on[1])')
    <3>1. PICK b \in Budgets : b = tx[q].on[1]
      BY DEF TypeOK, Tx
    <3>2. \A r \in Requests : row'[<<b, r>>] = row[<<b, r>>]
      <4> TAKE r \in Requests
      <4>1. <<b, r>> # k /\ <<b, r>> \in Keys
        BY <2>3, <2>4, <3>1 DEF Keys
      <4> QED BY <4>1, <1>1 DEF Commit, TypeOK, Keys
    <3>3. Booked(b)' = Booked(b)
      BY <3>2, BookedKept
    <3>4. Booked(tx[q].on[1])' = Booked(b)'
      BY <3>1, <1>3
    <3> QED BY <3>1, <3>3, <3>4, <2>4 DEF DecidesOnCurrent
  <2> QED BY <2>2, <2>4 DEF DecidesOnCurrent
<1> QED BY <1>2, <1>4, <1>5, <1>6

(* A step that changes one transaction only keeps the invariant if the new *)
(* transaction is disciplined, has locked what nobody else has, and holds  *)
(* current copies.                                                         *)
LEMMA OneTxKeeps ==
  ASSUME IInv, NEW p \in Sessions, NEW t \in Tx,
         tx' = [tx EXCEPT ![p] = t], UNCHANGED <<budget, row>>,
         t.op = "none" => t.held = {},
         t.op = "reserve" => ("row" \in t.held => "budget" \in t.held),
         t.op # "reserve" => ("budget" \in t.held => "row" \in t.held),
         t.read => t.held = {"budget", "row"},
         t.op \in Sums => t.amount \in Amounts,
         "budget" \in t.held => BudgetFree(p, t.on[1]) /\ t.account = budget[t.on[1]],
         "row" \in t.held => RowFree(p, t.on) /\ t.now = row[t.on],
         t.read => t.seen = AvailableAmount(budget[t.on[1]], Booked(t.on[1]))
  PROVE  IInv'
<1>1. tx'[p] = t /\ \A q \in Sessions : q # p => tx'[q] = tx[q]
  BY DEF IInv, TypeOK
<1>2. TypeOK'
  BY DEF IInv, TypeOK
<1>3. Disciplined'
  BY <1>1 DEF IInv, Disciplined, Locked, Sums
<1>4. Exclusive'
  BY <1>1 DEF IInv, Exclusive, HoldsBudget, HoldsRow, BudgetFree, RowFree
<1>5. DecidesOnCurrent'
  <2> SUFFICES ASSUME NEW q \in Sessions
               PROVE  (/\ "budget" \in tx[q].held => tx[q].account = budget[tx[q].on[1]]
                       /\ "row" \in tx[q].held => tx[q].now = row[tx[q].on]
                       /\ tx[q].read => tx[q].seen =
                            AvailableAmount(budget[tx[q].on[1]], Booked(tx[q].on[1])))'
    BY DEF DecidesOnCurrent
  <2>1. PICK b \in Budgets : b = tx'[q].on[1]
    BY <1>2 DEF TypeOK, Tx
  <2>2. Booked(b)' = Booked(b)
    BY BookedKept
  <2>3. Booked(tx[q].on[1])' = Booked(b)
    BY <2>1, <2>2
  <2>4. CASE q = p
    BY <2>1, <2>3, <2>4, <1>1
  <2>5. CASE q # p
    BY <2>1, <2>3, <2>5, <1>1 DEF IInv, DecidesOnCurrent
  <2> QED BY <2>4, <2>5
<1> QED BY <1>2, <1>3, <1>4, <1>5 DEF IInv

LEMMA RollbackKeeps ==
  ASSUME IInv, NEW p \in Sessions, Rollback(p)
  PROVE  IInv'
<1>1. tx' = [tx EXCEPT ![p] = IdleTx] /\ UNCHANGED <<budget, row>>
  BY DEF Rollback
<1>2. IdleTx.op = "none" /\ IdleTx.held = {} /\ IdleTx.read = FALSE
  BY DEF IdleTx
<1> QED BY <1>1, <1>2, IdleTypes, OneTxKeeps DEF Sums

(* An idle transaction holds nothing and has read nothing.                 *)
LEMMA IdleHoldsNothing ==
  ASSUME IInv, NEW p \in Sessions, tx[p].op = "none"
  PROVE  tx[p].held = {} /\ tx[p].read = FALSE /\ tx[p] \in Tx
BY DEF IInv, TypeOK, Tx, Disciplined, Locked

(* A call begins.                                                          *)
LEMMA BeginKeeps ==
  ASSUME IInv, NEW p \in Sessions, NEW op \in Ops, NEW k \in Keys,
         NEW a \in Amounts \cup {0}, op \in Sums => a \in Amounts,
         tx[p].op = "none",
         tx' = [tx EXCEPT ![p] = [@ EXCEPT !.op = op, !.on = k, !.amount = a]],
         UNCHANGED <<budget, row>>
  PROVE  IInv'
<1> DEFINE t == [tx[p] EXCEPT !.op = op, !.on = k, !.amount = a]
<1>1. tx[p].held = {} /\ tx[p].read = FALSE /\ tx[p] \in Tx
  BY IdleHoldsNothing
<1>2. t \in Tx
  BY <1>1 DEF Tx, Keys
<1>3. t.op = op /\ t.held = {} /\ t.read = FALSE /\ t.amount = a
  BY <1>1 DEF Tx
<1>4. tx' = [tx EXCEPT ![p] = t]
  BY DEF IInv, TypeOK
<1>5. op # "none"
  BY DEF Ops
<1> HIDE DEF t
<1> QED BY <1>2, <1>3, <1>4, <1>5, OneTxKeeps

LEMMA LockBudgetKeeps ==
  ASSUME IInv, NEW p \in Sessions, LockBudget(p)
  PROVE  IInv'
<1> DEFINE b == tx[p].on[1]
           t == [tx[p] EXCEPT !.held = tx[p].held \cup {"budget"}, !.account = budget[b]]
<1>1. tx[p] \in Tx /\ b \in Budgets /\ budget[b] \in Budget
  BY DEF IInv, TypeOK, Tx
<1>2. t \in Tx
  BY <1>1 DEF Tx
<1>3. /\ t.op = tx[p].op /\ t.on = tx[p].on /\ t.amount = tx[p].amount
      /\ t.held = tx[p].held \cup {"budget"} /\ t.account = budget[b]
      /\ t.now = tx[p].now /\ t.read = tx[p].read
  BY <1>1 DEF Tx
<1>4. tx' = [tx EXCEPT ![p] = t] /\ UNCHANGED <<budget, row>>
  BY DEF LockBudget, IInv, TypeOK
<1>5. BudgetFree(p, b) /\ t.op # "none" /\ (t.op # "reserve" => "row" \in t.held)
  BY <1>3 DEF LockBudget, WantsBudget
<1>6. t.read = FALSE
  BY <1>1, <1>3 DEF LockBudget, WantsBudget, IInv, Disciplined, Locked, Tx
<1>7. "row" \in t.held => RowFree(p, t.on) /\ t.now = row[t.on]
  <2> SUFFICES ASSUME "row" \in tx[p].held PROVE RowFree(p, tx[p].on) /\ tx[p].now = row[tx[p].on]
    BY <1>3
  <2> QED BY DEF IInv, Exclusive, HoldsRow, RowFree, DecidesOnCurrent
<1>8. t.op \in Sums => t.amount \in Amounts
  BY <1>3 DEF IInv, Disciplined
<1> HIDE DEF t
<1> QED BY <1>2, <1>3, <1>4, <1>5, <1>6, <1>7, <1>8, OneTxKeeps

LEMMA LockRowKeeps ==
  ASSUME IInv, NEW p \in Sessions, LockRow(p)
  PROVE  IInv'
<1> DEFINE k == tx[p].on
           t == [tx[p] EXCEPT !.held = tx[p].held \cup {"row"}, !.now = row[k]]
<1>1. tx[p] \in Tx /\ row[k] \in Reservation
  BY DEF IInv, TypeOK, Tx
<1>2. t \in Tx
  BY <1>1 DEF Tx
<1>3. /\ t.op = tx[p].op /\ t.on = tx[p].on /\ t.amount = tx[p].amount
      /\ t.held = tx[p].held \cup {"row"} /\ t.account = tx[p].account
      /\ t.now = row[k] /\ t.read = tx[p].read
  BY <1>1 DEF Tx
<1>4. tx' = [tx EXCEPT ![p] = t] /\ UNCHANGED <<budget, row>>
  BY DEF LockRow, IInv, TypeOK
<1>5. RowFree(p, k) /\ t.op # "none" /\ (t.op = "reserve" => "budget" \in t.held)
  BY <1>3 DEF LockRow, WantsRow
<1>6. t.read = FALSE
  BY <1>1, <1>3 DEF LockRow, WantsRow, IInv, Disciplined, Locked, Tx
<1>7. "budget" \in t.held => BudgetFree(p, t.on[1]) /\ t.account = budget[t.on[1]]
  <2> SUFFICES ASSUME "budget" \in tx[p].held
               PROVE  BudgetFree(p, tx[p].on[1]) /\ tx[p].account = budget[tx[p].on[1]]
    BY <1>3
  <2> QED BY DEF IInv, Exclusive, HoldsBudget, BudgetFree, DecidesOnCurrent
<1>8. t.op \in Sums => t.amount \in Amounts
  BY <1>3 DEF IInv, Disciplined
<1> HIDE DEF t
<1> QED BY <1>2, <1>3, <1>4, <1>5, <1>6, <1>7, <1>8, OneTxKeeps

LEMMA ReadKeeps ==
  ASSUME IInv, NEW p \in Sessions, Read(p)
  PROVE  IInv'
<1> DEFINE b == tx[p].on[1]
           n == AvailableAmount(tx[p].account, Booked(b))
           t == [tx[p] EXCEPT !.read = TRUE, !.seen = n]
<1>1. tx[p] \in Tx /\ b \in Budgets /\ tx[p].account \in Budget
  BY DEF IInv, TypeOK, Tx
<1>2. n \in Int
  BY <1>1, AvailableTypes
<1> HIDE DEF n
<1>3. t \in Tx
  BY <1>1, <1>2 DEF Tx
<1>4. /\ t.op = tx[p].op /\ t.on = tx[p].on /\ t.amount = tx[p].amount
      /\ t.held = tx[p].held /\ t.account = tx[p].account
      /\ t.now = tx[p].now /\ t.read = TRUE /\ t.seen = n
  BY <1>1 DEF Tx
<1>5. tx' = [tx EXCEPT ![p] = t] /\ UNCHANGED <<budget, row>>
  BY DEF Read, IInv, TypeOK, n
<1>6. tx[p].held = {"budget", "row"} /\ tx[p].op \in Sums
  BY DEF Read, Locked
<1>7. /\ BudgetFree(p, tx[p].on[1]) /\ tx[p].account = budget[tx[p].on[1]]
      /\ RowFree(p, tx[p].on) /\ tx[p].now = row[tx[p].on]
  BY <1>6 DEF IInv, Exclusive, HoldsBudget, BudgetFree, HoldsRow, RowFree, DecidesOnCurrent
<1>8. n = AvailableAmount(budget[tx[p].on[1]], Booked(tx[p].on[1]))
  BY <1>7 DEF n
<1>9. tx[p].op # "none" /\ tx[p].amount \in Amounts
  BY <1>6 DEF Sums, IInv, Disciplined
<1> HIDE DEF t
<1> QED BY <1>3, <1>4, <1>5, <1>6, <1>7, <1>8, <1>9, OneTxKeeps

(* An edit waits for the budget's lock: nobody has read what it changes.   *)
LEMMA EditKeeps ==
  ASSUME IInv, NEW b \in Budgets, NEW edited \in Budget, Edit(b, edited)
  PROVE  IInv'
<1>1. TypeOK'
  BY DEF IInv, TypeOK, Edit
<1>2. UNCHANGED <<row, tx>>
  BY DEF Edit
<1>3. Disciplined'
  BY <1>2 DEF IInv, Disciplined, Locked
<1>4. Exclusive'
  BY <1>2 DEF IInv, Exclusive, HoldsBudget, HoldsRow
<1>5. DecidesOnCurrent'
  <2> SUFFICES ASSUME NEW q \in Sessions
               PROVE  (/\ "budget" \in tx[q].held => tx[q].account = budget[tx[q].on[1]]
                       /\ "row" \in tx[q].held => tx[q].now = row[tx[q].on]
                       /\ tx[q].read => tx[q].seen =
                            AvailableAmount(budget[tx[q].on[1]], Booked(tx[q].on[1])))'
    BY DEF DecidesOnCurrent
  <2>1. PICK c \in Budgets : c = tx[q].on[1]
    BY DEF IInv, TypeOK, Tx
  <2>2. Booked(c)' = Booked(c)
    BY <1>2, BookedKept
  <2>3. Booked(tx[q].on[1])' = Booked(c)
    BY <2>1, <2>2, <1>2
  <2>4. "budget" \in tx[q].held => c # b
    BY <2>1 DEF Edit, HoldsBudget
  <2>5. c # b => budget'[c] = budget[c]
    BY DEF Edit, IInv, TypeOK
  <2>6. tx[q].read => "budget" \in tx[q].held
    BY DEF IInv, Disciplined, Locked
  <2> QED BY <2>1, <2>3, <2>4, <2>5, <2>6, <1>2 DEF IInv, DecidesOnCurrent
<1> QED BY <1>1, <1>3, <1>4, <1>5 DEF IInv

LEMMA StutterKeeps == IInv /\ UNCHANGED vars => IInv'
<1> SUFFICES ASSUME IInv, UNCHANGED vars PROVE IInv'
  OBVIOUS
<1> USE DEF vars
<1>1. TypeOK'
  BY DEF IInv, TypeOK
<1>2. Disciplined'
  BY DEF IInv, Disciplined, Locked
<1>3. Exclusive'
  BY DEF IInv, Exclusive, HoldsBudget, HoldsRow
<1>4. DecidesOnCurrent'
  BY DEF IInv, DecidesOnCurrent, Booked, Units
<1> QED BY <1>1, <1>2, <1>3, <1>4 DEF IInv

LEMMA StepKeeps == IInv /\ [Next]_vars => IInv'
<1> SUFFICES ASSUME IInv, [Next]_vars PROVE IInv'
  OBVIOUS
<1>1. ASSUME NEW p \in Sessions, NEW b \in Budgets, NEW r \in Requests, NEW a \in Amounts,
             Reserve(p, b, r, a)
      PROVE  IInv'
  <2>1. <<b, r>> \in Keys /\ "reserve" \in Ops
    BY DEF Keys, Ops
  <2> QED BY <1>1, <2>1, BeginKeeps DEF Reserve
<1>2. ASSUME NEW p \in Sessions, NEW k \in Budgets \X Requests, NEW a \in Amounts,
             Call(p, "revise", k, a)
      PROVE  IInv'
  BY <1>2, BeginKeeps DEF Call, Keys, Ops
<1>3. ASSUME NEW p \in Sessions, NEW k \in Budgets \X Requests,
             NEW op \in {"release", "cancel", "commit"}, Call(p, op, k, 0)
      PROVE  IInv'
  BY <1>3, BeginKeeps DEF Call, Keys, Ops, Sums
<1>4. ASSUME NEW p \in Sessions, Refuse(p) \/ DeadlockAbort(p)
      PROVE  IInv'
  BY <1>4, RollbackKeeps DEF Refuse, DeadlockAbort
<1> QED
  BY <1>1, <1>2, <1>3, <1>4, LockBudgetKeeps, LockRowKeeps, ReadKeeps, CommitKeeps,
     EditKeeps, StutterKeeps DEF Next

LEMMA Invariance == Spec => []IInv
<1>1. Init => IInv
  BY Initially
<1>2. IInv /\ [Next]_vars => IInv'
  BY StepKeeps
<1> QED BY <1>1, <1>2, PTL DEF Spec

(* Rows and transactions keep their types.                                 *)
THEOREM LedgerTypes == Spec => []TypeOK
<1>1. IInv => TypeOK
  BY DEF IInv
<1> QED BY <1>1, Invariance, PTL

(* However many sessions overlap, a transaction writes what it decided on  *)
(* rows and sums that are still the committed ones.                        *)
THEOREM CurrentWhenDecided == Spec => []DecidesOnCurrent
<1>1. IInv => DecidesOnCurrent
  BY DEF IInv
<1> QED BY <1>1, Invariance, PTL

(* What a commit knows of the row it writes.                               *)
LEMMA AtCommit ==
  ASSUME IInv, NEW p \in Sessions, Commit(p)
  PROVE  /\ tx[p] \in Tx /\ tx[p].op \in Ops /\ tx[p].on \in Keys
         /\ tx[p].now = row[tx[p].on] /\ tx[p].now \in Reservation
         /\ tx[p].op \in Sums =>
              /\ tx[p].amount \in Amounts
              /\ tx[p].seen = AvailableAmount(budget[tx[p].on[1]], Booked(tx[p].on[1]))
         /\ row'[tx[p].on] = Written(p) /\ Written(p) \in Reservation
         /\ \A k \in Keys \ {tx[p].on} : row'[k] = row[k]
<1>1. tx[p] \in Tx /\ Locked(p) /\ tx[p].on \in Keys
  BY DEF IInv, TypeOK, Commit, Ready, Tx, Keys
<1>2. tx[p].op # "none"
  BY <1>1 DEF IInv, Disciplined, Locked
<1>3. Written(p) \in Reservation
  BY <1>2, WrittenTypes DEF IInv
<1>4. tx[p].now = row[tx[p].on] /\ tx[p].now \in Reservation
  BY <1>1 DEF IInv, DecidesOnCurrent, Locked, Tx
<1>5. tx[p].op \in Sums => /\ tx[p].amount \in Amounts
                           /\ tx[p].seen = AvailableAmount(budget[tx[p].on[1]], Booked(tx[p].on[1]))
  BY DEF IInv, Disciplined, DecidesOnCurrent, Commit, Ready
<1>6. row'[tx[p].on] = Written(p) /\ \A k \in Keys \ {tx[p].on} : row'[k] = row[k]
  BY <1>1 DEF Commit, IInv, TypeOK, Keys
<1> QED BY <1>1, <1>2, <1>3, <1>4, <1>5, <1>6 DEF Tx

(* A step writes a reservation only by a commit.                           *)
LEMMA OnlyCommitsWrite ==
  ASSUME IInv, [Next]_vars, ~(\E p \in Sessions : Commit(p))
  PROVE  UNCHANGED row
BY DEF Next, vars, Reserve, Call, LockBudget, LockRow, Read, Refuse, DeadlockAbort,
       Rollback, Edit

(* A committed reservation keeps its amount in every step.                 *)
THEOREM CommittedAmounts == Spec => CommittedIsFixed
<1>1. ASSUME IInv, [Next]_vars, NEW k \in Budgets \X Requests, row[k].status = "committed"
      PROVE  row'[k].amount = row[k].amount
  <2>1. CASE ~(\E p \in Sessions : Commit(p))
    BY <1>1, <2>1, OnlyCommitsWrite
  <2>2. ASSUME NEW p \in Sessions, Commit(p)
        PROVE  row'[k].amount = row[k].amount
    <3>1. CASE k # tx[p].on
      BY <1>1, <2>2, <3>1, AtCommit DEF Keys
    <3>2. CASE k = tx[p].on
      <4>1. tx[p].now.status = "committed" /\ tx[p].now = row[k] /\ row'[k] = Written(p)
        BY <1>1, <2>2, <3>2, AtCommit
      <4>2. Accepted(tx[p].op, tx[p].now, tx[p].amount, tx[p].seen)
        BY <2>2 DEF Commit, Granted
      <4>3. AmountAfter(tx[p].op, tx[p].now, tx[p].amount) = tx[p].now.amount
        BY <4>1, <4>2 DEF Accepted, Revisable, AmountAfter, Available, Sums
      <4> QED BY <4>1, <4>3 DEF Written
    <3> QED BY <3>1, <3>2
  <2> QED BY <2>1, <2>2
<1>2. IInv /\ [Next]_vars =>
        [\A k \in Budgets \X Requests :
           row[k].status = "committed" => row'[k].amount = row[k].amount]_vars
  BY <1>1
<1> QED BY <1>2, Invariance, PTL DEF Spec, CommittedIsFixed

(***************************************************************************)
(* The ledger implements the pool.                                         *)
(***************************************************************************)
(* The units of one reservation.                                           *)
LEMMA UnitsOfOne ==
  ASSUME NEW r \in Requests, NEW n \in Nat
  PROVE  IsFiniteSet({r} \X (1..n)) /\ Cardinality({r} \X (1..n)) = n
<1>1. IsFiniteSet(1..n) /\ Cardinality(1..n) = n
  BY FS_Interval
<1>2. IsFiniteSet({r}) /\ Cardinality({r}) = 1
  BY FS_Singleton
<1>3. IsFiniteSet({r} \X (1..n)) /\ Cardinality({r} \X (1..n)) = Cardinality({r}) * Cardinality(1..n)
  BY <1>1, <1>2, FS_Product
<1> QED BY <1>1, <1>2, <1>3

LEMMA ShareBounds ==
  ASSUME NEW x \in Reservation
  PROVE  Share(x) \in 0..MaxAmount
BY LedgerAssumption DEF Share, Reservation, Amounts

(* A set of pairs whose members of r are 1..n has n members more than the  *)
(* rest of it.                                                             *)
LEMMA SumSplits ==
  ASSUME NEW r \in Requests, NEW n \in Nat, NEW rest, IsFiniteSet(rest),
         \A u \in rest : u[1] # r
  PROVE  Cardinality(rest \cup ({r} \X (1..n))) = Cardinality(rest) + n
<1> DEFINE own == {r} \X (1..n)
<1>1. IsFiniteSet(own) /\ Cardinality(own) = n
  BY UnitsOfOne
<1>2. rest \cap own = {}
  OBVIOUS
<1> HIDE DEF own
<1>3. Cardinality(rest \cup own) = Cardinality(rest) + Cardinality(own) - Cardinality(rest \cap own)
  BY <1>1, FS_Union
<1>4. Cardinality(rest \cap own) = 0 /\ Cardinality(rest) \in Nat
  BY <1>2, FS_EmptySet, FS_CardinalityType
<1> QED BY <1>1, <1>3, <1>4 DEF own

(* Writing one reservation moves the sum of its budget by the difference.  *)
LEMMA BookedMoves ==
  ASSUME NEW b \in Budgets, NEW r \in Requests,
         row \in [Budgets \X Requests -> Reservation], row' \in [Budgets \X Requests -> Reservation],
         \A s \in Requests \ {r} : row'[<<b, s>>] = row[<<b, s>>]
  PROVE  Booked(b)' - Booked(b) = Share(row'[<<b, r>>]) - Share(row[<<b, r>>])
<1> DEFINE rest == {u \in Units(b) : u[1] # r}
           old == Share(row[<<b, r>>])
           new == Share(row'[<<b, r>>])
<1>1. old \in 0..MaxAmount /\ new \in 0..MaxAmount
  BY ShareBounds
<1>2. IsFiniteSet(rest) /\ Cardinality(rest) \in Nat
  <2>1. rest \in SUBSET Units(b)
    OBVIOUS
  <2> QED BY <2>1, UnitsFinite, FS_Subset, FS_CardinalityType
<1>3. Units(b) = rest \cup ({r} \X (1..old))
  BY <1>1, LedgerAssumption DEF Units, Amounts
<1>4. Units(b)' = rest \cup ({r} \X (1..new))
  <2>1. \A u \in Requests \X Amounts : u[1] # r =>
          Share(row[<<b, u[1]>>])' = Share(row[<<b, u[1]>>])
    BY DEF Share
  <2>2. Units(b)' = {u \in Requests \X Amounts : u[2] <= Share(row'[<<b, u[1]>>])}
    BY DEF Units, Share
  <2> QED BY <2>1, <2>2, <1>1, LedgerAssumption DEF Units, Amounts, Share
<1>5. \A u \in rest : u[1] # r
  OBVIOUS
<1> HIDE DEF rest, old, new
<1>6. Cardinality(Units(b)) = Cardinality(rest) + old
  BY <1>1, <1>2, <1>3, <1>5, SumSplits
<1>7. Cardinality(Units(b)') = Cardinality(rest) + new
  BY <1>1, <1>2, <1>4, <1>5, SumSplits
<1> QED BY <1>1, <1>2, <1>6, <1>7 DEF Booked, old, new

(* An operation that makes a reservation's share larger is reserve or      *)
(* revise, and asks for no more than is available besides the old share.   *)
LEMMA GrowthAsksEnough ==
  ASSUME NEW op \in Ops, NEW now \in Reservation, NEW a, op \in Sums => a \in Amounts,
         NEW n \in Int, Accepted(op, now, a, n), NEW next \in Reservation,
         next = [status |-> StatusAfter(op, now), amount |-> AmountAfter(op, now, a)],
         Share(next) > Share(now)
  PROVE  op \in Sums /\ a - Share(now) <= n /\ Share(next) = a
<1>1. Share(now) \in Nat /\ Share(next) \in Nat /\ now.amount \in Nat
  BY LedgerAssumption DEF Share, Reservation, Amounts
<1>2. next.status = StatusAfter(op, now) /\ next.amount = AmountAfter(op, now, a)
  OBVIOUS
<1>3. CASE op = "reserve" /\ now.status \in Available
  <2>1. Share(now) = now.amount /\ Share(next) = a
    BY <1>2, <1>3 DEF Share, StatusAfter, AmountAfter, Sums
  <2>2. Revisable(now, a, n)
    BY <1>3, <1>1, <2>1 DEF Accepted
  <2> QED BY <1>1, <1>3, <2>1, <2>2, LedgerAssumption DEF Revisable, Sums, Amounts
<1>4. CASE op = "reserve" /\ now.status \notin Available
  <2>1. Share(now) = 0 /\ Share(next) = a /\ a <= n
    BY <1>2, <1>4 DEF Share, StatusAfter, AmountAfter, Sums, Available, Accepted
  <2> QED BY <1>4, <2>1, LedgerAssumption DEF Sums, Amounts
<1>5. CASE op = "revise"
  <2>1. Revisable(now, a, n) /\ now.status = "reserved"
    BY <1>5 DEF Accepted, Revisable
  <2>2. Share(now) = now.amount /\ Share(next) = a
    BY <1>2, <1>5, <2>1 DEF Share, StatusAfter, AmountAfter, Sums, Available
  <2> QED BY <1>1, <1>5, <2>1, <2>2, LedgerAssumption DEF Revisable, Sums, Amounts
<1>6. CASE op \in {"release", "cancel"}
  <2>1. next.status \notin Available
    BY <1>2, <1>6 DEF StatusAfter, Available
  <2> QED BY <1>1, <2>1 DEF Share
<1>7. CASE op = "commit"
  <2>1. now.status \in Available /\ next.amount = now.amount
    BY <1>2, <1>7 DEF Accepted, AmountAfter, Available, Sums
  <2> QED BY <1>1, <2>1 DEF Share
<1> QED BY <1>3, <1>4, <1>5, <1>6, <1>7 DEF Ops

(* A commit books only what an active budget still has.                    *)
LEMMA GrantedFits ==
  ASSUME IInv, NEW p \in Sessions, Commit(p), NEW b \in Budgets, b = tx[p].on[1],
         Booked(b)' > Booked(b)
  PROVE  budget[b].status = "active" /\ Booked(b)' <= budget[b].amount
<1> DEFINE a == tx[p].amount
           n == tx[p].seen
<1>1. PICK r \in Requests : tx[p].on = <<b, r>>
  BY AtCommit DEF Keys
<1> DEFINE old == Share(row[<<b, r>>])
           new == Share(row'[<<b, r>>])
<1>2. Booked(b)' - Booked(b) = new - old
  <2>1. row' \in [Budgets \X Requests -> Reservation] /\ row \in [Budgets \X Requests -> Reservation]
    BY CommitKeeps DEF IInv, TypeOK
  <2>2. \A s \in Requests \ {r} : row'[<<b, s>>] = row[<<b, s>>]
    <3> TAKE s \in Requests \ {r}
    <3>1. <<b, s>> \in Keys \ {<<b, r>>}
      BY DEF Keys
    <3> QED BY <3>1, <1>1, AtCommit
  <2> QED BY <2>1, <2>2, BookedMoves
<1>3. Booked(b) \in Nat /\ Booked(b)' \in Nat
  BY UnitsFinite, NextUnitsFinite
<1>4. row[<<b, r>>] \in Reservation /\ row'[<<b, r>>] \in Reservation
  BY <1>1, AtCommit
<1>5. old \in Nat /\ new \in Nat
  BY <1>4, ShareBounds, LedgerAssumption
<1>6. tx[p].op \in Sums /\ a - old <= n /\ new = a
  <2>1. tx[p].now = row[<<b, r>>] /\ row'[<<b, r>>] = Written(p) /\ tx[p].op \in Ops
    BY <1>1, AtCommit
  <2>2. Accepted(tx[p].op, tx[p].now, a, n)
    BY DEF Commit, Granted
  <2>3. n \in Int /\ (tx[p].op \in Sums => a \in Amounts)
    BY AtCommit DEF Tx
  <2>4. Share(Written(p)) > Share(tx[p].now)
    BY <1>2, <1>3, <1>5, <2>1
  <2>5. tx[p].op \in Sums /\ a - Share(tx[p].now) <= n /\ Share(Written(p)) = a
    BY <1>4, <2>1, <2>2, <2>3, <2>4, GrowthAsksEnough DEF Written
  <2> QED BY <2>1, <2>5
<1>7. n = AvailableAmount(budget[b], Booked(b)) /\ n \in Int
  BY <1>1, <1>6, AtCommit DEF Tx
<1> HIDE DEF old, new, a, n
<1>8. n > 0
  BY <1>2, <1>3, <1>5, <1>6, <1>7
<1>9. budget[b].status = "active" /\ n = budget[b].amount - Booked(b)
  BY <1>7, <1>8 DEF AvailableAmount
<1>10. budget[b].amount \in Int
  <2>1. budget[b].amount \in Allocations
    BY DEF IInv, TypeOK, Budget
  <2>2. Allocations \subseteq Nat
    BY LedgerAssumption
  <2>3. budget[b].amount \in Nat
    BY <2>1, <2>2
  <2> QED BY <2>3
<1> QED BY <1>2, <1>3, <1>5, <1>6, <1>9, <1>10

(* Spec implements the abstract budget: every commit moves one budget's    *)
(* sum, upwards only into money that is there; every edit is an            *)
(* adjustment; every other step leaves the pool as it is.                  *)
THEOREM ServiceImplementsPool == Spec => ImplementsPool
<1> DEFINE allocation == [b \in Budgets |-> budget[b].amount]
           standing == [b \in Budgets |-> budget[b].status]
           sums == [b \in Budgets |-> Booked(b)]
<1>1. Init => Pool!PoolInit
  <2> SUFFICES ASSUME Init PROVE Pool!PoolInit
    OBVIOUS
  <2>1. \A b \in Budgets : budget[b].amount \in Nat /\ budget[b].status \in BudgetStatus
    BY LedgerAssumption DEF Init, Budget
  <2>2. \A b \in Budgets : Booked(b) = 0
    <3> TAKE b \in Budgets
    <3>1. Units(b) = {}
      BY LedgerAssumption DEF Init, Units, Share, NoRow, Available, Amounts
    <3> QED BY <3>1, FS_EmptySet DEF Booked
  <2> QED BY <2>1, <2>2 DEF Pool!PoolInit
<1>2. ASSUME IInv, IInv', [Next]_vars
      PROVE  [Pool!PoolNext]_<<allocation, standing, sums>>
  <2>1. \A b \in Budgets : Booked(b)' \in Nat
    BY NextUnitsFinite
  <2>2. ASSUME NEW p \in Sessions, Commit(p)
        PROVE  Pool!PoolNext
    <3>1. PICK b \in Budgets : b = tx[p].on[1]
      BY <1>2 DEF IInv, TypeOK, Tx
    <3>2. \A c \in Budgets \ {b} : Booked(c)' = Booked(c)
      <4> TAKE c \in Budgets \ {b}
      <4>1. \A r \in Requests : row'[<<c, r>>] = row[<<c, r>>]
        BY <3>1, <2>2, <1>2, AtCommit DEF Keys
      <4> QED BY <4>1, BookedKept
    <3>3. UNCHANGED budget
      BY <2>2 DEF Commit
    <3>4. Booked(b)' > Booked(b) => budget[b].status = "active" /\ Booked(b)' <= budget[b].amount
      BY <1>2, <2>2, <3>1, GrantedFits
    <3>5. Pool!Book(b) \/ Pool!Free(b)
      BY <3>4, <2>1, UnitsFinite DEF Pool!Book, Pool!Free
    <3>6. sums' \in [Budgets -> Nat]
      BY <2>1
    <3>7. Pool!Move(b)
      BY <3>2, <3>3, <3>5, <3>6 DEF Pool!Move
    <3> QED BY <3>7 DEF Pool!PoolNext
  <2>3. ASSUME NEW b \in Budgets, NEW edited \in Budget, Edit(b, edited)
        PROVE  Pool!PoolNext
    <3>1. \A c \in Budgets : budget'[c].amount \in Nat /\ budget'[c].status \in BudgetStatus
      BY <1>2, LedgerAssumption DEF IInv, TypeOK, Budget
    <3>2. UNCHANGED row
      BY <2>3 DEF Edit
    <3>3. \A c \in Budgets : Booked(c)' = Booked(c)
      BY <3>2, BookedKept
    <3>4. Pool!Adjust
      BY <3>1, <3>3 DEF Pool!Adjust
    <3> QED BY <3>4 DEF Pool!PoolNext
  <2>4. ASSUME UNCHANGED <<budget, row>>
        PROVE  UNCHANGED <<allocation, standing, sums>>
    <3>1. \A c \in Budgets : Booked(c)' = Booked(c)
      BY <2>4, BookedKept
    <3> QED BY <2>4, <3>1
  <2>5. \/ \E p \in Sessions : Commit(p)
        \/ \E b \in Budgets, edited \in Budget : Edit(b, edited)
        \/ UNCHANGED <<budget, row>>
    BY <1>2 DEF Next, vars, Reserve, Call, LockBudget, LockRow, Read, Refuse, DeadlockAbort,
                Rollback
  <2> QED BY <2>2, <2>3, <2>4, <2>5
<1>3. IInv /\ [Next]_vars => IInv'
  BY StepKeeps
<1> QED BY <1>1, <1>2, <1>3, Invariance, PTL DEF Spec, ImplementsPool, Pool!PoolSpec

(***************************************************************************)
(* Deadlocks.                                                              *)
(***************************************************************************)
(* Calls that take the two locks in the same order never block each other  *)
(* in a circle: one of those that have got furthest waits for none of them.*)
THEOREM DeadlocksNeedOppositeOrders == Spec => []OnlyOppositeOrdersDeadlock
<1>1. IInv => OnlyOppositeOrdersDeadlock
  <2> SUFFICES ASSUME IInv, NEW S \in (SUBSET Sessions) \ {{}}, SameOrder(S)
               PROVE  \E p \in S : \A q \in S : ~WaitsFor(p, q)
    BY DEF OnlyOppositeOrdersDeadlock
  <2>1. CASE \E p \in S : Locked(p)
    BY <2>1 DEF WaitsFor, WantsBudget, WantsRow, Locked
  <2>2. CASE ~(\E p \in S : Locked(p)) /\ \E p \in S : tx[p].held # {}
    <3>1. PICK p \in S : tx[p].held # {}
      BY <2>2
    <3> QED BY <3>1, <2>2 DEF SameOrder, IInv, TypeOK, Tx, Disciplined, Locked, WaitsFor,
                              WantsBudget, WantsRow, HoldsBudget, HoldsRow
  <2>3. CASE \A p \in S : tx[p].held = {}
    BY <2>3 DEF WaitsFor, HoldsBudget, HoldsRow
  <2> QED BY <2>1, <2>2, <2>3
<1> QED BY <1>1, Invariance, PTL
================================================================================
