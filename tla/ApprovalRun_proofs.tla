-------------------------- MODULE ApprovalRun_proofs --------------------------
(***************************************************************************)
(* What holds of ApprovalRun for every workflow and any number of          *)
(* approvers, tasks and SLA runs.                                          *)
(***************************************************************************)
EXTENDS ApprovalRun, WellFoundedInduction, TLAPS

(* A nonempty set of numbers has a least element.                          *)
LEMMA LeastExists ==
  ASSUME NEW S \in SUBSET Nat, S # {}
  PROVE  \E x \in S : \A y \in S : x <= y
<1> DEFINE R == OpToRel(<, Nat)
<1>1. IsWellFoundedOn(R, Nat)
  BY NatLessThanWellFounded
<1>2. PICK x \in S : \A y \in S : <<y, x>> \notin R
  <2> HIDE DEF R
  <2> QED BY <1>1, WFMin
<1>3. \A y \in S : ~(y < x)
  BY <1>2 DEF OpToRel
<1> QED BY <1>3

(* The order in which the rows of a group are read: every nonempty set of  *)
(* rows has a first one, so First picks a member of the set, of the lowest *)
(* order in it.                                                            *)
LEMMA FirstIsMember ==
  ASSUME info \in [Tasks -> Info], MaxTasks \in Nat,
         NEW S \in SUBSET Tasks, S # {}
  PROVE  /\ First(S) \in S
         /\ \A u \in S : info[First(S)].order <= info[u].order
<1> DEFINE Orders == {info[t].order : t \in S}
<1>1. Orders \in SUBSET Nat /\ Orders # {}
  BY DEF Tasks, Info
<1>2. PICK k \in Orders : \A j \in Orders : k <= j
  BY <1>1, LeastExists
<1> DEFINE Least == {t \in S : info[t].order = k}
<1>3. Least \in SUBSET Nat /\ Least # {}
  <2>1. PICK s \in S : k = info[s].order
    OBVIOUS
  <2>2. s \in Least
    BY <2>1
  <2>3. Least \subseteq S /\ S \subseteq Nat
    BY DEF Tasks
  <2> QED BY <2>2, <2>3
<1>4. PICK t \in Least : \A u \in Least : t <= u
  BY <1>3, LeastExists
<1>5. \A u \in S \ {t} : Before(t, u)
  <2> TAKE u \in S \ {t}
  <2>1. info[t].order <= info[u].order /\ info[t].order \in Nat /\ info[u].order \in Nat
    BY <1>2 DEF Info
  <2>2. CASE info[u].order = k
    BY <2>2, <1>4, <2>1 DEF Before, Tasks
  <2>3. CASE info[u].order # k
    BY <2>3, <2>1 DEF Before
  <2> QED BY <2>2, <2>3
<1>6. First(S) \in S /\ \A u \in S \ {First(S)} : Before(First(S), u)
  BY <1>5 DEF First
<1>7. \A u \in S : info[u].order \in Nat
  BY DEF Info
<1> HIDE DEF Orders, Least
<1>8. \A u \in S : info[First(S)].order <= info[u].order
  <2> DEFINE f == First(S)
  <2> HIDE DEF f
  <2>1. f \in S /\ \A u \in S \ {f} : Before(f, u)
    BY <1>6 DEF f
  <2>2. \A u \in S : info[f].order <= info[u].order
    BY <2>1, <1>7 DEF Before
  <2> QED BY <2>2 DEF f
<1> QED BY <1>6, <1>8

(* The creator opens an order one of the plan's steps has.                 *)
LEMMA FirstOrderIsNat ==
  ASSUME NEW plan \in Plans
  PROVE  /\ FirstOrder(plan) \in Nat
         /\ \A i \in DOMAIN plan :
              plan[i].applicable => FirstOrder(plan) <= plan[i].order
<1> DEFINE Steps == {i \in DOMAIN plan : plan[i].applicable}
           Orders == {plan[i].order : i \in Steps}
<1>0. \E i \in DOMAIN plan : plan[i].applicable
  BY PlansAssumption
<1>1. plan \in Seq(PlanStep)
  BY PlansAssumption
<1>9. Steps # {}
  <2>1. PICK i \in DOMAIN plan : plan[i].applicable
    BY <1>0
  <2>2. i \in Steps
    BY <2>1, Zenon
  <2> HIDE DEF Steps
  <2> QED BY <2>2
<1>2. \A i \in Steps : plan[i].order \in Nat
  <2>1. \A i \in DOMAIN plan : plan[i] \in PlanStep
    BY <1>1
  <2>2. \A step \in PlanStep : step.order \in Nat
    BY DEF PlanStep, Tasks
  <2> QED BY <2>1, <2>2
<1>3. Orders \in SUBSET Nat /\ Orders # {}
  BY <1>9, <1>2
<1>4. PICK k \in Orders : \A j \in Orders : k <= j
  BY <1>3, LeastExists
<1>5. \A i \in DOMAIN plan : plan[i].applicable => k <= plan[i].order
  BY <1>4
<1>6. /\ FirstOrder(plan) \in Orders
      /\ \A i \in DOMAIN plan : plan[i].applicable => FirstOrder(plan) <= plan[i].order
  BY <1>4, <1>5 DEF FirstOrder
<1> QED BY <1>3, <1>6

(* What the creator writes has the columns' types.                         *)
LEMMA CreatedTypes ==
  ASSUME NEW plan \in Plans, NEW t \in Tasks
  PROVE  CreatedInfo(plan, t) \in Info /\ CreatedStatus(plan, t) \in TaskStatus
<1>1. CreatedStatus(plan, t) \in TaskStatus
  BY DEF CreatedStatus, TaskStatus, OpenStatus
<1>2. CASE t \notin DOMAIN plan
  BY <1>1, <1>2 DEF CreatedInfo, Info, Blank, Modes
<1>3. CASE t \in DOMAIN plan
  <2>1. plan[t] \in PlanStep
    BY <1>3, PlansAssumption
  <2>2. /\ plan[t].order \in Nat /\ plan[t].mode \in Modes /\ plan[t].approver \in Users
        /\ plan[t].timed \in BOOLEAN /\ plan[t].applicable \in BOOLEAN
    BY <2>1 DEF PlanStep, Tasks
  <2>3. (IF plan[t].applicable THEN plan[t].approver ELSE NoUser) \in Users \cup {NoUser}
    BY <2>2
  <2> QED BY <1>1, <1>3, <2>2, <2>3 DEF CreatedInfo, Info
<1> QED BY <1>2, <1>3

LEMMA IdleTypes == IdleTx \in Tx /\ IdleSweep \in Sweep
<1>1. 1 \in Tasks
  BY PlansAssumption DEF Tasks
<1>2. NoSeen \in RequestStatus
  BY DEF NoSeen, Ended, RequestStatus, Terminal, Outcomes, Keys
<1>3. IdleTx \in Tx
  BY <1>1, <1>2 DEF IdleTx, Tx, Phase, Acts, InstanceStatus, ActiveInstance
<1> QED BY <1>1, <1>3 DEF IdleSweep, Sweep, SweepPhase

LEMMA InitialTypes == Init => TypeOK
<1> SUFFICES ASSUME Init PROVE TypeOK
  OBVIOUS
<1>1. PICK plan \in Plans :
        /\ info = [t \in Tasks |-> CreatedInfo(plan, t)]
        /\ status = [t \in Tasks |-> CreatedStatus(plan, t)]
        /\ pr = Staged(<<FirstOrder(plan), 0>>)
  BY DEF Init
<1>2. info \in [Tasks -> Info] /\ status \in [Tasks -> TaskStatus]
  BY <1>1, CreatedTypes
<1>3. pr \in RequestStatus
  BY <1>1, FirstOrderIsNat DEF Staged, RequestStatus, Keys
<1> QED
  BY <1>2, <1>3, IdleTypes
  DEF Init, TypeOK, Acts, InstanceStatus, ActiveInstance

LEMMA SeenTypes ==
  ASSUME TypeOK, NEW p \in Deciders, NEW t \in Tasks
  PROVE  Seen(p, t) \in TaskStatus
BY DEF TypeOK, Seen, StatusAfter, TaskStatus, OpenStatus

(* A free row can be found: the least number no row has yet.               *)
LEMMA NewTaskIsFree ==
  ASSUME Free # {}
  PROVE  NewTask \in Free
<1>1. Free \in SUBSET Nat
  BY DEF Free, Tasks
<1>2. \E t \in Free : \A u \in Free : t <= u
  BY <1>1, LeastExists
<1> QED BY <1>2 DEF NewTask

(* The types of a transaction's record, field by field.                    *)
LEMMA TxTypes ==
  ASSUME TypeOK, NEW p \in Deciders
  PROVE  /\ tx[p] \in Tx
         /\ tx[p].task \in Tasks /\ tx[p].act \in Acts /\ tx[p].next \in Tasks
         /\ tx[p].todo \in SUBSET Tasks /\ tx[p].skipped \in SUBSET Tasks
         /\ tx[p].opened \in SUBSET Tasks
BY DEF TypeOK, Tx

(* The commit of a transaction keeps the types of what it writes.          *)
LEMMA CommitTypes ==
  ASSUME TypeOK, NEW p \in Deciders, CommitRows(p),
         inst' \in InstanceStatus, pr' \in RequestStatus
  PROVE  TypeOK'
<1>1. status' \in [Tasks -> TaskStatus]
  BY SeenTypes DEF CommitRows
<1>2. decision' \in [Tasks -> Acts \cup {"none"}]
  BY TxTypes DEF CommitRows, TypeOK
<1>3. tx' \in [Deciders -> Tx]
  BY IdleTypes DEF CommitRows, TypeOK
<1> QED BY <1>1, <1>2, <1>3 DEF CommitRows, TypeOK, Info, Sweep

(* A step inside the transaction changes its record only.                  *)
LEMMA StepTypes ==
  ASSUME TypeOK, NEW p \in Deciders, NEW r \in Tx,
         tx' = [tx EXCEPT ![p] = r],
         UNCHANGED <<info, status, decision, late, inst, pr, sweep>>
  PROVE  TypeOK'
BY DEF TypeOK

LEMMA DecideTypes ==
  ASSUME TypeOK, NEW p \in Deciders, Decide(p)
  PROVE  TypeOK'
<1> USE DEF taskVars
<1>1. CASE \E t \in Tasks, act \in Acts : Begin(p, t, act)
  <2>1. PICK t \in Tasks, act \in Acts : Begin(p, t, act)
    BY <1>1
  <2> DEFINE r == [IdleTx EXCEPT !.pc = "asked", !.task = t, !.act = act]
  <2>2. r \in Tx
    BY IdleTypes DEF Tx, Phase
  <2> QED BY <2>1, <2>2, StepTypes DEF Begin
<1>2. CASE LockStep(p)
  <2> DEFINE r == [tx[p] EXCEPT !.pc = "locked", !.seenInst = inst, !.seenPr = pr]
  <2>1. inst \in InstanceStatus /\ pr \in RequestStatus
    BY DEF TypeOK
  <2>2. r \in Tx
    BY <2>1, TxTypes DEF Tx, Phase
  <2>3. tx' = [tx EXCEPT ![p] = r]
    BY <1>2 DEF LockStep
  <2> QED BY <1>2, <2>2, <2>3, StepTypes DEF LockStep
<1>3. CASE Refuse(p)
  BY <1>3, IdleTypes, StepTypes DEF Refuse
<1>4. CASE Record(p)
  <2>1. PICK pc \in Phase, todo \in SUBSET Tasks :
          tx' = [tx EXCEPT ![p] = [tx[p] EXCEPT !.pc = pc, !.todo = todo]]
    <3>1. CloseList(p) \in SUBSET Tasks /\ Siblings(p) \in SUBSET Tasks
      BY DEF CloseList, SeenOpen, Siblings, Group
    <3> DEFINE pc == tx'[p].pc
               todo == tx'[p].todo
    <3> QED BY <1>4, <3>1 DEF Record, Phase
  <2>2. [tx[p] EXCEPT !.pc = pc, !.todo = todo] \in Tx
    BY TxTypes DEF Tx
  <2> QED BY <1>4, <2>1, <2>2, StepTypes DEF Record
<1>5. CASE Skip(p)
  <2> DEFINE t == First(tx[p].todo)
             r == [tx[p] EXCEPT !.todo = @ \ {t}, !.skipped = @ \cup {t}]
  <2>1. t \in Tasks
    BY <1>5, TxTypes, FirstIsMember, PlansAssumption DEF Skip, TypeOK
  <2>2. tx' = [tx EXCEPT ![p] = r]
    BY <1>5 DEF Skip
  <2>3. r \in Tx
    <3> HIDE DEF t
    <3> QED BY <2>1, TxTypes DEF Tx
  <2> QED BY <1>5, <2>2, <2>3, StepTypes DEF Skip
<1>6. CASE Advance(p)
  <2>1. CASE SeenOpen(p) = {}
    <3> DEFINE r == [tx[p] EXCEPT !.pc = "approving"]
    <3>1. r \in Tx
      BY TxTypes DEF Tx, Phase
    <3> QED BY <1>6, <2>1, <3>1, StepTypes DEF Advance
  <2>2. CASE SeenOpen(p) # {}
    <3>1. NextTask(p) \in Tasks
      <4>1. SeenOpen(p) \in SUBSET Tasks
        BY DEF SeenOpen
      <4> QED BY <4>1, <2>2, FirstIsMember, PlansAssumption DEF TypeOK, NextTask
    <3>2. OpenList(p) \in SUBSET Tasks
      BY DEF OpenList, Group
    <3> DEFINE r == [tx[p] EXCEPT !.pc = "opening", !.next = NextTask(p), !.todo = OpenList(p)]
    <3>3. r \in Tx
      BY <3>1, <3>2, TxTypes DEF Tx, Phase
    <3> QED BY <1>6, <2>2, <3>3, StepTypes DEF Advance
  <2> QED BY <2>1, <2>2
<1>7. CASE Open(p)
  <2> DEFINE t == First(tx[p].todo)
             r == [tx[p] EXCEPT !.todo = @ \ {t}, !.opened = @ \cup {t}]
  <2>1. t \in Tasks
    BY <1>7, TxTypes, FirstIsMember, PlansAssumption DEF Open, TypeOK
  <2>2. tx' = [tx EXCEPT ![p] = r]
    BY <1>7 DEF Open
  <2>3. r \in Tx
    <3> HIDE DEF t
    <3> QED BY <2>1, TxTypes DEF Tx
  <2> QED BY <1>7, <2>2, <2>3, StepTypes DEF Open
<1>8. CASE CommitWaiting(p)
  <2>1. inst' \in InstanceStatus /\ pr' \in RequestStatus
    BY <1>8 DEF CommitWaiting, Proceed, TypeOK, InstanceStatus, ActiveInstance
  <2> QED BY <1>8, <2>1, CommitTypes DEF CommitWaiting
<1>9. CASE CommitAdvance(p)
  <2>1. inst' \in InstanceStatus
    BY <1>9 DEF CommitAdvance, Proceed, TypeOK, InstanceStatus, ActiveInstance
  <2>2. Staged(KeyOf(tx[p].next)) \in RequestStatus
    BY TxTypes DEF Staged, KeyOf, RequestStatus, Keys, TypeOK, Info
  <2>3. pr' \in RequestStatus
    BY <1>9, <2>2 DEF CommitAdvance, TypeOK
  <2> QED BY <1>9, <2>1, <2>3, CommitTypes DEF CommitAdvance
<1>10. CASE CommitClosed(p)
  <2>1. OutcomeOf(tx[p].act) \in Outcomes
    BY DEF OutcomeOf, Outcomes
  <2>2. inst' \in InstanceStatus /\ pr' \in RequestStatus
    BY <1>10, <2>1 DEF CommitClosed, InstanceStatus, Ended, RequestStatus, Keys, Terminal
  <2> QED BY <1>10, <2>2, CommitTypes DEF CommitClosed
<1>11. CASE CommitApproved(p)
  <2>1. inst' \in InstanceStatus /\ pr' \in RequestStatus
    BY <1>11 DEF CommitApproved, InstanceStatus, Outcomes, Ended, RequestStatus, Keys, Terminal
  <2> QED BY <1>11, <2>1, CommitTypes DEF CommitApproved
<1>12. CASE ReserveRefused(p) \/ DeadlockAbort(p)
  BY <1>12, IdleTypes DEF ReserveRefused, DeadlockAbort, Rollback, TypeOK
<1> QED
  BY <1>1, <1>2, <1>3, <1>4, <1>5, <1>6, <1>7, <1>8, <1>9, <1>10, <1>11, <1>12
  DEF Decide, Commit

LEMMA SlaTypes ==
  ASSUME TypeOK, NEW s \in Sweepers, Sla(s)
  PROVE  TypeOK'
<1> USE DEF taskVars
<1>1. sweep[s] \in Sweep /\ sweep[s].todo \in SUBSET Tasks /\ sweep[s].at \in Tasks
  BY DEF TypeOK, Sweep
<1>2. ASSUME SlaNext(s) PROVE sweep' \in [Sweepers -> Sweep]
  <2>1. 1 \in Tasks
    BY PlansAssumption DEF Tasks
  <2> QED BY <1>1, <1>2, <2>1, IdleTypes DEF SlaNext, TypeOK, Sweep, SweepPhase
<1>3. CASE SlaBegin(s)
  BY <1>1, <1>3 DEF SlaBegin, TypeOK, Sweep, SweepPhase, Overdue
<1>4. CASE \E t \in Tasks : SlaExpire(s, t)
  BY <1>1, <1>4 DEF SlaExpire, TypeOK, Sweep, SweepPhase, TaskStatus
<1>5. CASE \E u \in Users : SlaEscalate(s, u)
  <2>1. PICK u \in Users : SlaEscalate(s, u)
    BY <1>5
  <2>2. NewTask \in Tasks
    BY <2>1, NewTaskIsFree DEF SlaEscalate, Free
  <2>3. [info[sweep[s].at] EXCEPT !.approver = u, !.origin = sweep[s].at] \in Info
    <3>1. info[sweep[s].at] \in Info
      BY <1>1 DEF TypeOK
    <3> QED BY <1>1, <3>1 DEF Info
  <2>4. info' \in [Tasks -> Info] /\ status' \in [Tasks -> TaskStatus]
    BY <2>1, <2>2, <2>3 DEF SlaEscalate, TypeOK, TaskStatus, OpenStatus
  <2> QED BY <1>2, <2>1, <2>4 DEF SlaEscalate, TypeOK
<1>6. CASE SlaNoFallback(s)
  BY <1>2, <1>6 DEF SlaNoFallback, TypeOK
<1>7. CASE SlaAbort(s)
  BY <1>7, IdleTypes DEF SlaAbort, TypeOK
<1> QED BY <1>3, <1>4, <1>5, <1>6, <1>7 DEF Sla

LEMMA TypesKept ==
  ASSUME TypeOK, [Next]_vars
  PROVE  TypeOK'
<1>1. CASE \E p \in Deciders : Decide(p)
  BY <1>1, DecideTypes
<1>2. CASE \E t \in Tasks : Elapse(t)
  BY <1>2 DEF Elapse, TypeOK
<1>3. CASE \E s \in Sweepers : Sla(s)
  BY <1>3, SlaTypes
<1>4. CASE UNCHANGED vars
  BY <1>4 DEF vars, TypeOK
<1> QED BY <1>1, <1>2, <1>3, <1>4 DEF Next

(* Every reachable state is well typed: no interleaving of decisions and   *)
(* SLA runs puts a value in a column that the schema does not know.        *)
THEOREM TypeCorrect == Spec => []TypeOK
<1>1. TypeOK /\ [Next]_vars => TypeOK'
  BY TypesKept
<1> QED BY InitialTypes, <1>1, PTL DEF Spec

(***************************************************************************)
(* Without SLA runs.  While transactions are under way ...                 *)
(***************************************************************************)
InFlight(p) == tx[p].pc \notin {"idle", "asked"}

(* no row is locked twice, the row being decided is still pending, and one *)
(* that has yet to lock its row has skipped none;                          *)
LocksDisjoint == \A p, q \in Deciders : p # q => Held(p) \cap Held(q) = {}
DecidesPending ==
  \A p \in Deciders : IF InFlight(p) THEN status[tx[p].task] = "pending"
                      ELSE tx[p].skipped = {}

(* a refusal has yet to close, or has closed, every open row, and an       *)
(* approval is final only when it holds every open row;                    *)
ClosesEveryRow ==
  \A p \in Deciders, t \in Tasks :
    tx[p].pc = "closing" /\ status[t] \in OpenStatus
      => t \in {tx[p].task} \cup tx[p].todo \cup tx[p].skipped
ApprovesTheLast ==
  \A p \in Deciders, t \in Tasks :
    tx[p].pc = "approving" /\ status[t] \in OpenStatus
      => t \in {tx[p].task} \cup tx[p].skipped

(* a transaction that opens a step holds every pending row, and opens all  *)
(* queued rows of the first step that has any.                             *)
LocksOf(r) == IF r.pc \in {"idle", "asked"} THEN {}
              ELSE {r.task} \cup r.skipped \cup r.opened
OpeningOf(r) == IF r.pc = "opening" THEN r.todo \cup r.opened ELSE {}
OpensNext(r) ==
  /\ r.pc # "opening" => r.opened = {}
  /\ \A t \in OpeningOf(r) :
       /\ status[t] = "queued"
       /\ \A u \in Tasks : status[u] = "pending" => u \in {r.task} \cup r.skipped
       /\ \A u \in OpeningOf(r) : info[u].order = info[t].order
       /\ \A u \in Tasks \ (OpeningOf(r) \cup r.skipped) :
            status[u] = "queued" => info[t].order < info[u].order
OpensNextStep == \A p \in Deciders : OpensNext(tx[p])

(* The rows of later steps are queued, no open row is decided, ...         *)
StepsInOrder ==
  \A t, u \in Tasks :
    status[t] = "pending" =>
      /\ status[u] = "pending" => info[t].order = info[u].order
      /\ status[u] = "queued" => info[t].order < info[u].order
OpenIsUndecided == \A t \in Tasks : status[t] \in OpenStatus => decision[t] = "none"

(* ... and an instance that is over has no transaction left.               *)
OverIsOver == inst \in Outcomes => \A p \in Deciders : ~InFlight(p)

Unswept ==
  /\ TypeOK
  /\ LocksDisjoint
  /\ DecidesPending
  /\ ClosesEveryRow
  /\ ApprovesTheLast
  /\ OpensNextStep
  /\ StepsInOrder
  /\ OpenIsUndecided
  /\ OverIsOver
  /\ RequestMirrorsInstance

LEMMA InFlightHolds ==
  ASSUME Unswept, NEW p \in Deciders, InFlight(p)
  PROVE  /\ tx[p].task \in Held(p) /\ inst \notin Outcomes
         /\ status[tx[p].task] = "pending"
         /\ Held(p) = {tx[p].task} \cup tx[p].skipped \cup tx[p].opened
BY DEF Unswept, OverIsOver, InFlight, Held, DecidesPending

(* Nobody else is under way while a transaction opens a step: its task,    *)
(* which is pending, would be locked twice.                                *)
LEMMA OpensAlone ==
  ASSUME Unswept, NEW p \in Deciders, NEW q \in Deciders, p # q,
         OpeningOf(tx[p]) # {}, InFlight(q)
  PROVE  FALSE
<1>1. tx[q].task \in Tasks /\ status[tx[q].task] = "pending"
  BY TxTypes, InFlightHolds DEF Unswept
<1>2. tx[p].pc = "opening"
  BY DEF OpeningOf
<1>3. tx[q].task \in {tx[p].task} \cup tx[p].skipped
  BY <1>1 DEF Unswept, OpensNextStep, OpensNext
<1>4. tx[q].task \in Held(p) \cap Held(q)
  BY <1>2, <1>3 DEF Held, InFlight
<1> QED BY <1>4 DEF Unswept, LocksDisjoint

(* A step inside one transaction keeps the invariant if the transaction's  *)
(* new record fits the rows.                                               *)
LEMMA StepKeeps ==
  ASSUME Unswept, NEW p \in Deciders, NEW r \in Tx, TypeOK',
         tx' = [tx EXCEPT ![p] = r],
         UNCHANGED <<info, status, decision, inst, pr>>,
         \A q \in Deciders \ {p} : LocksOf(r) \cap Held(q) = {},
         IF r.pc \in {"idle", "asked"} THEN r.skipped = {}
         ELSE status[r.task] = "pending" /\ inst \notin Outcomes,
         \A t \in Tasks : r.pc = "closing" /\ status[t] \in OpenStatus
                            => t \in {r.task} \cup r.todo \cup r.skipped,
         \A t \in Tasks : r.pc = "approving" /\ status[t] \in OpenStatus
                            => t \in {r.task} \cup r.skipped,
         OpensNext(r)
  PROVE  Unswept'
<1>1. tx'[p] = r /\ \A q \in Deciders \ {p} : tx'[q] = tx[q]
  BY DEF Unswept, TypeOK
<1>2. Held(p)' = LocksOf(r)
  BY <1>1 DEF Held, LocksOf
<1>3. ASSUME NEW q \in Deciders \ {p} PROVE Held(q)' = Held(q)
  BY <1>1 DEF Held
<1>4. LocksDisjoint'
  BY <1>2, <1>3 DEF Unswept, LocksDisjoint
<1>5. DecidesPending'
  BY <1>1 DEF Unswept, DecidesPending, InFlight
<1>6. ClosesEveryRow'
  BY <1>1 DEF Unswept, ClosesEveryRow
<1>7. ApprovesTheLast'
  BY <1>1 DEF Unswept, ApprovesTheLast
<1>8. OpensNextStep'
  <2> SUFFICES ASSUME NEW q \in Deciders PROVE OpensNext(tx[q])'
    BY DEF OpensNextStep
  <2>1. CASE q = p
    BY <2>1, <1>1 DEF OpensNext
  <2>2. CASE q # p
    BY <2>2, <1>1 DEF Unswept, OpensNextStep, OpensNext
  <2> QED BY <2>1, <2>2
<1>9. StepsInOrder' /\ OpenIsUndecided'
  BY DEF Unswept, StepsInOrder, OpenIsUndecided
<1>10. OverIsOver'
  BY <1>1 DEF Unswept, OverIsOver, InFlight
<1>11. RequestMirrorsInstance'
  BY DEF Unswept, RequestMirrorsInstance
<1> QED
  BY <1>4, <1>5, <1>6, <1>7, <1>8, <1>9, <1>10, <1>11 DEF Unswept

(* What a commit makes of a row: none becomes open, and the pending rows   *)
(* are those it has opened and those it has not touched.                   *)
LEMMA CommittedRow ==
  ASSUME Unswept, NEW p \in Deciders, InFlight(p), CommitRows(p), NEW t \in Tasks
  PROVE  /\ status'[t] = "queued" => status[t] = "queued" /\ t \notin Held(p)
         /\ status'[t] = "pending" =>
              /\ t # tx[p].task
              /\ \/ t \in tx[p].opened
                 \/ status[t] = "pending" /\ t \notin tx[p].skipped
         /\ status'[t] \in OpenStatus => status[t] \in OpenStatus /\ t # tx[p].task
         /\ t \notin Held(p) => status'[t] = status[t]
<1>1. status'[t] = Seen(p, t)
  BY DEF CommitRows
<1>2. StatusAfter(tx[p].act) \notin OpenStatus
  BY DEF StatusAfter, OpenStatus
<1>3. t \in tx[p].opened => status[t] = "queued"
  BY DEF Unswept, OpensNextStep, OpensNext, OpeningOf
<1> QED BY <1>1, <1>2, <1>3, InFlightHolds DEF Seen, OpenStatus

(* The commit of a transaction, whatever it makes of the instance.         *)
LEMMA CommitKeeps ==
  ASSUME Unswept, NEW p \in Deciders, InFlight(p), CommitRows(p), TypeOK',
         tx[p].pc = "opening" => tx[p].todo = {}
  PROVE  /\ LocksDisjoint' /\ DecidesPending' /\ ClosesEveryRow' /\ ApprovesTheLast'
         /\ OpensNextStep' /\ StepsInOrder' /\ OpenIsUndecided'
         /\ \A q \in Deciders : InFlight(q)' => q # p /\ InFlight(q)
<1>1. tx'[p] = IdleTx /\ \A q \in Deciders \ {p} : tx'[q] = tx[q]
  BY DEF Unswept, TypeOK, CommitRows
<1>2. /\ IdleTx.pc = "idle" /\ IdleTx.skipped = {} /\ IdleTx.opened = {}
      /\ info' = info
  BY DEF IdleTx, CommitRows
<1>3. Held(p)' = {}
  BY <1>1, <1>2 DEF Held
<1>4. ASSUME NEW q \in Deciders \ {p} PROVE Held(q)' = Held(q)
  BY <1>1 DEF Held
<1>5. LocksDisjoint'
  BY <1>3, <1>4 DEF Unswept, LocksDisjoint
<1>6. \A q \in Deciders : InFlight(q)' => q # p /\ InFlight(q)
  BY <1>1, <1>2 DEF InFlight
<1>7. DecidesPending'
  <2> SUFFICES ASSUME NEW q \in Deciders
               PROVE  IF InFlight(q)' THEN status'[tx'[q].task] = "pending"
                      ELSE tx'[q].skipped = {}
    BY DEF DecidesPending
  <2>1. CASE InFlight(q)'
    <3>1. q # p /\ InFlight(q) /\ tx'[q] = tx[q] /\ tx[q].task \in Tasks
      BY <2>1, <1>6, <1>1, TxTypes DEF Unswept
    <3>2. tx[q].task \notin Held(p) /\ status[tx[q].task] = "pending"
      BY <3>1, InFlightHolds DEF Unswept, LocksDisjoint
    <3> QED BY <2>1, <3>1, <3>2, CommittedRow
  <2>2. CASE ~InFlight(q)'
    BY <2>2, <1>1, <1>2 DEF Unswept, DecidesPending, InFlight
  <2> QED BY <2>1, <2>2
<1>8. ClosesEveryRow' /\ ApprovesTheLast'
  BY <1>1, <1>2, CommittedRow DEF Unswept, ClosesEveryRow, ApprovesTheLast
<1>9. OpensNextStep'
  <2> SUFFICES ASSUME NEW q \in Deciders PROVE OpensNext(tx[q])'
    BY DEF OpensNextStep
  <2>1. CASE q = p
    BY <2>1, <1>1, <1>2 DEF OpensNext, OpeningOf
  <2>2. CASE q # p
    <3>1. OpeningOf(tx[q]) = {} /\ tx'[q] = tx[q]
      BY <2>2, <1>1, OpensAlone
    <3> QED BY <3>1 DEF Unswept, OpensNextStep, OpensNext
  <2> QED BY <2>1, <2>2
<1>10. StepsInOrder'
  <2> SUFFICES ASSUME NEW t \in Tasks, NEW u \in Tasks, status'[t] = "pending"
               PROVE  /\ status'[u] = "pending" => info[t].order = info[u].order
                      /\ status'[u] = "queued" => info[t].order < info[u].order
    BY <1>2 DEF StepsInOrder
  <2>1. CASE tx[p].opened = {}
    BY <2>1, CommittedRow DEF Unswept, StepsInOrder
  <2>2. CASE tx[p].opened # {}
    <3>1. tx[p].pc = "opening" /\ OpeningOf(tx[p]) = tx[p].opened
      BY <2>2 DEF Unswept, OpensNextStep, OpensNext, OpeningOf
    <3>2. PICK v \in tx[p].opened : TRUE
      BY <2>2
    <3>3. \A w \in Tasks : status[w] = "pending" => w \in {tx[p].task} \cup tx[p].skipped
      BY <3>1, <3>2 DEF Unswept, OpensNextStep, OpensNext
    <3>4. \A w \in Tasks : status'[w] = "pending" => w \in tx[p].opened
      BY <3>3, CommittedRow
    <3>5. CASE status'[u] = "pending"
      BY <3>1, <3>4, <3>5 DEF Unswept, OpensNextStep, OpensNext
    <3>6. CASE status'[u] = "queued"
      <4>1. status[u] = "queued" /\ u \notin OpeningOf(tx[p]) \cup tx[p].skipped
        BY <3>1, <3>6, CommittedRow, InFlightHolds
      <4> QED BY <3>1, <3>4, <3>6, <4>1 DEF Unswept, OpensNextStep, OpensNext
    <3> QED BY <3>5, <3>6
  <2> QED BY <2>1, <2>2
<1>11. OpenIsUndecided'
  <2> SUFFICES ASSUME NEW t \in Tasks, status'[t] \in OpenStatus
               PROVE  decision'[t] = "none"
    BY DEF OpenIsUndecided
  <2>1. status[t] \in OpenStatus /\ t # tx[p].task
    BY CommittedRow
  <2> QED BY <2>1 DEF Unswept, OpenIsUndecided, TypeOK, CommitRows
<1> QED BY <1>5, <1>6, <1>7, <1>8, <1>9, <1>10, <1>11

LEMMA OwnLocks ==
  ASSUME Unswept, NEW p \in Deciders
  PROVE  /\ LocksOf(tx[p]) = Held(p)
         /\ \A q \in Deciders \ {p} : LocksOf(tx[p]) \cap Held(q) = {}
         /\ OpensNext(tx[p])
BY DEF LocksOf, Held, Unswept, LocksDisjoint, OpensNextStep

(* The same for a transaction that has locked its row.                     *)
LEMMA InFlightStepKeeps ==
  ASSUME Unswept, NEW p \in Deciders, InFlight(p), NEW r \in Tx, TypeOK',
         tx' = [tx EXCEPT ![p] = r],
         UNCHANGED <<info, status, decision, inst, pr>>,
         r.pc \notin {"idle", "asked"}, r.task = tx[p].task,
         NEW L \in SUBSET Tasks, LocksOf(r) = Held(p) \cup L,
         \A q \in Deciders \ {p} : L \cap Held(q) = {},
         r.pc = "closing" => \A t \in Tasks :
           status[t] \in OpenStatus => t \in {r.task} \cup r.todo \cup r.skipped,
         r.pc = "approving" => \A t \in Tasks :
           status[t] \in OpenStatus => t \in {r.task} \cup r.skipped,
         OpensNext(r)
  PROVE  Unswept'
<1>1. status[r.task] = "pending" /\ inst \notin Outcomes
  BY InFlightHolds
<1>2. \A q \in Deciders \ {p} : LocksOf(r) \cap Held(q) = {}
  BY OwnLocks
<1>3. \A t \in Tasks : r.pc = "closing" /\ status[t] \in OpenStatus
                         => t \in {r.task} \cup r.todo \cup r.skipped
  OBVIOUS
<1>4. \A t \in Tasks : r.pc = "approving" /\ status[t] \in OpenStatus
                         => t \in {r.task} \cup r.skipped
  OBVIOUS
<1> QED BY <1>1, <1>2, <1>3, <1>4, StepKeeps

(* A transaction that ends without a commit leaves nothing behind.         *)
LEMMA RollbackKeeps ==
  ASSUME Unswept, NEW p \in Deciders, TypeOK',
         tx' = [tx EXCEPT ![p] = IdleTx],
         UNCHANGED <<taskVars, inst, pr, sweep>>
  PROVE  Unswept'
<1>1. OpensNext(IdleTx) /\ LocksOf(IdleTx) = {} /\ IdleTx.pc = "idle" /\ IdleTx.skipped = {}
  BY DEF OpensNext, OpeningOf, LocksOf, IdleTx
<1> QED BY <1>1, IdleTypes, StepKeeps DEF taskVars

LEMMA BeginKeeps ==
  ASSUME Unswept, NEW p \in Deciders, NEW t \in Tasks, NEW act \in Acts,
         Begin(p, t, act), TypeOK'
  PROVE  Unswept'
<1> DEFINE r == [IdleTx EXCEPT !.pc = "asked", !.task = t, !.act = act]
<1>1. r \in Tx
  BY IdleTypes DEF Tx, Phase
<1>2. r.pc = "asked" /\ r.skipped = {} /\ r.opened = {}
  BY DEF IdleTx
<1>3. tx' = [tx EXCEPT ![p] = r] /\ UNCHANGED <<info, status, decision, inst, pr>>
  BY DEF Begin, taskVars
<1> HIDE DEF r
<1>4. OpensNext(r) /\ LocksOf(r) = {}
  BY <1>2 DEF OpensNext, OpeningOf, LocksOf
<1> QED BY <1>1, <1>2, <1>3, <1>4, StepKeeps

(* The row is pending, and nobody else's, when it is locked.               *)
LEMMA LockKeeps ==
  ASSUME Unswept, NEW p \in Deciders, LockStep(p), TypeOK'
  PROVE  Unswept'
<1> DEFINE r == [tx[p] EXCEPT !.pc = "locked", !.seenInst = inst, !.seenPr = pr]
<1>1. tx' = [tx EXCEPT ![p] = r] /\ UNCHANGED <<info, status, decision, inst, pr>>
  BY DEF LockStep, taskVars
<1>2. r \in Tx
  BY TxTypes DEF Tx, Phase, Unswept, TypeOK
<1>3. /\ r.pc = "locked" /\ r.task = tx[p].task /\ r.skipped = tx[p].skipped
      /\ r.opened = tx[p].opened
  BY TxTypes DEF Tx, Unswept
<1>4. tx[p].skipped = {} /\ tx[p].opened = {}
  BY OwnLocks DEF Unswept, DecidesPending, InFlight, LockStep, OpensNext
<1> HIDE DEF r
<1>5. LocksOf(r) = {tx[p].task} /\ OpensNext(r)
  BY <1>3, <1>4 DEF LocksOf, OpensNext, OpeningOf
<1>6. \A q \in Deciders \ {p} : LocksOf(r) \cap Held(q) = {}
  BY <1>5 DEF LockStep, FreeFor
<1>7. status[r.task] = "pending" /\ inst \notin Outcomes
  BY <1>3 DEF LockStep, Decidable, ActiveInstance, Outcomes
<1> QED BY <1>1, <1>2, <1>3, <1>5, <1>6, <1>7, StepKeeps

(* The rows a refusal lists are all the open ones.                         *)
LEMMA RecordKeeps ==
  ASSUME Unswept, NEW p \in Deciders, Record(p), TypeOK'
  PROVE  Unswept'
<1>0. tx[p].pc = "locked" /\ InFlight(p) /\ tx[p].opened = {}
  BY OwnLocks DEF Record, InFlight, OpensNext
<1>1. PICK pc \in {"closing", "waiting", "siblings"}, todo \in SUBSET Tasks :
        /\ tx' = [tx EXCEPT ![p] = [tx[p] EXCEPT !.pc = pc, !.todo = todo]]
        /\ pc = "closing" => todo = CloseList(p)
  <2>1. CloseList(p) \in SUBSET Tasks /\ Siblings(p) \in SUBSET Tasks
    BY DEF CloseList, SeenOpen, Siblings, Group
  <2> DEFINE pc == IF tx[p].act # "approve" THEN "closing"
                   ELSE IF info[tx[p].task].mode = "parallel_all" /\ ~GroupApproved(p)
                        THEN "waiting" ELSE "siblings"
             todo == IF tx[p].act # "approve" THEN CloseList(p)
                     ELSE IF info[tx[p].task].mode = "parallel_any" THEN Siblings(p) ELSE {}
  <2>2. tx' = [tx EXCEPT ![p] = [tx[p] EXCEPT !.pc = pc, !.todo = todo]]
    BY DEF Record
  <2>3. pc \in {"closing", "waiting", "siblings"} /\ todo \in SUBSET Tasks
    BY <2>1
  <2>4. pc = "closing" => todo = CloseList(p)
    OBVIOUS
  <2> HIDE DEF pc, todo
  <2> QED BY <2>2, <2>3, <2>4
<1> DEFINE r == [tx[p] EXCEPT !.pc = pc, !.todo = todo]
<1>2. r \in Tx
  BY TxTypes DEF Tx, Phase, Unswept
<1>3. /\ r.pc = pc /\ r.task = tx[p].task /\ r.skipped = tx[p].skipped
      /\ r.opened = tx[p].opened /\ r.todo = todo
  BY TxTypes DEF Tx, Unswept
<1> HIDE DEF r
<1>4. LocksOf(r) = Held(p) /\ OpensNext(r)
  BY <1>0, <1>3, InFlightHolds DEF LocksOf, OpensNext, OpeningOf
<1>5. r.pc = "closing" => \A t \in Tasks :
        status[t] \in OpenStatus => t \in {r.task} \cup r.todo \cup r.skipped
  BY <1>0, <1>1, <1>3 DEF CloseList, SeenOpen, Seen
<1>6. UNCHANGED <<info, status, decision, inst, pr>> /\ tx' = [tx EXCEPT ![p] = r]
  BY <1>1 DEF Record, taskVars, r
<1>7. r.pc \notin {"idle", "asked", "approving"} /\ LocksOf(r) = Held(p) \cup {}
  BY <1>3, <1>4
<1> QED
  BY <1>0, <1>2, <1>3, <1>4, <1>5, <1>6, <1>7, InFlightStepKeeps

(* The next row of the list, once it is free, is locked and skipped ...    *)
LEMMA SkipKeeps ==
  ASSUME Unswept, NEW p \in Deciders, Skip(p), TypeOK'
  PROVE  Unswept'
<1> DEFINE t == First(tx[p].todo)
           r == [tx[p] EXCEPT !.todo = @ \ {t}, !.skipped = @ \cup {t}]
<1>0. InFlight(p) /\ tx[p].opened = {} /\ tx[p].pc \in {"siblings", "closing"}
  BY OwnLocks DEF Skip, InFlight, OpensNext
<1>1. t \in tx[p].todo /\ t \in Tasks
  BY TxTypes, FirstIsMember, PlansAssumption DEF Skip, Unswept, TypeOK
<1>2. tx' = [tx EXCEPT ![p] = r] /\ UNCHANGED <<info, status, decision, inst, pr>>
  BY DEF Skip, taskVars
<1>3. \A q \in Deciders \ {p} : t \notin Held(q)
  BY DEF Skip, FreeFor
<1> HIDE DEF t
<1>4. r \in Tx
  BY <1>1, TxTypes DEF Tx, Unswept
<1>5. /\ r.pc = tx[p].pc /\ r.task = tx[p].task /\ r.skipped = tx[p].skipped \cup {t}
      /\ r.opened = tx[p].opened /\ r.todo = tx[p].todo \ {t}
  BY TxTypes DEF Tx, Unswept
<1> HIDE DEF r
<1>6. LocksOf(r) = Held(p) \cup {t} /\ OpensNext(r)
  BY <1>0, <1>5, InFlightHolds DEF LocksOf, OpensNext, OpeningOf
<1>7. \A q \in Deciders \ {p} : {t} \cap Held(q) = {}
  BY <1>3
<1>8. r.pc = "closing" => \A u \in Tasks :
        status[u] \in OpenStatus => u \in {r.task} \cup r.todo \cup r.skipped
  BY <1>5 DEF Unswept, ClosesEveryRow
<1>9. r.pc \notin {"idle", "asked", "approving"} /\ {t} \in SUBSET Tasks
  BY <1>0, <1>1, <1>5
<1> QED
  BY <1>0, <1>2, <1>4, <1>5, <1>6, <1>7, <1>8, <1>9, InFlightStepKeeps

(* ... or opened.                                                          *)
LEMMA OpenKeeps ==
  ASSUME Unswept, NEW p \in Deciders, Open(p), TypeOK'
  PROVE  Unswept'
<1> DEFINE t == First(tx[p].todo)
           r == [tx[p] EXCEPT !.todo = @ \ {t}, !.opened = @ \cup {t}]
<1>0. InFlight(p) /\ tx[p].pc = "opening"
  BY DEF Open, InFlight
<1>1. t \in tx[p].todo /\ t \in Tasks
  BY TxTypes, FirstIsMember, PlansAssumption DEF Open, Unswept, TypeOK
<1>2. tx' = [tx EXCEPT ![p] = r] /\ UNCHANGED <<info, status, decision, inst, pr>>
  BY DEF Open, taskVars
<1>3. \A q \in Deciders \ {p} : t \notin Held(q)
  BY DEF Open, FreeFor
<1> HIDE DEF t
<1>4. r \in Tx
  BY <1>1, TxTypes DEF Tx, Unswept
<1>5. /\ r.pc = tx[p].pc /\ r.task = tx[p].task /\ r.skipped = tx[p].skipped
      /\ r.opened = tx[p].opened \cup {t} /\ r.todo = tx[p].todo \ {t}
  BY TxTypes DEF Tx, Unswept
<1> HIDE DEF r
<1>6. LocksOf(r) = Held(p) \cup {t} /\ OpeningOf(r) = OpeningOf(tx[p])
  BY <1>0, <1>1, <1>5, InFlightHolds DEF LocksOf, OpeningOf
<1>7. OpensNext(r)
  BY <1>0, <1>5, <1>6, OwnLocks DEF OpensNext
<1>8. \A q \in Deciders \ {p} : {t} \cap Held(q) = {}
  BY <1>3
<1>9. r.pc \notin {"idle", "asked", "closing", "approving"} /\ {t} \in SUBSET Tasks
  BY <1>0, <1>1, <1>5
<1> QED
  BY <1>0, <1>2, <1>4, <1>5, <1>6, <1>7, <1>8, <1>9, InFlightStepKeeps

(* advance finds the first step with open rows.  If one of its rows is     *)
(* queued, every pending row is one the transaction has dealt with.        *)
LEMMA AdvanceKeeps ==
  ASSUME Unswept, NEW p \in Deciders, Advance(p), TypeOK'
  PROVE  Unswept'
<1>0. InFlight(p) /\ tx[p].opened = {} /\ tx[p].pc = "siblings"
  BY OwnLocks DEF Advance, InFlight, OpensNext
<1>1. UNCHANGED <<info, status, decision, inst, pr>>
  BY DEF Advance, taskVars
<1>2. CASE SeenOpen(p) = {}
  <2> DEFINE r == [tx[p] EXCEPT !.pc = "approving"]
  <2>1. r \in Tx /\ tx' = [tx EXCEPT ![p] = r]
    BY <1>2, TxTypes DEF Tx, Phase, Unswept, Advance
  <2>2. /\ r.pc = "approving" /\ r.task = tx[p].task /\ r.skipped = tx[p].skipped
        /\ r.opened = tx[p].opened
    BY TxTypes DEF Tx, Unswept
  <2> HIDE DEF r
  <2>3. LocksOf(r) = Held(p) /\ OpensNext(r)
    BY <1>0, <2>2, InFlightHolds DEF LocksOf, OpensNext, OpeningOf
  <2>4. \A t \in Tasks : status[t] \in OpenStatus => t \in {r.task} \cup r.skipped
    BY <1>0, <1>2, <2>2 DEF SeenOpen, Seen
  <2>5. LocksOf(r) = Held(p) \cup {}
    BY <2>3
  <2> QED BY <1>0, <1>1, <2>1, <2>2, <2>3, <2>4, <2>5, InFlightStepKeeps
<1>3. CASE SeenOpen(p) # {}
  <2> DEFINE n == NextTask(p)
             r == [tx[p] EXCEPT !.pc = "opening", !.next = n, !.todo = OpenList(p)]
  <2>1. SeenOpen(p) \in SUBSET Tasks
    BY DEF SeenOpen
  <2>2. n \in Tasks /\ \A u \in SeenOpen(p) : info[n].order <= info[u].order
    BY <1>3, <2>1, FirstIsMember, PlansAssumption DEF NextTask, Unswept, TypeOK
  <2>3. OpenList(p) \in SUBSET Tasks
    BY DEF OpenList, Group
  <2>4. tx' = [tx EXCEPT ![p] = r]
    BY <1>3 DEF Advance
  <2>5. \A t \in Tasks : info[t].order \in Nat
    BY DEF Unswept, TypeOK, Info
  <2>6. /\ \A t \in OpenList(p) : info[t].order = info[n].order
        /\ \A t \in Tasks : t \in OpenList(p) <=>
             Seen(p, t) = "queued" /\ info[t].order = info[n].order
    BY DEF OpenList, Group
  <2> HIDE DEF n
  <2>7. r \in Tx
    BY <2>2, <2>3, TxTypes DEF Tx, Phase, Unswept
  <2>8. /\ r.pc = "opening" /\ r.task = tx[p].task /\ r.skipped = tx[p].skipped
        /\ r.opened = {} /\ r.todo = OpenList(p)
    BY <1>0, TxTypes DEF Tx, Unswept
  <2> HIDE DEF r
  <2>9. LocksOf(r) = Held(p) /\ OpeningOf(r) = OpenList(p)
    BY <1>0, <2>8, InFlightHolds DEF LocksOf, OpeningOf
  <2>10. /\ \A t \in Tasks : Seen(p, t) = "queued" =>
              t # tx[p].task /\ t \notin tx[p].skipped /\ status[t] = "queued"
         /\ \A t \in Tasks : t \notin {tx[p].task} \cup tx[p].skipped =>
              Seen(p, t) = status[t]
    BY <1>0 DEF Seen, StatusAfter
  <2>11. OpensNext(r)
    <3> SUFFICES ASSUME NEW t \in OpenList(p)
                 PROVE  /\ status[t] = "queued"
                        /\ \A u \in Tasks : status[u] = "pending" => u \in {tx[p].task} \cup tx[p].skipped
                        /\ \A u \in OpenList(p) : info[u].order = info[t].order
                        /\ \A u \in Tasks \ (OpenList(p) \cup tx[p].skipped) :
                             status[u] = "queued" => info[t].order < info[u].order
      BY <2>8, <2>9 DEF OpensNext
    <3>1. t \in Tasks /\ status[t] = "queued" /\ info[t].order = info[n].order
      BY <2>3, <2>6, <2>10
    <3>2. ASSUME NEW u \in Tasks, status[u] = "pending",
                 u \notin {tx[p].task} \cup tx[p].skipped
          PROVE  FALSE
      <4>1. u \in SeenOpen(p)
        BY <3>2, <2>10 DEF SeenOpen, OpenStatus
      <4>2. info[u].order < info[t].order
        BY <3>1, <3>2 DEF Unswept, StepsInOrder
      <4> QED BY <2>2, <2>5, <3>1, <4>1, <4>2
    <3>3. \A u \in OpenList(p) : info[u].order = info[t].order
      BY <2>6, <3>1
    <3>4. ASSUME NEW u \in Tasks \ (OpenList(p) \cup tx[p].skipped), status[u] = "queued"
          PROVE  info[t].order < info[u].order
      <4>1. u # tx[p].task
        BY <1>0, <3>4, InFlightHolds
      <4>2. Seen(p, u) = "queued" /\ u \in SeenOpen(p)
        BY <2>10, <3>4, <4>1 DEF SeenOpen, OpenStatus
      <4>3. info[n].order <= info[u].order /\ info[u].order # info[n].order
        BY <2>2, <2>6, <4>2, <3>4
      <4> QED BY <2>2, <2>5, <3>1, <4>3
    <3> QED BY <3>1, <3>2, <3>3, <3>4
  <2>12. LocksOf(r) = Held(p) \cup {}
    BY <2>9
  <2> QED BY <1>0, <1>1, <2>4, <2>7, <2>8, <2>11, <2>12, InFlightStepKeeps
<1> QED BY <1>2, <1>3

(* Between steps the instance stays active, and so does the request.       *)
LEMMA ActiveRequest ==
  ASSUME Unswept, inst \notin Outcomes
  PROVE  pr.at = "staged"
BY DEF Unswept, RequestMirrorsInstance, TypeOK, RequestStatus, Terminal

LEMMA ProceedKeeps ==
  ASSUME Unswept, NEW p \in Deciders, CommitWaiting(p) \/ CommitAdvance(p), TypeOK'
  PROVE  Unswept'
<1>1. InFlight(p) /\ CommitRows(p) /\ (tx[p].pc = "opening" => tx[p].todo = {})
  BY DEF CommitWaiting, CommitAdvance, InFlight
<1>2. inst' \notin Outcomes
  BY <1>1, InFlightHolds DEF CommitWaiting, CommitAdvance, Proceed, Outcomes
<1>3. pr'.at = "staged"
  BY <1>1, InFlightHolds, ActiveRequest DEF CommitWaiting, CommitAdvance, Staged
<1>4. OverIsOver' /\ RequestMirrorsInstance'
  BY <1>2, <1>3 DEF OverIsOver, RequestMirrorsInstance
<1> QED BY <1>1, <1>4, CommitKeeps DEF Unswept

(* The transaction that ends the instance holds every open row, so nobody  *)
(* else is deciding one.                                                   *)
LEMMA LastAlone ==
  ASSUME Unswept, NEW p \in Deciders,
         CommitClosed(p) \/ CommitApproved(p)
  PROVE  \A q \in Deciders : InFlight(q) => q = p
<1> SUFFICES ASSUME NEW q \in Deciders, InFlight(q), q # p PROVE FALSE
  OBVIOUS
<1>1. InFlight(p)
  BY DEF CommitClosed, CommitApproved, InFlight
<1>2. tx[q].task \in Tasks /\ status[tx[q].task] \in OpenStatus /\ tx[q].task \in Held(q)
  BY InFlightHolds, TxTypes DEF Unswept, OpenStatus
<1>3. tx[q].task \in {tx[p].task} \cup tx[p].skipped
  BY <1>2 DEF Unswept, ClosesEveryRow, ApprovesTheLast, CommitClosed, CommitApproved
<1>4. tx[q].task \in Held(p)
  BY <1>1, <1>3, InFlightHolds
<1> QED BY <1>2, <1>4 DEF Unswept, LocksDisjoint

LEMMA EndKeeps ==
  ASSUME Unswept, NEW p \in Deciders, CommitClosed(p) \/ CommitApproved(p), TypeOK'
  PROVE  Unswept'
<1>1. InFlight(p) /\ CommitRows(p) /\ (tx[p].pc = "opening" => tx[p].todo = {})
  BY DEF CommitClosed, CommitApproved, InFlight
<1>2. OverIsOver'
  BY <1>1, LastAlone, CommitKeeps DEF OverIsOver
<1>3. RequestMirrorsInstance'
  BY DEF CommitClosed, CommitApproved, Ended, RequestMirrorsInstance
<1> QED BY <1>1, <1>2, <1>3, CommitKeeps DEF Unswept

LEMMA DecideKeeps ==
  ASSUME Unswept, NEW p \in Deciders, Decide(p), TypeOK'
  PROVE  Unswept'
<1>1. CASE \E t \in Tasks, act \in Acts : Begin(p, t, act)
  BY <1>1, BeginKeeps
<1>2. CASE LockStep(p)
  BY <1>2, LockKeeps
<1>3. CASE Record(p)
  BY <1>3, RecordKeeps
<1>4. CASE Skip(p)
  BY <1>4, SkipKeeps
<1>5. CASE Advance(p)
  BY <1>5, AdvanceKeeps
<1>6. CASE Open(p)
  BY <1>6, OpenKeeps
<1>7. CASE Commit(p)
  BY <1>7, ProceedKeeps, EndKeeps DEF Commit
<1>8. CASE Refuse(p) \/ ReserveRefused(p) \/ DeadlockAbort(p)
  BY <1>8, RollbackKeeps DEF Refuse, ReserveRefused, DeadlockAbort, Rollback
<1> QED BY <1>1, <1>2, <1>3, <1>4, <1>5, <1>6, <1>7, <1>8 DEF Decide

LEMMA UnsweptKept ==
  ASSUME Sweepers = {}, Unswept, [Next]_vars
  PROVE  Unswept'
<1>1. TypeOK'
  BY TypesKept DEF Unswept
<1>2. CASE \E p \in Deciders : Decide(p)
  BY <1>1, <1>2, DecideKeeps
<1>3. CASE (\E t \in Tasks : Elapse(t)) \/ UNCHANGED vars
  <2>1. UNCHANGED <<info, status, decision, inst, pr, tx>>
    BY <1>3 DEF Elapse, vars
  <2>2. LocksDisjoint' /\ DecidesPending'
    BY <2>1 DEF Unswept, LocksDisjoint, DecidesPending, Held, InFlight
  <2>3. ClosesEveryRow' /\ ApprovesTheLast' /\ OpensNextStep'
    BY <2>1 DEF Unswept, ClosesEveryRow, ApprovesTheLast, OpensNextStep, OpensNext, OpeningOf
  <2>4. StepsInOrder' /\ OpenIsUndecided' /\ OverIsOver' /\ RequestMirrorsInstance'
    BY <2>1 DEF Unswept, StepsInOrder, OpenIsUndecided, OverIsOver, InFlight,
                RequestMirrorsInstance
  <2> QED BY <1>1, <2>2, <2>3, <2>4 DEF Unswept
<1> QED BY <1>2, <1>3 DEF Next

(* The creator opens the first order with applicable steps.                *)
LEMMA InitUnswept == Init => Unswept
<1> SUFFICES ASSUME Init PROVE Unswept
  OBVIOUS
<1>1. TypeOK
  BY InitialTypes
<1>2. \A p \in Deciders : tx[p] = IdleTx
  BY DEF Init
<1>3. IdleTx.pc = "idle" /\ IdleTx.skipped = {} /\ IdleTx.opened = {}
  BY DEF IdleTx
<1>4. LocksDisjoint /\ DecidesPending /\ ClosesEveryRow /\ ApprovesTheLast /\ OpensNextStep
  BY <1>2, <1>3 DEF LocksDisjoint, Held, DecidesPending, InFlight, ClosesEveryRow,
                    ApprovesTheLast, OpensNextStep, OpensNext, OpeningOf
<1>5. StepsInOrder
  <2>1. PICK plan \in Plans :
          /\ info = [t \in Tasks |-> CreatedInfo(plan, t)]
          /\ status = [t \in Tasks |-> CreatedStatus(plan, t)]
    BY DEF Init
  <2>2. ASSUME NEW t \in Tasks, status[t] \in OpenStatus
        PROVE  /\ info[t].order \in Nat /\ FirstOrder(plan) <= info[t].order
               /\ status[t] = "pending" <=> info[t].order = FirstOrder(plan)
    <3>1. CreatedStatus(plan, t) \in OpenStatus /\ info[t] = CreatedInfo(plan, t)
          /\ status[t] = CreatedStatus(plan, t)
      BY <2>1, <2>2
    <3>2. t \in DOMAIN plan /\ plan[t].applicable
      BY <3>1 DEF CreatedStatus, OpenStatus
    <3>3. info[t].order = plan[t].order
      BY <3>1, <3>2 DEF CreatedInfo
    <3>4. info[t].order \in Nat
      BY <1>1 DEF TypeOK, Info
    <3> QED BY <3>1, <3>2, <3>3, <3>4, FirstOrderIsNat DEF CreatedStatus
  <2>3. FirstOrder(plan) \in Nat
    BY FirstOrderIsNat
  <2>4. SUFFICES ASSUME NEW t \in Tasks, NEW u \in Tasks, status[t] = "pending"
                 PROVE  /\ status[u] = "pending" => info[t].order = info[u].order
                        /\ status[u] = "queued" => info[t].order < info[u].order
    BY DEF StepsInOrder
  <2>5. info[t].order = FirstOrder(plan)
    BY <2>2, <2>4 DEF OpenStatus
  <2>6. status[u] = "pending" => info[u].order = FirstOrder(plan)
    BY <2>2 DEF OpenStatus
  <2>7. status[u] = "queued" => FirstOrder(plan) < info[u].order
    BY <2>2, <2>3 DEF OpenStatus
  <2> QED BY <2>5, <2>6, <2>7
<1>6. OpenIsUndecided /\ OverIsOver /\ RequestMirrorsInstance
  BY DEF Init, OpenIsUndecided, OverIsOver, RequestMirrorsInstance, Outcomes, Staged
<1> QED BY <1>1, <1>4, <1>5, <1>6 DEF Unswept

LEMMA SpecUnswept == ASSUME Sweepers = {} PROVE Spec => []Unswept
<1>1. Unswept /\ [Next]_vars => Unswept'
  BY UnsweptKept
<1> QED BY <1>1, InitUnswept, PTL DEF Spec

(* As long as no SLA run is active, the request and its approval instance  *)
(* end together, with the same outcome, whatever approvers do at the same  *)
(* time.                                                                   *)
THEOREM MirroredWithoutSla ==
  ASSUME Sweepers = {} PROVE Spec => []RequestMirrorsInstance
<1>1. Unswept => RequestMirrorsInstance
  BY DEF Unswept
<1> QED BY <1>1, SpecUnswept, PTL

(* As long as no SLA run is active, the tasks that wait for a decision are *)
(* those of the first step that is still open.                             *)
THEOREM InOrderWithoutSla ==
  ASSUME Sweepers = {} PROVE Spec => []OnlyTheFirstStepIsPending
<1>1. Unswept => OnlyTheFirstStepIsPending
  BY DEF Unswept, TypeOK, Info, StepsInOrder, OnlyTheFirstStepIsPending, OpenStatus
<1> QED BY <1>1, SpecUnswept, PTL

(* As long as no SLA run is active, the outcome of an approval is final:   *)
(* a decision that was under way when it ended cannot change it.           *)
THEOREM FinalWithoutSla ==
  ASSUME Sweepers = {} PROVE Spec => TerminalIsFinal
<1>1. Unswept /\ [Next]_vars => (inst \in Outcomes => inst' = inst /\ pr' = pr)
  <2> SUFFICES ASSUME Unswept, [Next]_vars, inst \in Outcomes,
                      ~(inst' = inst /\ pr' = pr), Sweepers = {}
               PROVE  FALSE
    OBVIOUS
  <2>1. PICK p \in Deciders : Commit(p)
    BY DEF Next, Elapse, vars, Decide, Begin, LockStep, Refuse, Record, Skip, Advance, Open,
           ReserveRefused, DeadlockAbort, Rollback
  <2>2. InFlight(p)
    BY <2>1 DEF Commit, CommitWaiting, CommitAdvance, CommitClosed, CommitApproved, InFlight
  <2> QED BY <2>2 DEF Unswept, OverIsOver
<1> QED BY <1>1, SpecUnswept, PTL DEF Spec, TerminalIsFinal
==============================================================================
