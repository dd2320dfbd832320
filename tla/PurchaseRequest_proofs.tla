------------------------ MODULE PurchaseRequest_proofs ------------------------
(***************************************************************************)
(* Proofs about PurchaseRequest, for any contents and workflows, any       *)
(* number of overlapping calls and of approval instances.                  *)
(***************************************************************************)
EXTENDS PurchaseRequest, TLAPS

(***************************************************************************)
(* Plans.                                                                  *)
(***************************************************************************)
LEMMA PlanStages ==
  ASSUME NEW c \in Contents
  PROVE  /\ PlanOf[c] \in Seq(STRING)
         /\ Len(PlanOf[c]) \in Nat
         /\ \A n \in 1..Len(PlanOf[c]) : PlanOf[c][n] \in StageKeys
         /\ Resolvable(c) => 1 \in 1..Len(PlanOf[c])
<1>1. PlanOf[c] \in Seq(STRING)
  BY RequestAssumption
<1>2. Len(PlanOf[c]) \in Nat /\ DOMAIN PlanOf[c] = 1..Len(PlanOf[c])
  BY <1>1
<1>3. \A n \in 1..Len(PlanOf[c]) : PlanOf[c][n] \in Range(PlanOf[c])
  BY <1>2 DEF Range
<1>4. Range(PlanOf[c]) \subseteq StageKeys
  BY DEF StageKeys
<1>5. Resolvable(c) => Len(PlanOf[c]) # 0
  BY <1>1 DEF Resolvable
<1>6. Resolvable(c) => 1 \in 1..Len(PlanOf[c])
  BY <1>2, <1>5
<1> QED
  BY <1>1, <1>2, <1>3, <1>4, <1>6

(* No stage has the name of a status that ends or suspends an approval.    *)
LEMMA StageNames ==
  /\ StageKeys \cap Correctable = {}
  /\ StageKeys \cap Final = {}
  /\ "submitted" \notin StageKeys
  /\ "deleted" \notin StageKeys
BY RequestAssumption DEF Correctable, Final

(***************************************************************************)
(* Types.                                                                  *)
(***************************************************************************)
LEMMA IdleTxType == Contents # {} => IdleTx \in Tx
<1>1. Contents # {} => (CHOOSE c \in Contents : TRUE) \in Contents
  OBVIOUS
<1> QED
  BY <1>1 DEF IdleTx, Tx

(* create leaves a typed instance and the key of its first stage.          *)
LEMMA CreateTypes ==
  ASSUME approval \in [Instances -> Instance],
         NEW k \in Instances, NEW c \in Contents, Create(k, c)
  PROVE  /\ approval' \in [Instances -> Instance]
         /\ status' \in StageKeys
<1>1. status' \in StageKeys
  BY PlanStages DEF Create
<1>2. [status |-> "active", content |-> c, at |-> 1] \in Instance
  BY DEF Instance
<1>3. approval' \in [Instances -> Instance]
  BY <1>2 DEF Create
<1> QED
  BY <1>1, <1>3

LEMMA TypeInit == Init => TypeOK
<1> SUFFICES ASSUME Init PROVE TypeOK
  OBVIOUS
<1>1. Contents # {}
  BY DEF Init
<1>2. (CHOOSE c \in Contents : TRUE) \in Contents
  BY <1>1
<1>3. approval \in [Instances -> Instance]
  BY <1>2 DEF Init, Instance
<1>4. tx \in [Sessions -> Tx]
  BY <1>1, IdleTxType DEF Init
<1> QED
  BY <1>3, <1>4 DEF Init, TypeOK, Status, Correctable

(* What all transactions of a session do to tx.                            *)
LEMMA ServeTypes ==
  ASSUME TypeOK, NEW p \in Sessions, NEW op, Serve(p, op)
  PROVE  tx' \in [Sessions -> Tx]
<1>1. IdleTx \in Tx
  BY IdleTxType DEF TypeOK
<1> QED
  BY <1>1 DEF Serve, TypeOK

LEMMA TypeStep == TypeOK /\ [Next]_vars => TypeOK'
<1> SUFFICES ASSUME TypeOK, [Next]_vars PROVE TypeOK'
  OBVIOUS
<1> USE DEF TypeOK
<1>1. ASSUME NEW p \in Sessions, NEW op \in Ops, Call(p, op) PROVE TypeOK'
  <2>1. [op |-> op, content |-> content] \in Tx
    BY DEF Tx
  <2> QED
    BY <1>1, <2>1 DEF Call
<1>2. ASSUME NEW p \in Sessions, Refuse(p) PROVE TypeOK'
  BY <1>2, IdleTxType DEF Refuse
<1>3. ASSUME NEW p \in Sessions, NEW c \in Contents, Save(p, c) PROVE TypeOK'
  BY <1>3, ServeTypes DEF Save
<1>4. ASSUME NEW p \in Sessions, NEW c \in Contents, Edit(p, c) PROVE TypeOK'
  BY <1>4, ServeTypes DEF Edit
<1>5. ASSUME NEW p \in Sessions, Submit(p) PROVE TypeOK'
  <2>1. tx' \in [Sessions -> Tx]
    BY <1>5, ServeTypes DEF Submit
  <2>2. content' \in Contents /\ numbers' \in Nat
    BY <1>5 DEF Submit, Number
  <2>3. CASE \E k \in Instances : Create(k, content)
    BY <2>1, <2>2, <2>3, CreateTypes DEF Status
  <2>4. CASE status' = "submitted" /\ UNCHANGED approval
    BY <2>1, <2>2, <2>4 DEF Status, ReviewStatuses
  <2> QED
    BY <1>5, <2>3, <2>4 DEF Submit
<1>6. ASSUME NEW p \in Sessions, Delete(p) PROVE TypeOK'
  <2>1. approval' \in [Instances -> Instance]
    BY <1>6 DEF Delete, Instance
  <2> QED
    BY <1>6, <2>1, ServeTypes DEF Delete, Status
<1>7. ASSUME NEW p \in Sessions, Cancel(p) PROVE TypeOK'
  BY <1>7, ServeTypes DEF Cancel, Status, Final
<1>8. ASSUME NEW p \in Sessions, Forward(p) PROVE TypeOK'
  BY <1>8, ServeTypes DEF Forward, Status, ReviewStatuses
<1>9. ASSUME NEW p \in Sessions, HandOff(p) PROVE TypeOK'
  <2>1. tx' \in [Sessions -> Tx]
    BY <1>9, ServeTypes DEF HandOff
  <2>2. PICK k \in Instances : Create(k, tx[p].content)
    BY <1>9 DEF HandOff
  <2>3. tx[p].content \in Contents
    BY DEF Tx
  <2> QED
    BY <1>9, <2>1, <2>2, <2>3, CreateTypes DEF HandOff, Status
<1>10. ASSUME NEW p \in Sessions, Return(p) PROVE TypeOK'
  BY <1>10, ServeTypes DEF Return, Status, Correctable
<1>11. ASSUME NEW k \in Instances, Approve(k) PROVE TypeOK'
  <2> DEFINE next == approval[k].at + 1
             plan == PlanOf[approval[k].content]
  <2>1. approval[k] \in Instance
    OBVIOUS
  <2>2. approval[k].content \in Contents /\ next \in Nat \ {0}
    BY <2>1 DEF Instance
  <2>3. CASE next <= Len(plan)
    <3>1. next \in 1..Len(plan)
      BY <2>2, <2>3, PlanStages
    <3>2. plan[next] \in StageKeys
      BY <2>2, <3>1, PlanStages
    <3>3. approval' = [approval EXCEPT ![k].at = next] /\ status' = plan[next]
      BY <1>11, <2>2, <2>3, PlanStages DEF Approve
    <3>4. approval' \in [Instances -> Instance]
      BY <2>1, <2>2, <3>3 DEF Instance
    <3> QED
      BY <1>11, <3>2, <3>3, <3>4 DEF Approve, Status
  <2>4. CASE ~(next <= Len(plan))
    <3>1. approval' = [approval EXCEPT ![k].status = "approved"] /\ status' = "approved"
      BY <1>11, <2>4 DEF Approve
    <3>2. approval' \in [Instances -> Instance]
      BY <2>1, <3>1 DEF Instance, Final
    <3> QED
      BY <1>11, <3>1, <3>2 DEF Approve, Status, Final
  <2> QED
    BY <2>3, <2>4
<1>12. ASSUME NEW k \in Instances, NEW outcome \in {"rejected", "returned", "cancelled"},
              Close(k, outcome)
       PROVE TypeOK'
  <2>1. approval' \in [Instances -> Instance]
    BY <1>12 DEF Close, Instance, Final
  <2> QED
    BY <1>12, <2>1 DEF Close, Status, Correctable, Final
<1>13. CASE UNCHANGED vars
  BY <1>13 DEF vars
<1> QED
  BY <1>1, <1>2, <1>3, <1>4, <1>5, <1>6, <1>7, <1>8, <1>9, <1>10, <1>11, <1>12, <1>13 DEF Next

(* Statuses are those of the enum or keys of stages, under any workflow.   *)
THEOREM RequestTypes == Spec => []TypeOK
<1>1. Init => TypeOK
  BY TypeInit
<1>2. TypeOK /\ [Next]_vars => TypeOK'
  BY TypeStep
<1> QED
  BY <1>1, <1>2, PTL DEF Spec

(***************************************************************************)
(* One approval at a time, one number.                                     *)
(***************************************************************************)
(* A request that was never submitted, or is gone, has no approval under   *)
(* way, and an approval under way waits at a stage of its own plan.        *)
Untouched == status \in {"draft", "deleted"} => NoneActive
Waiting == \A k \in Instances :
             Active(k) => approval[k].at \in 1..Len(PlanOf[approval[k].content])

Ordered == TypeOK /\ OneApprovalAtATime /\ NumberedOnce /\ Untouched /\ Waiting

(* What a step does to the approval rows keeps the two facts about them.   *)
Rows == OneApprovalAtATime /\ Waiting

LEMMA RowsUntouched ==
  ASSUME Rows, UNCHANGED approval
  PROVE  Rows'
BY DEF Rows, OneApprovalAtATime, Waiting, Active

LEMMA RowsCreated ==
  ASSUME TypeOK, Rows, NEW k \in Instances, NEW c \in Contents, Create(k, c)
  PROVE  /\ Rows'
         /\ status' \in StageKeys
         /\ \A j \in Instances : Active(j)' => j = k /\ status' = Stage(j)'
<1>1. \A j \in Instances : ~Active(j)
  BY DEF Create, NoneActive
<1>2. /\ approval'[k].status = "active" /\ approval'[k].content = c /\ approval'[k].at = 1
      /\ \A j \in Instances \ {k} : approval'[j] = approval[j]
  BY DEF Create, TypeOK
<1>3. \A j \in Instances : Active(j)' => j = k
  BY <1>1, <1>2 DEF Active
<1>4. 1 \in 1..Len(PlanOf[c]) /\ PlanOf[c][1] \in StageKeys
  BY PlanStages DEF Create
<1>5. status' = PlanOf[c][1]
  BY DEF Create
<1>6. Stage(k)' = PlanOf[c][1]
  BY <1>2 DEF Stage
<1>7. OneApprovalAtATime'
  BY <1>3 DEF OneApprovalAtATime
<1>8. Waiting'
  BY <1>2, <1>3, <1>4 DEF Waiting
<1> QED
  BY <1>3, <1>4, <1>5, <1>6, <1>7, <1>8 DEF Rows

(* A decision leaves an instance where it is now, or at its next stage.    *)
LEMMA RowsApproved ==
  ASSUME TypeOK, Rows, NEW k \in Instances, Approve(k)
  PROVE  /\ Rows'
         /\ \A j \in Instances : Active(j)' => j = k /\ status' = Stage(j)' /\ status' \in StageKeys
         /\ ~Active(k)' => status' = "approved"
         /\ Active(k)' \/ status' = "approved"
<1> DEFINE next == approval[k].at + 1
           plan == PlanOf[approval[k].content]
<1>1. approval \in [Instances -> Instance] /\ approval[k] \in Instance
  BY DEF TypeOK
<1>2. approval[k].content \in Contents /\ next \in Nat \ {0}
  BY <1>1 DEF Instance
<1>3. \A j \in Instances : Active(j) => j = k
  BY DEF Approve, Rows, OneApprovalAtATime
<1>4. CASE next <= Len(plan)
  <2>1. approval' = [approval EXCEPT ![k].at = next] /\ status' = plan[next]
    BY <1>2, <1>4, PlanStages DEF Approve
  <2>2. next \in 1..Len(plan) /\ plan[next] \in StageKeys
    BY <1>2, <1>4, PlanStages
  <2>3. /\ approval'[k].status = approval[k].status
        /\ approval'[k].content = approval[k].content /\ approval'[k].at = next
        /\ \A j \in Instances \ {k} : approval'[j] = approval[j]
    BY <1>1, <2>1 DEF Instance
  <2>4. \A j \in Instances : Active(j)' => j = k
    BY <1>3, <2>3 DEF Active
  <2>5. Active(k)'
    BY <2>3 DEF Approve, Active
  <2>6. Stage(k)' = plan[next]
    BY <2>3 DEF Stage
  <2>7. Waiting'
    BY <2>2, <2>3, <2>4 DEF Waiting
  <2>8. OneApprovalAtATime'
    BY <2>4 DEF OneApprovalAtATime
  <2> QED
    BY <2>1, <2>2, <2>4, <2>5, <2>6, <2>7, <2>8 DEF Rows
<1>5. CASE ~(next <= Len(plan))
  <2>1. approval' = [approval EXCEPT ![k].status = "approved"] /\ status' = "approved"
    BY <1>5 DEF Approve
  <2>2. /\ approval'[k].status = "approved"
        /\ \A j \in Instances \ {k} : approval'[j] = approval[j]
    BY <1>1, <2>1 DEF Instance
  <2>3. \A j \in Instances : ~Active(j)'
    BY <1>3, <2>2 DEF Active
  <2> QED
    BY <2>1, <2>3 DEF Rows, OneApprovalAtATime, Waiting
<1> QED
  BY <1>4, <1>5

LEMMA RowsClosed ==
  ASSUME TypeOK, Rows, NEW k \in Instances,
         NEW outcome \in {"rejected", "returned", "cancelled"}, Close(k, outcome)
  PROVE  Rows' /\ NoneActive'
<1>1. \A j \in Instances : Active(j) => j = k
  BY DEF Close, Rows, OneApprovalAtATime
<1>2. /\ approval'[k].status = outcome
      /\ \A j \in Instances \ {k} : approval'[j] = approval[j]
  BY DEF Close, TypeOK, Instance
<1>3. \A j \in Instances : ~Active(j)'
  BY <1>1, <1>2 DEF Active
<1> QED
  BY <1>3 DEF Rows, OneApprovalAtATime, Waiting, NoneActive

LEMMA RowsDeleted ==
  ASSUME TypeOK, Rows, NEW p \in Sessions, Delete(p)
  PROVE  Rows' /\ NoneActive'
<1>1. \A j \in Instances : approval'[j].status = "none"
  BY DEF Delete, TypeOK, Instance
<1>2. \A j \in Instances : ~Active(j)'
  BY <1>1 DEF Active
<1> QED
  BY <1>2 DEF Rows, OneApprovalAtATime, Waiting, NoneActive

LEMMA OrderedInit == Init => Ordered
<1> SUFFICES ASSUME Init PROVE Ordered
  OBVIOUS
<1>1. \A k \in Instances : ~Active(k)
  BY DEF Init, Active
<1> QED
  BY <1>1, TypeInit
  DEF Init, Ordered, OneApprovalAtATime, NumberedOnce, Untouched, Waiting, NoneActive

LEMMA OrderedStep == Ordered /\ [Next]_vars => Ordered'
<1> SUFFICES ASSUME Ordered, [Next]_vars PROVE Ordered'
  OBVIOUS
<1>1. TypeOK /\ Rows /\ TypeOK'
  BY TypeStep DEF Ordered, Rows
<1> SUFFICES (Rows /\ NumberedOnce /\ Untouched)'
  BY <1>1 DEF Ordered, Rows
<1> DEFINE Kept == UNCHANGED <<status, numbers, approval>>
<1>2. CASE Kept
  BY <1>1, <1>2, RowsUntouched DEF Ordered, NumberedOnce, Untouched, NoneActive, Active
<1>3. ASSUME NEW p \in Sessions, NEW op \in Ops, Call(p, op) PROVE Kept
  BY <1>3 DEF Call
<1>4. ASSUME NEW p \in Sessions, Refuse(p) PROVE Kept
  BY <1>4 DEF Refuse
<1>5. ASSUME NEW p \in Sessions, NEW c \in Contents, Save(p, c) \/ Edit(p, c) PROVE Kept
  BY <1>5 DEF Save, Edit
<1>6. ASSUME NEW p \in Sessions, Submit(p) PROVE (Rows /\ NumberedOnce /\ Untouched)'
  <2>1. numbers' = 1
    BY <1>6 DEF Ordered, NumberedOnce, Submit, Correctable, Number
  <2>2. CASE \E k \in Instances : Create(k, content)
    <3>1. Rows' /\ status' \in StageKeys
      BY <1>1, <2>2, RowsCreated DEF TypeOK
    <3> QED
      BY <2>1, <3>1, StageNames DEF NumberedOnce, Untouched, Correctable
  <2>3. CASE status' = "submitted" /\ UNCHANGED approval
    BY <1>1, <2>1, <2>3, RowsUntouched DEF NumberedOnce, Untouched
  <2> QED
    BY <1>6, <2>2, <2>3 DEF Submit
<1>7. ASSUME NEW p \in Sessions, Delete(p) PROVE (Rows /\ NumberedOnce /\ Untouched)'
  BY <1>1, <1>7, RowsDeleted DEF Delete, NumberedOnce, Untouched
<1>8. ASSUME NEW p \in Sessions, Cancel(p) \/ Forward(p) \/ Return(p)
      PROVE  (Rows /\ NumberedOnce /\ Untouched)'
  <2>1. status \in ReviewStatuses /\ numbers' = numbers /\ UNCHANGED approval
    BY <1>8 DEF Cancel, Forward, Return, ReviewStatuses
  <2>2. status' \in {"cancelled", "procurement_review", "returned"}
    BY <1>8 DEF Cancel, Forward, Return
  <2> QED
    BY <1>1, <2>1, <2>2, RowsUntouched DEF Ordered, NumberedOnce, Untouched, ReviewStatuses
<1>9. ASSUME NEW p \in Sessions, HandOff(p) PROVE (Rows /\ NumberedOnce /\ Untouched)'
  <2>1. tx[p].content \in Contents /\ content \in Contents
    BY <1>1 DEF TypeOK, Tx
  <2>2. PICK k \in Instances : Create(k, tx[p].content)
    BY <1>9 DEF HandOff
  <2>3. Rows' /\ status' \in StageKeys
    BY <1>1, <2>1, <2>2, RowsCreated
  <2>4. status \in ReviewStatuses \cup StageKeys
    BY <1>9, <2>1 DEF HandOff, Reviewed, StageKeys
  <2>5. numbers' = 1
    BY <1>9, <2>4, StageNames DEF HandOff, Ordered, NumberedOnce, ReviewStatuses, Correctable
  <2> QED
    BY <2>3, <2>5, StageNames DEF NumberedOnce, Untouched, Correctable
<1>10. ASSUME NEW k \in Instances, Approve(k) PROVE (Rows /\ NumberedOnce /\ Untouched)'
  <2>1. numbers' = 1
    BY <1>10 DEF Approve, Ordered, Untouched, NoneActive, NumberedOnce
  <2>2. Rows' /\ status' \notin {"draft", "deleted"}
    BY <1>1, <1>10, RowsApproved, StageNames DEF Correctable
  <2> QED
    BY <2>1, <2>2 DEF NumberedOnce, Untouched
<1>11. ASSUME NEW k \in Instances, NEW outcome \in {"rejected", "returned", "cancelled"},
              Close(k, outcome)
       PROVE  (Rows /\ NumberedOnce /\ Untouched)'
  <2>1. numbers' = 1
    BY <1>11 DEF Close, Ordered, Untouched, NoneActive, NumberedOnce
  <2>2. Rows' /\ status' = outcome
    BY <1>1, <1>11, RowsClosed DEF Close
  <2> QED
    BY <2>1, <2>2 DEF NumberedOnce, Untouched
<1>12. CASE UNCHANGED vars
  BY <1>2, <1>12 DEF vars
<1> QED
  BY <1>2, <1>3, <1>4, <1>5, <1>6, <1>7, <1>8, <1>9, <1>10, <1>11, <1>12 DEF Next

(* The invariant the next theorems follow from.                            *)
LEMMA OrderedAlways == Spec => []Ordered
<1> QED
  BY OrderedInit, OrderedStep, PTL DEF Spec

(* No overlap of calls leaves a request with two active instances, under   *)
(* any workflow.                                                           *)
THEOREM OneApproval == Spec => []OneApprovalAtATime
<1>1. Ordered => OneApprovalAtATime
  BY DEF Ordered
<1> QED
  BY <1>1, OrderedAlways, PTL

(* A request is numbered once, under any workflow.                         *)
THEOREM OneNumber == Spec => []NumberedOnce
<1>1. Ordered => NumberedOnce
  BY DEF Ordered
<1> QED
  BY <1>1, OrderedAlways, PTL

(***************************************************************************)
(* Workflows none of whose stages has the key of a review status.          *)
(***************************************************************************)
OwnStages == StageKeys \cap ReviewStatuses = {}

Staged == Ordered /\ AtItsStage

LEMMA StagedInit == OwnStages /\ Init => Staged
<1> SUFFICES ASSUME OwnStages, Init PROVE Staged
  OBVIOUS
<1>1. \A k \in Instances : ~Active(k)
  BY DEF Init, Active
<1>2. status \notin StageKeys
  BY StageNames DEF Init, Correctable
<1> QED
  BY <1>1, <1>2, OrderedInit DEF Staged, AtItsStage

(* Where an instance is active, the request's status is a stage's key.     *)
LEMMA ActiveStage ==
  ASSUME Staged, NEW k \in Instances, Active(k)
  PROVE  status \in StageKeys
<1>1. approval[k] \in Instance
  BY DEF Staged, Ordered, TypeOK
<1>2. approval[k].content \in Contents
  BY <1>1 DEF Instance
<1>3. approval[k].at \in 1..Len(PlanOf[approval[k].content])
  BY DEF Staged, Ordered, Waiting
<1>4. Stage(k) \in StageKeys
  BY <1>2, <1>3, PlanStages DEF Stage
<1> QED
  BY <1>4 DEF Staged, AtItsStage

LEMMA StagedStep == OwnStages /\ Staged /\ [Next]_vars => Staged'
<1> SUFFICES ASSUME OwnStages, Staged, [Next]_vars PROVE Staged'
  OBVIOUS
<1>1. TypeOK /\ Rows /\ Ordered'
  BY OrderedStep DEF Staged, Ordered, Rows
<1> SUFFICES AtItsStage'
  BY <1>1 DEF Staged
<1>2. CASE UNCHANGED <<status, approval>>
  BY <1>2 DEF Staged, AtItsStage, Active, Stage, NoneActive
<1>3. ASSUME NEW p \in Sessions,
             \/ \E op \in Ops : Call(p, op)
             \/ Refuse(p)
             \/ \E c \in Contents : Save(p, c) \/ Edit(p, c)
      PROVE  UNCHANGED <<status, approval>>
  BY <1>3 DEF Call, Refuse, Save, Edit
<1>4. ASSUME NEW k \in Instances, NEW c \in Contents, Create(k, c) PROVE AtItsStage'
  <2>1. \A j \in Instances : Active(j)' => status' = Stage(j)'
    BY <1>1, <1>4, RowsCreated
  <2>2. Active(k)'
    BY <1>1, <1>4 DEF Create, Active, TypeOK
  <2> QED
    BY <2>1, <2>2 DEF AtItsStage, NoneActive
<1>5. ASSUME NEW p \in Sessions, Submit(p) PROVE AtItsStage'
  <2>1. CASE \E k \in Instances : Create(k, content)
    BY <1>1, <1>4, <2>1 DEF TypeOK
  <2>2. CASE status' = "submitted" /\ UNCHANGED approval
    <3>1. \A k \in Instances : ~Active(k)
      BY <1>5, ActiveStage, StageNames DEF Submit, Correctable
    <3>2. \A k \in Instances : ~Active(k)'
      BY <2>2, <3>1 DEF Active
    <3> QED
      BY <2>2, <3>2, StageNames DEF AtItsStage
  <2> QED
    BY <1>5, <2>1, <2>2 DEF Submit
<1>6. ASSUME NEW p \in Sessions, Delete(p) PROVE AtItsStage'
  BY <1>1, <1>6, RowsDeleted, StageNames DEF Delete, AtItsStage, NoneActive
<1>7. ASSUME NEW p \in Sessions, Cancel(p) \/ Forward(p) \/ Return(p) PROVE AtItsStage'
  <2>1. status \in ReviewStatuses /\ UNCHANGED approval
    BY <1>7 DEF Cancel, Forward, Return, ReviewStatuses
  <2>2. status' \in {"cancelled", "procurement_review", "returned"}
    BY <1>7 DEF Cancel, Forward, Return
  <2>3. \A k \in Instances : ~Active(k)
    BY <2>1, ActiveStage DEF OwnStages
  <2>4. \A k \in Instances : ~Active(k)'
    BY <2>1, <2>3 DEF Active
  <2>5. status' \notin StageKeys
    BY <2>2, StageNames DEF OwnStages, ReviewStatuses, Correctable, Final
  <2> QED
    BY <2>4, <2>5 DEF AtItsStage
<1>8. ASSUME NEW p \in Sessions, HandOff(p) PROVE AtItsStage'
  <2>1. tx[p].content \in Contents
    BY <1>1 DEF TypeOK, Tx
  <2> QED
    BY <1>4, <1>8, <2>1 DEF HandOff
<1>9. ASSUME NEW k \in Instances, Approve(k) PROVE AtItsStage'
  BY <1>1, <1>9, RowsApproved, StageNames DEF AtItsStage, NoneActive, Final
<1>10. ASSUME NEW k \in Instances, NEW outcome \in {"rejected", "returned", "cancelled"},
              Close(k, outcome)
       PROVE  AtItsStage'
  <2>1. NoneActive' /\ status' = outcome
    BY <1>1, <1>10, RowsClosed DEF Close
  <2>2. status' \notin StageKeys
    BY <2>1, StageNames DEF Correctable, Final
  <2> QED
    BY <2>1, <2>2 DEF AtItsStage, NoneActive
<1>11. CASE UNCHANGED vars
  BY <1>2, <1>11 DEF vars
<1> QED
  BY <1>2, <1>3, <1>5, <1>6, <1>7, <1>8, <1>9, <1>10, <1>11 DEF Next

(* However calls overlap, a request is at a stage exactly while the        *)
(* instance at that stage is active, if no stage is called like a review   *)
(* status: returning or editing it then needs a reviewer's status, which   *)
(* it does not have while it is being approved.                            *)
THEOREM RequestAtItsStage == ASSUME OwnStages PROVE Spec => []AtItsStage
<1>1. Init => Staged
  BY StagedInit
<1>2. Staged /\ [Next]_vars => Staged'
  BY StagedStep
<1>3. Staged => AtItsStage
  BY DEF Staged
<1> QED
  BY <1>1, <1>2, <1>3, PTL DEF Spec

(* Under such workflows no call and no decision undoes an outcome: calls   *)
(* check the status again under the lock, and no instance is active.       *)
THEOREM OutcomesStand == ASSUME OwnStages PROVE Spec => OutcomeStands
<1>1. Init => Staged
  BY StagedInit
<1>2. Staged /\ [Next]_vars => Staged'
  BY StagedStep
<1>3. ASSUME Staged, [Next]_vars, status \in Final PROVE status' \in {status, "deleted"}
  <2>1. status \notin Correctable \cup ReviewStatuses \cup StageKeys \cup {"deleted"}
    BY <1>3, StageNames DEF Final, Correctable, ReviewStatuses
  <2>2. \A k \in Instances : ~Active(k)
    BY <1>3, <2>1, ActiveStage
  <2>3. ASSUME NEW p \in Sessions, Submit(p) \/ Cancel(p) \/ Forward(p) \/ Return(p) PROVE FALSE
    BY <2>1, <2>3 DEF Submit, Cancel, Forward, Return, ReviewStatuses
  <2>4. ASSUME NEW p \in Sessions, HandOff(p) PROVE FALSE
    <3>1. status \in ReviewStatuses \cup StageKeys
      BY <1>3, <2>4 DEF HandOff, Reviewed, StageKeys, Staged, Ordered, TypeOK
    <3> QED
      BY <2>1, <3>1
  <2>5. ASSUME NEW p \in Sessions, Delete(p) PROVE status' = "deleted"
    BY <2>5 DEF Delete
  <2>6. ASSUME NEW p \in Sessions,
               \/ \E op \in Ops : Call(p, op)
               \/ Refuse(p)
               \/ \E c \in Contents : Save(p, c) \/ Edit(p, c)
        PROVE  status' = status
    BY <2>6 DEF Call, Refuse, Save, Edit
  <2>7. ASSUME NEW k \in Instances,
               Approve(k) \/ \E outcome \in {"rejected", "returned", "cancelled"} : Close(k, outcome)
        PROVE  FALSE
    BY <2>2, <2>7 DEF Approve, Close
  <2>8. CASE UNCHANGED vars
    BY <2>8 DEF vars
  <2> QED
    BY <1>3, <2>3, <2>4, <2>5, <2>6, <2>7, <2>8 DEF Next
<1>4. Staged /\ [Next]_vars => [(status \in Final => status' \in {status, "deleted"})]_vars
  BY <1>3
<1> QED
  BY <1>1, <1>2, <1>4, PTL DEF Spec, OutcomeStands

(***************************************************************************)
(* One call at a time: what the services do is the life of a request as    *)
(* its users see it, for any contents, workflows and number of approvals.  *)
(***************************************************************************)

(* Calls are served one after the other; decisions of approvers may still  *)
(* fall between the two parts of a call.                                   *)
OneSession == \A p, q \in Sessions : p = q

(* What a call has read is still so in its transaction, and an approval    *)
(* under way, or done, is that of the request's content.                   *)
CopyIsCurrent ==
  \A p \in Sessions :
    /\ tx[p].op # "none" => tx[p].content = content
    /\ tx[p].op = "save" => status \in Correctable
    /\ tx[p].op = "delete" => status = "draft"
ActiveAsResolved == \A k \in Instances : Active(k) => approval[k].content = content

Current == Staged /\ CopyIsCurrent /\ ActiveAsResolved /\ ApprovedAsResolved

LEMMA PhaseIs ==
  ASSUME OwnStages
  PROVE  /\ status \in Correctable => Phase = "open"
         /\ status \in ReviewStatuses => Phase = "review"
         /\ status \in StageKeys => Phase = "approval"
         /\ status \in {"approved", "rejected", "cancelled", "deleted"} => Phase = status
         /\ status' \in Correctable => Phase' = "open"
         /\ status' \in ReviewStatuses => Phase' = "review"
         /\ status' \in StageKeys => Phase' = "approval"
         /\ status' \in {"approved", "rejected", "cancelled", "deleted"} => Phase' = status'
<1>1. StageKeys \cap (Correctable \cup ReviewStatuses \cup Final \cup {"deleted"}) = {}
  BY StageNames DEF OwnStages
<1>2. /\ Correctable = {"draft", "returned"} /\ ReviewStatuses = {"submitted", "procurement_review"}
      /\ Final = {"approved", "rejected", "cancelled"}
  BY DEF Correctable, ReviewStatuses, Final
<1> QED BY <1>1, <1>2 DEF Phase

(* Nothing is being approved while the request may be corrected or         *)
(* reviewed.                                                               *)
LEMMA NoneWhileOpen ==
  ASSUME OwnStages, Staged, status \notin StageKeys
  PROVE  \A k \in Instances : ~Active(k)
BY ActiveStage

(* The transaction of a call leaves its session without a call.            *)
LEMMA ServedIsIdle ==
  ASSUME OneSession, Current, NEW p \in Sessions, tx' = [tx EXCEPT ![p] = IdleTx]
  PROVE  CopyIsCurrent'
<1>1. \A q \in Sessions : tx'[q].op = "none"
  BY DEF OneSession, Current, Staged, Ordered, TypeOK, IdleTx
<1> QED BY <1>1 DEF CopyIsCurrent

(* Calls that correct or move a request without an approval under way.     *)
LEMMA OpenStep ==
  ASSUME OwnStages, OneSession, Current, NEW p \in Sessions,
         tx' = [tx EXCEPT ![p] = IdleTx], status \notin StageKeys, UNCHANGED approval,
         status' # "approved"
  PROVE  CopyIsCurrent' /\ ActiveAsResolved' /\ ApprovedAsResolved'
<1>1. \A k \in Instances : ~Active(k)'
  BY NoneWhileOpen DEF Current, Active
<1> QED BY <1>1, ServedIsIdle DEF ActiveAsResolved, ApprovedAsResolved

LEMMA CorrectStep ==
  ASSUME OwnStages, OneSession, Current, NEW p \in Sessions, NEW c \in Contents,
         Save(p, c) \/ Edit(p, c)
  PROVE  /\ CopyIsCurrent' /\ ActiveAsResolved' /\ ApprovedAsResolved'
         /\ Flow!Correct
<1>1. /\ tx' = [tx EXCEPT ![p] = IdleTx] /\ content' = c
      /\ UNCHANGED <<status, approval>>
  BY DEF Save, Edit, Serve
<1>2. status \in Correctable \cup ReviewStatuses
  BY DEF Save, Edit, Serve, Current, CopyIsCurrent
<1>3. status \notin StageKeys /\ status # "approved"
  BY <1>2, StageNames DEF OwnStages, Correctable, ReviewStatuses
<1>4. Phase \in {"open", "review"} /\ Phase' = Phase
  BY <1>1, <1>2, PhaseIs
<1>5. Flow!Correct
  BY <1>1, <1>4 DEF Flow!Correct
<1> QED BY <1>1, <1>3, <1>5, OpenStep

LEMMA WithdrawStep ==
  ASSUME OwnStages, OneSession, Current, NEW p \in Sessions,
         Cancel(p) \/ Return(p) \/ Forward(p)
  PROVE  /\ CopyIsCurrent' /\ ActiveAsResolved' /\ ApprovedAsResolved'
         /\ [Flow!FlowNext]_<<Phase, content>>
<1>1. /\ tx' = [tx EXCEPT ![p] = IdleTx] /\ UNCHANGED <<content, approval>>
      /\ status \in ReviewStatuses
  BY DEF Cancel, Return, Forward, Serve, ReviewStatuses
<1>2. status' \in {"cancelled", "returned", "procurement_review"}
  BY DEF Cancel, Return, Forward
<1>3. Phase = "review" /\ Phase' \in {"cancelled", "open", "review"}
  BY <1>1, <1>2, PhaseIs DEF Correctable, ReviewStatuses
<1>4. [Flow!FlowNext]_<<Phase, content>>
  BY <1>1, <1>3 DEF Flow!FlowNext, Flow!HandBack, Flow!Withdraw, Flow!Go
<1> QED BY <1>1, <1>2, <1>4, OpenStep DEF OwnStages

LEMMA DeleteStep ==
  ASSUME OwnStages, OneSession, Current, NEW p \in Sessions, Delete(p)
  PROVE  /\ CopyIsCurrent' /\ ActiveAsResolved' /\ ApprovedAsResolved'
         /\ Flow!FlowNext
<1>1. tx' = [tx EXCEPT ![p] = IdleTx] /\ UNCHANGED content /\ status' = "deleted"
  BY DEF Delete, Serve
<1>2. status = "draft"
  BY DEF Delete, Serve, Current, CopyIsCurrent
<1>3. Phase = "open" /\ Phase' = "deleted"
  BY <1>1, <1>2, PhaseIs DEF Correctable
<1>4. \A k \in Instances : ~Active(k)'
  BY RowsDeleted DEF Current, Staged, Ordered, Rows, NoneActive
<1>5. Flow!FlowNext
  BY <1>1, <1>3 DEF Flow!FlowNext, Flow!Withdraw, Flow!Go
<1> QED BY <1>1, <1>4, <1>5, ServedIsIdle DEF ActiveAsResolved, ApprovedAsResolved

(* A new instance is resolved for the content the request has.             *)
LEMMA CreateStep ==
  ASSUME OwnStages, OneSession, Current, NEW p \in Sessions, NEW k \in Instances,
         tx' = [tx EXCEPT ![p] = IdleTx], UNCHANGED content, Create(k, content)
  PROVE  /\ CopyIsCurrent' /\ ActiveAsResolved' /\ ApprovedAsResolved'
         /\ Phase' = "approval"
<1>1. TypeOK /\ Rows
  BY DEF Current, Staged, Ordered, Rows
<1>2. status' \in StageKeys /\ \A j \in Instances : Active(j)' => j = k
  BY <1>1, RowsCreated DEF TypeOK
<1>3. approval'[k].content = content
  BY <1>1 DEF Create, TypeOK
<1>4. status' # "approved" /\ Phase' = "approval"
  BY <1>2, PhaseIs, StageNames DEF Final
<1> QED BY <1>2, <1>3, <1>4, ServedIsIdle DEF ActiveAsResolved, ApprovedAsResolved

LEMMA SubmitStep ==
  ASSUME OwnStages, OneSession, Current, NEW p \in Sessions, Submit(p)
  PROVE  /\ CopyIsCurrent' /\ ActiveAsResolved' /\ ApprovedAsResolved'
         /\ Flow!FlowNext
<1>1. tx' = [tx EXCEPT ![p] = IdleTx] /\ UNCHANGED content /\ status \in Correctable
  BY DEF Submit, Serve
<1>2. Phase = "open" /\ status \notin StageKeys
  BY <1>1, PhaseIs, StageNames
<1>3. CASE \E k \in Instances : Create(k, content)
  <2>1. /\ CopyIsCurrent' /\ ActiveAsResolved' /\ ApprovedAsResolved'
        /\ Phase' = "approval"
    BY <1>1, <1>3, CreateStep
  <2> QED BY <1>1, <1>2, <2>1 DEF Flow!FlowNext, Flow!Submit, Flow!Go
<1>4. CASE status' = "submitted" /\ UNCHANGED approval
  <2>1. Phase' = "review"
    BY <1>4, PhaseIs DEF ReviewStatuses
  <2>2. Flow!FlowNext
    BY <1>1, <1>2, <2>1 DEF Flow!FlowNext, Flow!Submit, Flow!Go
  <2> QED BY <1>1, <1>2, <1>4, <2>2, OpenStep
<1> QED BY <1>3, <1>4 DEF Submit

(* At a stage an approval is under way, so a request that is handed over   *)
(* is still being reviewed.                                                *)
LEMMA HandOffStep ==
  ASSUME OwnStages, OneSession, Current, NEW p \in Sessions, HandOff(p)
  PROVE  /\ CopyIsCurrent' /\ ActiveAsResolved' /\ ApprovedAsResolved'
         /\ Flow!FlowNext
<1>1. /\ tx' = [tx EXCEPT ![p] = IdleTx] /\ UNCHANGED content /\ status \in Reviewed
      /\ tx[p].content = content
  BY DEF HandOff, Serve, Current, CopyIsCurrent
<1>2. PICK k \in Instances : Create(k, content)
  BY <1>1 DEF HandOff
<1>3. status \notin StageKeys
  BY <1>2 DEF Create, Current, Staged, AtItsStage
<1>4. Range(PlanOf[content]) \subseteq StageKeys
  BY DEF StageKeys, Current, Staged, Ordered, TypeOK
<1>5. status \in ReviewStatuses
  BY <1>1, <1>3, <1>4 DEF Reviewed
<1>6. /\ CopyIsCurrent' /\ ActiveAsResolved' /\ ApprovedAsResolved'
      /\ Phase' = "approval"
  BY <1>1, <1>2, CreateStep
<1>7. Phase = "review"
  BY <1>5, PhaseIs
<1> QED BY <1>1, <1>6, <1>7 DEF Flow!FlowNext, Flow!HandOver, Flow!Go

(* A decision leaves every call what it has read: none that corrects or    *)
(* deletes the request can be under way.                                   *)
LEMMA DecisionKeepsCopies ==
  ASSUME Current, UNCHANGED <<content, tx>>, status \in StageKeys
  PROVE  CopyIsCurrent'
<1>1. \A p \in Sessions : tx[p].op \notin {"save", "delete"}
  BY StageNames DEF Current, CopyIsCurrent, Correctable
<1> QED BY <1>1 DEF Current, CopyIsCurrent

LEMMA ApproveStep ==
  ASSUME OwnStages, Current, NEW k \in Instances, Approve(k)
  PROVE  /\ CopyIsCurrent' /\ ActiveAsResolved' /\ ApprovedAsResolved'
         /\ [Flow!FlowNext]_<<Phase, content>>
<1>1. TypeOK /\ Rows /\ status \in StageKeys /\ UNCHANGED <<content, tx>>
  BY ActiveStage DEF Current, Staged, Ordered, Rows, Approve
<1>2. /\ \A j \in Instances : Active(j)' => j = k /\ status' \in StageKeys
      /\ Active(k)' \/ status' = "approved"
  BY <1>1, RowsApproved
<1>3. approval'[k].content = content
  BY <1>1 DEF Approve, TypeOK, Instance, Current, ActiveAsResolved
<1>4. status' = "approved" => approval'[k].status = "approved"
  <2> SUFFICES ASSUME status' = "approved" PROVE approval'[k].status = "approved"
    OBVIOUS
  <2>1. ~Active(k)'
    BY <1>2, StageNames DEF Final
  <2> QED BY <1>1, <2>1 DEF Approve, Active, TypeOK, Instance
<1>5. Phase = "approval" /\ Phase' \in {"approval", "approved"}
  BY <1>1, <1>2, PhaseIs
<1>6. [Flow!FlowNext]_<<Phase, content>>
  BY <1>1, <1>5 DEF Flow!FlowNext, Flow!Decide, Flow!Over, Flow!Go
<1> QED
  BY <1>1, <1>2, <1>3, <1>4, <1>6, DecisionKeepsCopies DEF ActiveAsResolved, ApprovedAsResolved

LEMMA CloseStep ==
  ASSUME OwnStages, Current, NEW k \in Instances,
         NEW outcome \in {"rejected", "returned", "cancelled"}, Close(k, outcome)
  PROVE  /\ CopyIsCurrent' /\ ActiveAsResolved' /\ ApprovedAsResolved'
         /\ Flow!FlowNext
<1>1. TypeOK /\ Rows /\ status \in StageKeys /\ UNCHANGED <<content, tx>> /\ status' = outcome
  BY ActiveStage DEF Current, Staged, Ordered, Rows, Close
<1>2. \A j \in Instances : ~Active(j)'
  BY <1>1, RowsClosed DEF NoneActive
<1>3. Phase = "approval" /\ Phase' \in {"rejected", "open", "cancelled"}
  BY <1>1, PhaseIs DEF Correctable
<1>4. Flow!FlowNext
  BY <1>1, <1>3 DEF Flow!FlowNext, Flow!HandBack, Flow!Decide, Flow!Over, Flow!Go
<1> QED BY <1>1, <1>2, <1>4, DecisionKeepsCopies DEF ActiveAsResolved, ApprovedAsResolved

(* A call that begins, or is refused, changes nothing.                     *)
LEMMA CallStep ==
  ASSUME OneSession, Current, NEW p \in Sessions,
         (\E op \in Ops : Call(p, op)) \/ Refuse(p)
  PROVE  CopyIsCurrent' /\ UNCHANGED <<status, content, approval>>
<1>1. UNCHANGED <<status, content, approval>>
  BY DEF Call, Refuse
<1>2. CASE Refuse(p)
  BY <1>1, <1>2, ServedIsIdle DEF Refuse
<1>3. ASSUME NEW op \in Ops, Call(p, op) PROVE CopyIsCurrent'
  <2>1. \A q \in Sessions : tx'[q] = [op |-> op, content |-> content]
    BY <1>3 DEF Call, OneSession, Current, Staged, Ordered, TypeOK
  <2>2. (op = "save" => status \in Correctable) /\ (op = "delete" => status = "draft")
    BY <1>3 DEF Call, MayCall
  <2> QED BY <1>1, <2>1, <2>2 DEF CopyIsCurrent
<1> QED BY <1>1, <1>2, <1>3

LEMMA CurrentStep ==
  ASSUME OwnStages, OneSession, Current, [Next]_vars
  PROVE  Current' /\ [Flow!FlowNext]_<<Phase, content>>
<1>1. Staged'
  BY StagedStep DEF Current
<1>2. ASSUME NEW p \in Sessions, NEW c \in Contents, Save(p, c) \/ Edit(p, c)
      PROVE  Current' /\ [Flow!FlowNext]_<<Phase, content>>
  BY <1>1, <1>2, CorrectStep DEF Current, Flow!FlowNext
<1>3. ASSUME NEW p \in Sessions, Submit(p) \/ HandOff(p) \/ Delete(p)
      PROVE  Current' /\ [Flow!FlowNext]_<<Phase, content>>
  BY <1>1, <1>3, SubmitStep, HandOffStep, DeleteStep DEF Current
<1>4. ASSUME NEW p \in Sessions, Cancel(p) \/ Forward(p) \/ Return(p)
      PROVE  Current' /\ [Flow!FlowNext]_<<Phase, content>>
  BY <1>1, <1>4, WithdrawStep DEF Current
<1>5. ASSUME NEW k \in Instances, Approve(k)
      PROVE  Current' /\ [Flow!FlowNext]_<<Phase, content>>
  BY <1>1, <1>5, ApproveStep DEF Current
<1>6. ASSUME NEW k \in Instances, NEW outcome \in {"rejected", "returned", "cancelled"},
             Close(k, outcome)
      PROVE  Current' /\ [Flow!FlowNext]_<<Phase, content>>
  BY <1>1, <1>6, CloseStep DEF Current
<1>7. ASSUME UNCHANGED <<status, content, approval>>, CopyIsCurrent'
      PROVE  Current' /\ [Flow!FlowNext]_<<Phase, content>>
  BY <1>1, <1>7 DEF Current, ActiveAsResolved, ApprovedAsResolved, Active, Phase
<1>8. ASSUME NEW p \in Sessions, (\E op \in Ops : Call(p, op)) \/ Refuse(p)
      PROVE  Current' /\ [Flow!FlowNext]_<<Phase, content>>
  BY <1>7, <1>8, CallStep
<1>9. CASE UNCHANGED vars
  BY <1>7, <1>9 DEF vars, Current, CopyIsCurrent
<1> QED BY <1>2, <1>3, <1>4, <1>5, <1>6, <1>8, <1>9 DEF Next

LEMMA CurrentInit == ASSUME OwnStages, Init PROVE Current /\ Flow!FlowInit
<1>1. Staged
  BY StagedInit
<1>2. CopyIsCurrent
  BY DEF Init, CopyIsCurrent, IdleTx
<1>3. ActiveAsResolved /\ ApprovedAsResolved
  BY DEF Init, ActiveAsResolved, ApprovedAsResolved, Active
<1>4. Flow!FlowInit
  BY PhaseIs DEF Init, Flow!FlowInit, Correctable
<1> QED BY <1>1, <1>2, <1>3, <1>4 DEF Current

(* One call at a time, a request is approved for what it contains: nothing *)
(* is corrected once its workflow has been resolved.                       *)
THEOREM ApprovedForItsContent ==
  ASSUME OwnStages, OneSession PROVE Spec => []ApprovedAsResolved
<1>1. Init => Current
  BY CurrentInit
<1>2. Current /\ [Next]_vars => Current'
  BY CurrentStep
<1>3. Current => ApprovedAsResolved
  BY DEF Current
<1> QED BY <1>1, <1>2, <1>3, PTL DEF Spec

(* One call at a time, every call and every decision is a step of the      *)
(* users' view, or changes nothing they see.                               *)
THEOREM ServicesImplementFlow ==
  ASSUME OwnStages, OneSession PROVE Spec => ImplementsFlow
<1>1. Init => Current /\ Flow!FlowInit
  BY CurrentInit
<1>2. Current /\ [Next]_vars => Current' /\ [Flow!FlowNext]_<<Phase, content>>
  BY CurrentStep
<1> QED BY <1>1, <1>2, PTL DEF Spec, ImplementsFlow, Flow!FlowSpec
================================================================================
