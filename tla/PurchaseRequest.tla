---------------------------- MODULE PurchaseRequest ----------------------------
(***************************************************************************)
(* The life of one purchase request between its requester, the reviewers   *)
(* and the approvers: ProcurementRequestDraftSaver and -Submitter,         *)
(* ProcurementReviewService, PurchaseRequestCancellationService and, as    *)
(* one step each, the decisions of ApprovalActionService.                  *)
(*                                                                         *)
(* Every call has two parts.  The first reads the request without a lock:  *)
(* the policy and the service's own checks look at this copy, and hand-off *)
(* resolves the workflow from it.  The second is a transaction which, in   *)
(* all services but the draft saver and the delete action, locks the       *)
(* request and checks its status again.                                    *)
(***************************************************************************)
EXTENDS Naturals, Sequences, FiniteSets, Functions

CONSTANTS
  Contents,    \* what can be requested: total, category, cost centre, ...
  PlanOf,      \* PlanOf[c]: keys of the stages c's workflow resolves to
  Direct,      \* contents whose category names a workflow of its own
  Sessions,    \* requests being served at the same time
  Instances    \* rows of approval_instances the model has room for (bound)

StageKeys == UNION {Range(PlanOf[c]) : c \in Contents}

ASSUME RequestAssumption ==
  /\ Direct \subseteq Contents
  /\ PlanOf \in [Contents -> Seq(STRING)]
  /\ StageKeys \cap {"draft", "submitted", "returned", "approved", "rejected",
                     "cancelled", "deleted"} = {}

VARIABLES
  status,      \* the request's status
  content,     \* its items and other values
  numbers,     \* final numbers it has been given
  approval,    \* its approval instances
  tx           \* the call every session is serving

vars == <<status, content, numbers, approval, tx>>

ReviewStatuses == {"submitted", "procurement_review"}
Correctable == {"draft", "returned"}
Final == {"approved", "rejected", "cancelled"}
Status == Correctable \cup ReviewStatuses \cup Final \cup {"pending_approval", "deleted"}
            \cup StageKeys

(* An instance keeps the content its workflow was resolved for and the     *)
(* stage that waits for a decision; "active" is pending or in_progress.    *)
Instance == [status: {"none", "active", "returned"} \cup Final,
             content: Contents, at: Nat]

Ops == {"save", "submit", "delete", "cancel", "forward", "handoff", "return", "edit"}
Tx == [op: Ops \cup {"none"}, content: Contents]

IdleTx == [op |-> "none", content |-> CHOOSE c \in Contents : TRUE]

Active(k) == approval[k].status = "active"
NoneActive == \A k \in Instances : ~Active(k)
Stage(k) == PlanOf[approval[k].content][approval[k].at]

(* A draft, just saved for the first time.                                 *)
Init ==
  /\ status = "draft"
  /\ content \in Contents
  /\ numbers = 0
  /\ approval = [k \in Instances |->
       [status |-> "none", content |-> CHOOSE c \in Contents : TRUE, at |-> 0]]
  /\ tx = [p \in Sessions |-> IdleTx]

(***************************************************************************)
(* A call, up to its transaction.                                          *)
(***************************************************************************)
Reviewed == ReviewStatuses \cup Range(PlanOf[content])
Resolvable(c) == PlanOf[c] # <<>>

MayCallSaving(op) ==                                   \* mutation of MayCall
  \/ op = "save"
  \/ op = "submit" /\ status \in Correctable
  \/ op = "forward" /\ status = "submitted"
  \/ op = "handoff" /\ status \in Reviewed /\ Resolvable(content)
MayCall(op) ==
  \/ op \in {"save", "submit"} /\ status \in Correctable
  \/ op = "delete" /\ status = "draft"
  \/ op = "cancel" /\ status = "submitted" /\ NoneActive
  \/ op = "forward" /\ status = "submitted"
  \/ op \in {"return", "edit"} /\ status \in Reviewed
  \/ op = "handoff" /\ status \in Reviewed /\ Resolvable(content)

Call(p, op) ==
  /\ tx[p].op = "none"
  /\ MayCall(op)
  /\ tx' = [tx EXCEPT ![p] = [op |-> op, content |-> content]]
  /\ UNCHANGED <<status, content, numbers, approval>>

(* A call may fail wherever a check of the transaction does not hold; also *)
(* for reasons left out here: an invalid field, a missing permission.      *)
Refuse(p) ==
  /\ tx[p].op # "none"
  /\ tx' = [tx EXCEPT ![p] = IdleTx]
  /\ UNCHANGED <<status, content, numbers, approval>>

Serve(p, op) == tx[p].op = op /\ tx' = [tx EXCEPT ![p] = IdleTx]

(***************************************************************************)
(* The transactions of the requester.                                      *)
(***************************************************************************)
(* The draft saver rewrites the items; the status it assigns is the one it *)
(* has read, so that Eloquent does not write it.                           *)
Save(p, c) ==
  /\ Serve(p, "save")
  /\ status # "deleted"
  /\ content' = c
  /\ UNCHANGED <<status, numbers, approval>>

(* create: a new instance whose first stage is pending.  The request takes *)
(* that stage's key; pending_approval is written only for an instance      *)
(* without a stage, which a plan that resolves does not produce.           *)
CreateUnchecked(k, c) ==                               \* mutation of Create
  /\ approval[k].status = "none"
  /\ Resolvable(c)
  /\ approval' = [approval EXCEPT ![k] = [status |-> "active", content |-> c, at |-> 1]]
  /\ status' = PlanOf[c][1]
CreateMirrored(k, c) ==                                \* mutation of Create
  /\ approval[k].status = "none" /\ NoneActive
  /\ Resolvable(c)
  /\ approval' = [approval EXCEPT ![k] = [status |-> "active", content |-> c, at |-> 1]]
  /\ status' = approval'[k].status
Create(k, c) ==
  /\ approval[k].status = "none" /\ NoneActive
  /\ Resolvable(c)
  /\ approval' = [approval EXCEPT ![k] = [status |-> "active", content |-> c, at |-> 1]]
  /\ status' = PlanOf[c][1]

NumberAgain == numbers' = numbers + 1                  \* mutation of Number
Number == numbers' = IF status = "returned" THEN numbers ELSE numbers + 1

Submit(p) ==
  /\ Serve(p, "submit")
  /\ status \in Correctable
  /\ Number
  /\ \/ content \in Direct /\ \E k \in Instances : Create(k, content)
     \/ content \notin Direct /\ status' = "submitted" /\ UNCHANGED approval
  /\ UNCHANGED content

(* The rows that belong to the request are deleted with it.                *)
Delete(p) ==
  /\ Serve(p, "delete")
  /\ status' = "deleted"
  /\ approval' = [k \in Instances |-> [approval[k] EXCEPT !.status = "none"]]
  /\ UNCHANGED <<content, numbers>>

CancelLate(p) ==                                       \* mutation of Cancel
  /\ Serve(p, "cancel")
  /\ status' = "cancelled"
  /\ UNCHANGED <<content, numbers, approval>>
Cancel(p) ==
  /\ Serve(p, "cancel")
  /\ status = "submitted" /\ NoneActive
  /\ status' = "cancelled"
  /\ UNCHANGED <<content, numbers, approval>>

(***************************************************************************)
(* The transactions of the reviewers.                                      *)
(***************************************************************************)
Forward(p) ==
  /\ Serve(p, "forward")
  /\ status = "submitted"
  /\ status' = "procurement_review"
  /\ UNCHANGED <<content, numbers, approval>>

HandOff(p) ==
  /\ Serve(p, "handoff")
  /\ status \in Reviewed
  /\ \E k \in Instances : Create(k, tx[p].content)
  /\ UNCHANGED <<content, numbers>>

ReturnLate(p) ==                                       \* mutation of Return
  /\ Serve(p, "return")
  /\ status' = "returned"
  /\ UNCHANGED <<content, numbers, approval>>
Return(p) ==
  /\ Serve(p, "return")
  /\ status \in ReviewStatuses
  /\ status' = "returned"
  /\ UNCHANGED <<content, numbers, approval>>

EditLate(p, c) ==                                      \* mutation of Edit
  /\ Serve(p, "edit")
  /\ content' = c
  /\ UNCHANGED <<status, numbers, approval>>
Edit(p, c) ==
  /\ Serve(p, "edit")
  /\ status \in ReviewStatuses
  /\ c \in Direct <=> content \in Direct      \* the category is not editable
  /\ content' = c
  /\ UNCHANGED <<status, numbers, approval>>

(***************************************************************************)
(* The decisions of the approvers, a stage at a time.                      *)
(***************************************************************************)
Approve(k) ==
  /\ Active(k)
  /\ LET next == approval[k].at + 1  plan == PlanOf[approval[k].content] IN
     \/ /\ next <= Len(plan)
        /\ approval' = [approval EXCEPT ![k].at = next]
        /\ status' = plan[next]
     \/ /\ next > Len(plan)
        /\ approval' = [approval EXCEPT ![k].status = "approved"]
        /\ status' = "approved"
  /\ UNCHANGED <<content, numbers, tx>>

Close(k, outcome) ==
  /\ Active(k)
  /\ approval' = [approval EXCEPT ![k].status = outcome]
  /\ status' = outcome
  /\ UNCHANGED <<content, numbers, tx>>

(***************************************************************************)
(* The specification.                                                      *)
(***************************************************************************)
Next ==
  \/ \E p \in Sessions :
       \/ \E op \in Ops : Call(p, op)
       \/ Refuse(p)
       \/ \E c \in Contents : Save(p, c) \/ Edit(p, c)
       \/ Submit(p) \/ Delete(p) \/ Cancel(p)
       \/ Forward(p) \/ HandOff(p) \/ Return(p)
  \/ \E k \in Instances :
       Approve(k) \/ \E outcome \in {"rejected", "returned", "cancelled"} : Close(k, outcome)

Spec == Init /\ [][Next]_vars

(***************************************************************************)
(* Properties.                                                             *)
(***************************************************************************)
(* Statuses are those of the enum or keys of stages.                       *)
TypeOK ==
  /\ status \in Status
  /\ content \in Contents
  /\ numbers \in Nat
  /\ approval \in [Instances -> Instance]
  /\ tx \in [Sessions -> Tx]

(* Hand-offs, submissions and resubmissions that overlap never leave a     *)
(* request with two active instances (test_valid_review_handoff_creates_   *)
(* exactly_one_active_instance_and_first_task).                            *)
OneApprovalAtATime == \A j, k \in Instances : Active(j) /\ Active(k) => j = k

(* Where no stage has the key of a review status, the request is at a      *)
(* stage exactly while an instance is active, and at that instance's one,  *)
(* whichever stale copies the calls started from.                          *)
AtItsStage ==
  /\ \A k \in Instances : Active(k) => status = Stage(k)
  /\ status \in StageKeys => ~NoneActive

(* A request is given its final number when it is first submitted and      *)
(* keeps it, however often it is returned and submitted again.             *)
NumberedOnce ==
  /\ status = "draft" => numbers = 0
  /\ status \notin {"draft", "deleted"} => numbers = 1

(* No call that was under way undoes an outcome; it may only delete the    *)
(* request.                                                                *)
OutcomeStands == [][(status \in Final => status' \in {status, "deleted"})]_vars

(* What is approved is what the approvers' workflow was resolved for.      *)
ApprovedAsResolved ==
  status = "approved" =>
    \E k \in Instances : approval[k].status = "approved" /\ approval[k].content = content

(* One call at a time, the services implement the users' view.             *)
Phase ==
  IF status \in Correctable THEN "open"
  ELSE IF status \in ReviewStatuses THEN "review"
  ELSE IF status \in Final \cup {"deleted"} THEN status ELSE "approval"
Flow == INSTANCE PurchaseRequestFlow WITH Matter <- Contents, phase <- Phase, matter <- content
ImplementsFlow == Flow!FlowSpec

(* What the messages of the services say, and does not hold:               *)
(* `Only a submitted purchase request can be returned for correction', so  *)
(* that one which its requester may correct has no approval under way.     *)
OpenWithoutApproval == status \in Correctable => NoneActive
================================================================================
