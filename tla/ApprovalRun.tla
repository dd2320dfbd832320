------------------------------ MODULE ApprovalRun ------------------------------
(***************************************************************************)
(* One approval instance of a purchase request, from the moment            *)
(* ApprovalInstanceCreator has written its task rows until it is over:     *)
(*                                                                         *)
(*   - approvers decide tasks (ApprovalActionService::decide), each in a   *)
(*     database transaction of its own that locks ONE task row and reads   *)
(*     the others without a lock;                                          *)
(*   - SLA sweeps (ApprovalTaskLifecycleService::processSla) expire late   *)
(*     tasks and escalate them, statement by statement, with no            *)
(*     transaction.                                                        *)
(*                                                                         *)
(* The database is PostgreSQL at READ COMMITTED: a statement sees what has *)
(* been committed when it starts plus the writes of its own transaction,   *)
(* and a write waits while another transaction holds the row.  A           *)
(* transaction's writes to task rows are kept in its record (`task',       *)
(* `skipped', `opened') until it commits.  Its writes to the instance and  *)
(* the request, always its last statements, happen with the commit.        *)
(***************************************************************************)
EXTENDS Integers, FiniteSets, Sequences

CONSTANTS
  Users,          \* the users that may be approvers
  Requester,      \* the user that asked for the goods
  NoUser,         \* approver of a row that was never assigned
  ActsFor,        \* ActsFor[a]: the users authorised to decide a task of a
  Fallback,       \* Fallback[a]: the users an expired task of a may go to
  Plans,          \* the resolved workflows an instance may be created from
  Deciders,       \* database sessions in which approvers decide
  Sweepers,       \* SLA runs that may be active at the same time
  MaxTasks,       \* task rows one instance may come to have (bound)
  CostCentred,    \* does the request charge a cost centre?
  SweepsMayFail   \* may an SLA run die half-way?

Tasks == 1..MaxTasks
Modes == {"sequential", "parallel_any", "parallel_all"}
Acts == {"approve", "reject", "return", "cancel"}
ActiveInstance == {"pending", "in_progress"}
Outcomes == {"approved", "rejected", "returned", "cancelled"}
InstanceStatus == ActiveInstance \cup Outcomes
OpenStatus == {"pending", "queued"}
TaskStatus == OpenStatus \cup
              {"absent", "approved", "rejected", "returned", "skipped", "expired"}

(* One step of a resolved workflow, as the creator receives it.            *)
PlanStep == [order: Tasks, mode: Modes, approver: Users,
             timed: BOOLEAN, applicable: BOOLEAN]

ASSUME UsersAssumption ==
  /\ Requester \in Users
  /\ NoUser \notin Users
  /\ ActsFor \in [Users -> SUBSET Users]
  /\ Fallback \in [Users -> SUBSET Users]
  /\ \A a \in Users : a \notin Fallback[a]

ASSUME PlansAssumption ==
  /\ MaxTasks \in Nat \ {0}
  /\ \A plan \in Plans :
       /\ plan \in Seq(PlanStep)
       /\ Len(plan) \in Tasks
       /\ \E i \in DOMAIN plan : plan[i].applicable

(* The rows of one step have the mode of its workflow step, of which a     *)
(* version has one for each sequence (a unique key).                       *)
OneModePerStep ==
  \A plan \in Plans : \A i, j \in DOMAIN plan :
    plan[i].order = plan[j].order => plan[i].mode = plan[j].mode

(* WorkflowResolver makes one row per step; several rows only where one    *)
(* approval is enough.                                                     *)
OnlyAnyIsShared ==
  \A plan \in Plans : \A i, j \in DOMAIN plan :
    plan[i].order = plan[j].order /\ i # j => plan[i].mode = "parallel_any"

(* Every row can be decided by somebody other than the requester.          *)
EveryRowHasADecider ==
  \A plan \in Plans : \A i \in DOMAIN plan : plan[i].applicable =>
    \E u \in Users \ {Requester} : u \in ActsFor[plan[i].approver]

ASSUME SwitchesAssumption ==
  /\ CostCentred \in BOOLEAN
  /\ SweepsMayFail \in BOOLEAN

VARIABLES
  info,      \* the columns of a task row that never change
  status,    \* its status
  decision,  \* its decision column
  late,      \* has its deadline passed?
  inst,      \* status of the approval instance
  pr,        \* status of the purchase request
  tx,        \* the transaction of every decider
  sweep      \* the progress of every SLA run

vars == <<info, status, decision, late, inst, pr, tx, sweep>>
taskVars == <<info, status, decision, late>>

(***************************************************************************)
(* Task rows.                                                              *)
(***************************************************************************)
(* A request under approval has as its status the key of a task: the step  *)
(* key of the plan, or of the task an escalated one replaces (`origin').   *)
Keys == (Nat \X (Tasks \cup {0}))
Terminal == Outcomes
RequestStatus == [at: {"staged"} \cup Terminal, key: Keys]
KeyOf(t) == <<info[t].order, info[t].origin>>
Staged(key) == [at |-> "staged", key |-> key]
Ended(outcome) == [at |-> outcome, key |-> <<0, 0>>]

Blank == [order |-> 0, mode |-> "sequential", approver |-> NoUser,
          timed |-> FALSE, applicable |-> FALSE, origin |-> 0]
Info == [order: Nat, mode: Modes, approver: Users \cup {NoUser},
         timed: BOOLEAN, applicable: BOOLEAN, origin: Tasks \cup {0}]

Rows == {t \in Tasks : status[t] # "absent"}
Planned == {t \in Rows : info[t].origin = 0}
Group(t) == {u \in Tasks : info[u].order = info[t].order}

(* The rows come back in the order of the relation: step_order, then id.   *)
Before(t, u) == \/ info[t].order < info[u].order
                \/ info[t].order = info[u].order /\ t < u
First(S) == CHOOSE t \in S : \A u \in S \ {t} : Before(t, u)

(* assertActionable: no open task of an earlier step, given the rows' statuses *)
Actionable(t) ==
  \A u \in Tasks : status[u] \in OpenStatus => info[t].order <= info[u].order

(* authorizeActor: somebody other than the requester may decide the task.  *)
(* Who acts for whom does not change during a run, and no step allows self *)
(* approval (allow_self_approval), which would only let more users decide. *)
Authorised(t) ==
  \E u \in Users \ {Requester} : u \in ActsFor[info[t].approver]

(***************************************************************************)
(* Transactions.                                                           *)
(***************************************************************************)
Phase == {"idle", "asked", "locked", "siblings", "waiting", "opening",
          "approving", "closing"}
NoSeen == Ended("cancelled")
Tx == [pc: Phase, task: Tasks, act: Acts, seenInst: InstanceStatus,
       seenPr: RequestStatus, todo: SUBSET Tasks, skipped: SUBSET Tasks,
       opened: SUBSET Tasks, next: Tasks]
IdleTx == [pc |-> "idle", task |-> 1, act |-> "approve", seenInst |-> "pending",
           seenPr |-> NoSeen, todo |-> {}, skipped |-> {}, opened |-> {},
           next |-> 1]

SweepPhase == {"idle", "expiring", "escalating"}
Sweep == [pc: SweepPhase, todo: SUBSET Tasks, at: Tasks]
IdleSweep == [pc |-> "idle", todo |-> {}, at |-> 1]

StatusIsTheAction(act) == act                        \* mutation of StatusAfter
StatusAfter(act) == CASE act = "approve" -> "approved"
                      [] act = "reject"  -> "rejected"
                      [] OTHER           -> "returned"
OutcomeOf(act) == CASE act = "reject" -> "rejected"
                    [] act = "cancel" -> "cancelled"
                    [] OTHER          -> "returned"

(* The rows a transaction keeps locked until it ends.                      *)
Held(p) == IF tx[p].pc \in {"idle", "asked"} THEN {}
           ELSE {tx[p].task} \cup tx[p].skipped \cup tx[p].opened
FreeFor(p, t) == \A q \in Deciders \ {p} : t \notin Held(q)
Unlocked(t) == \A q \in Deciders : t \notin Held(q)

(* What a statement of p's transaction reads in the status of t, once p    *)
(* has recorded its own decision.                                          *)
Seen(p, t) == IF t = tx[p].task THEN StatusAfter(tx[p].act)
              ELSE IF t \in tx[p].opened THEN "pending"
              ELSE IF t \in tx[p].skipped THEN "skipped"
              ELSE status[t]
SeenPending(p) == {t \in Tasks : Seen(p, t) = "pending"}   \* mutation of SeenOpen
SeenOpen(p) == {t \in Tasks : Seen(p, t) \in OpenStatus}

(***************************************************************************)
(* ApprovalInstanceCreator::create: a row per step; the steps of the first *)
(* applicable order start pending, the later ones queued.                  *)
(***************************************************************************)
FirstOrder(plan) ==
  CHOOSE k \in {plan[i].order : i \in {j \in DOMAIN plan : plan[j].applicable}} :
    \A i \in DOMAIN plan : plan[i].applicable => k <= plan[i].order

CreatedStatus(plan, t) ==
  IF t \notin DOMAIN plan THEN "absent"
  ELSE IF ~plan[t].applicable THEN "skipped"
  ELSE IF plan[t].order = FirstOrder(plan) THEN "pending" ELSE "queued"

CreatedInfo(plan, t) ==
  IF t \notin DOMAIN plan THEN Blank
  ELSE [order |-> plan[t].order, mode |-> plan[t].mode,
        approver |-> IF plan[t].applicable THEN plan[t].approver ELSE NoUser,
        timed |-> plan[t].timed, applicable |-> plan[t].applicable, origin |-> 0]

Init ==
  /\ \E plan \in Plans :
       /\ info = [t \in Tasks |-> CreatedInfo(plan, t)]
       /\ status = [t \in Tasks |-> CreatedStatus(plan, t)]
       /\ pr = Staged(<<FirstOrder(plan), 0>>)
  /\ decision = [t \in Tasks |-> "none"]
  /\ late = [t \in Tasks |-> FALSE]
  /\ inst = "pending"
  /\ tx = [p \in Deciders |-> IdleTx]
  /\ sweep = [s \in Sweepers |-> IdleSweep]

(***************************************************************************)
(* decide.  An approver asks for a decision on a task: the checks made     *)
(* before the transaction starts.  A call that one of them refuses, be it  *)
(* for a budget check that has not passed, has changed nothing.            *)
(***************************************************************************)
Begin(p, t, act) ==
  /\ tx[p].pc = "idle"
  /\ status[t] \in OpenStatus
  /\ Authorised(t)
  /\ tx' = [tx EXCEPT ![p] = [IdleTx EXCEPT !.pc = "asked", !.task = t, !.act = act]]
  /\ UNCHANGED <<taskVars, inst, pr, sweep>>

DecidableAgain(t) ==                                   \* mutation of Decidable
  inst \in ActiveInstance /\ Authorised(t) /\ Actionable(t)
DecidableWhenOver(t) ==                                \* mutation of Decidable
  status[t] = "pending" /\ Authorised(t) /\ Actionable(t)
Decidable(t) ==
  /\ inst \in ActiveInstance
  /\ status[t] = "pending"
  /\ Authorised(t)
  /\ Actionable(t)

(* The row is locked, the instance, the request and the rows are read, and *)
(* the checks are made again on what was read.                             *)
LockStep(p) ==
  /\ tx[p].pc = "asked"
  /\ FreeFor(p, tx[p].task)
  /\ Decidable(tx[p].task)
  /\ tx' = [tx EXCEPT ![p] = [@ EXCEPT !.pc = "locked", !.seenInst = inst, !.seenPr = pr]]
  /\ UNCHANGED <<taskVars, inst, pr, sweep>>

Refuse(p) ==
  /\ tx[p].pc = "asked"
  /\ FreeFor(p, tx[p].task)
  /\ ~Decidable(tx[p].task)
  /\ tx' = [tx EXCEPT ![p] = IdleTx]
  /\ UNCHANGED <<taskVars, inst, pr, sweep>>

(* The decision is written to the row and the rows are read again.  After  *)
(* a refusal the open rows are to be closed.  After an approval,           *)
(* groupCompleted: parallel_any skips the pending rows of the group, in    *)
(* parallel_all every row of it must be approved.                          *)
SiblingsOfEveryStep(p) ==                              \* mutation of Siblings
  {t \in Tasks \ {tx[p].task} : status[t] \in OpenStatus}
Siblings(p) == {t \in Group(tx[p].task) \ {tx[p].task} : status[t] = "pending"}
GroupApprovedBefore(p) ==                              \* mutation of GroupApproved
  \A t \in Group(tx[p].task) : status[t] = "approved"
GroupApproved(p) == \A t \in Group(tx[p].task) : Seen(p, t) = "approved"
CloseQueuedOnly(p) == {t \in Tasks : Seen(p, t) = "queued"} \* mutation of CloseList
CloseList(p) == SeenOpen(p)

Record(p) ==
  LET mode == info[tx[p].task].mode IN
  /\ tx[p].pc = "locked"
  /\ tx' = [tx EXCEPT ![p] = [@ EXCEPT
        !.pc = IF tx[p].act # "approve" THEN "closing"
               ELSE IF mode = "parallel_all" /\ ~GroupApproved(p) THEN "waiting"
               ELSE "siblings",
        !.todo = IF tx[p].act # "approve" THEN CloseList(p)
                 ELSE IF mode = "parallel_any" THEN Siblings(p)
                 ELSE {}]]
  /\ UNCHANGED <<taskVars, inst, pr, sweep>>

(* One row of the list read before is written `skipped', whatever its      *)
(* status has become meanwhile.                                            *)
SkipWithoutWaiting(p) ==                               \* mutation of Skip
  LET t == First(tx[p].todo) IN
  /\ tx[p].pc \in {"siblings", "closing"}
  /\ tx[p].todo # {}
  /\ tx' = [tx EXCEPT ![p] = [@ EXCEPT
       !.todo = tx[p].todo \ {t}, !.skipped = tx[p].skipped \cup {t}]]
  /\ UNCHANGED <<taskVars, inst, pr, sweep>>
Skip(p) ==
  LET t == First(tx[p].todo) IN
  /\ tx[p].pc \in {"siblings", "closing"}
  /\ tx[p].todo # {}
  /\ FreeFor(p, t)
  /\ tx' = [tx EXCEPT ![p] = [@ EXCEPT
       !.todo = tx[p].todo \ {t}, !.skipped = tx[p].skipped \cup {t}]]
  /\ UNCHANGED <<taskVars, inst, pr, sweep>>

(* advance: the rows are read once more.  The first open one says which    *)
(* step comes next; without one the request is approved.                   *)
NextQueued(p) ==                                       \* mutation of NextTask
  LET queued == {t \in Tasks : Seen(p, t) = "queued"} IN
  First(IF queued # {} THEN queued ELSE SeenOpen(p))
NextTask(p) == First(SeenOpen(p))
OpenNothing(p) == {}                                   \* mutation of OpenList
OpenList(p) == {t \in Group(NextTask(p)) : Seen(p, t) = "queued"}

Advance(p) ==
  /\ tx[p].pc = "siblings"
  /\ tx[p].todo = {}
  /\ IF SeenOpen(p) = {}
       THEN tx' = [tx EXCEPT ![p].pc = "approving"]
       ELSE tx' = [tx EXCEPT ![p] = [@ EXCEPT
              !.pc = "opening", !.next = NextTask(p), !.todo = OpenList(p)]]
  /\ UNCHANGED <<taskVars, inst, pr, sweep>>

Open(p) ==
  LET t == First(tx[p].todo) IN
  /\ tx[p].pc = "opening"
  /\ tx[p].todo # {}
  /\ FreeFor(p, t)
  /\ tx' = [tx EXCEPT ![p] = [@ EXCEPT
       !.todo = tx[p].todo \ {t}, !.opened = tx[p].opened \cup {t}]]
  /\ UNCHANGED <<taskVars, inst, pr, sweep>>

(***************************************************************************)
(* The end of a transaction: its writes to the instance and the request,   *)
(* and the commit of all it has written.                                   *)
(***************************************************************************)
CommitRows(p) ==
  /\ status' = [t \in Tasks |-> Seen(p, t)]
  /\ decision' = [decision EXCEPT ![tx[p].task] = tx[p].act]
  /\ tx' = [tx EXCEPT ![p] = IdleTx]
  /\ UNCHANGED <<info, late, sweep>>

(* The instance model writes its status only if it differs from the one    *)
(* that was read when the row was locked.                                  *)
Proceed(p) == inst' = IF tx[p].seenInst = "in_progress" THEN inst ELSE "in_progress"

CommitWaiting(p) ==
  /\ tx[p].pc = "waiting"
  /\ Proceed(p)
  /\ UNCHANGED pr
  /\ CommitRows(p)

CommitAdvance(p) ==
  LET stage == Staged(KeyOf(tx[p].next)) IN
  /\ tx[p].pc = "opening"
  /\ tx[p].todo = {}
  /\ Proceed(p)
  /\ pr' = IF tx[p].seenPr = stage THEN pr ELSE stage
  /\ CommitRows(p)

(* setTerminalStatus writes both, whatever they have become.               *)
CommitClosed(p) ==
  /\ tx[p].pc = "closing"
  /\ tx[p].todo = {}
  /\ inst' = OutcomeOf(tx[p].act)
  /\ pr' = Ended(OutcomeOf(tx[p].act))
  /\ CommitRows(p)

CommitApproved(p) ==
  /\ tx[p].pc = "approving"
  /\ inst' = "approved"
  /\ pr' = Ended("approved")
  /\ CommitRows(p)

Rollback(p) ==
  /\ tx' = [tx EXCEPT ![p] = IdleTx]
  /\ UNCHANGED <<taskVars, inst, pr, sweep>>

(* The budget cannot take the reservation: the exception undoes            *)
(* everything.  So would a feature that is switched off between the checks *)
(* of one call; the switches are taken as constant.                        *)
ReserveRefused(p) ==
  /\ CostCentred
  /\ tx[p].pc = "approving"
  /\ Rollback(p)

(* The database ends one of the transactions that wait for one another.    *)
Waiting(p) == /\ tx[p].pc \in {"siblings", "closing", "opening"}
              /\ tx[p].todo # {}
              /\ ~FreeFor(p, First(tx[p].todo))
WaitsFor(p, q) == Waiting(p) /\ p # q /\ First(tx[p].todo) \in Held(q)
InCycle(p) == \E S \in SUBSET Deciders :
                /\ p \in S
                /\ \A q \in S : /\ \E r \in S : WaitsFor(q, r)
                                /\ \E r \in S : WaitsFor(r, q)
DeadlockAbort(p) == InCycle(p) /\ Rollback(p)

(***************************************************************************)
(* processSla.  A deadline passes; a run lists the late pending tasks and  *)
(* then goes through them.  Each write commits by itself and waits only    *)
(* while the row is locked.                                                *)
(***************************************************************************)
(* Bound: deadlines pass while every run could still escalate every late   *)
(* task within MaxTasks rows.                                              *)
RoomFor(t) ==
  LET lateTasks == {u \in Tasks : late[u]} \cup {t} IN
  Cardinality(Planned) + Cardinality(Sweepers) * Cardinality(lateTasks) <= MaxTasks

Elapse(t) ==
  /\ status[t] = "pending"
  /\ info[t].timed
  /\ ~late[t]
  /\ RoomFor(t)
  /\ late' = [late EXCEPT ![t] = TRUE]
  /\ UNCHANGED <<info, status, decision, inst, pr, tx, sweep>>

OverdueOnceMore ==                                     \* mutation of Overdue
  {t \in Tasks : status[t] \in {"pending", "expired"} /\ late[t]}
Overdue == {t \in Tasks : status[t] = "pending" /\ late[t]}

SlaBegin(s) ==
  /\ sweep[s].pc = "idle"
  /\ Overdue # {}
  /\ sweep' = [sweep EXCEPT ![s] = [@ EXCEPT !.pc = "expiring", !.todo = Overdue]]
  /\ UNCHANGED <<taskVars, inst, pr, tx>>

(* The row is written `expired', whatever its status has become.           *)
SlaExpire(s, t) ==
  /\ sweep[s].pc = "expiring"
  /\ t \in sweep[s].todo
  /\ Unlocked(t)
  /\ status' = [status EXCEPT ![t] = "expired"]
  /\ sweep' = [sweep EXCEPT ![s] = [pc |-> "escalating", todo |-> @.todo \ {t}, at |-> t]]
  /\ UNCHANGED <<info, decision, late, inst, pr, tx>>

SlaNext(s) ==
  sweep' = [sweep EXCEPT ![s] =
    IF @.todo = {} THEN IdleSweep ELSE [@ EXCEPT !.pc = "expiring", !.at = 1]]

Free == Tasks \ Rows
NewTask == CHOOSE t \in Free : \A u \in Free : t <= u

(* A new pending row of the same step, assigned to the fallback user.      *)
SlaEscalateAtTheEnd(s, u) ==                           \* mutation of SlaEscalate
  LET t == sweep[s].at IN
  /\ sweep[s].pc = "escalating"
  /\ u \in Fallback[info[t].approver]
  /\ Free # {}
  /\ info' = [info EXCEPT ![NewTask] =
                [info[t] EXCEPT !.order = NewTask, !.approver = u, !.origin = t]]
  /\ status' = [status EXCEPT ![NewTask] = "pending"]
  /\ SlaNext(s)
  /\ UNCHANGED <<decision, late, inst, pr, tx>>
SlaEscalate(s, u) ==
  LET t == sweep[s].at IN
  /\ sweep[s].pc = "escalating"
  /\ u \in Fallback[info[t].approver]
  /\ Free # {}
  /\ info' = [info EXCEPT ![NewTask] = [info[t] EXCEPT !.approver = u, !.origin = t]]
  /\ status' = [status EXCEPT ![NewTask] = "pending"]
  /\ SlaNext(s)
  /\ UNCHANGED <<decision, late, inst, pr, tx>>

SlaNoFallback(s) ==
  /\ sweep[s].pc = "escalating"
  /\ Fallback[info[sweep[s].at].approver] = {}
  /\ SlaNext(s)
  /\ UNCHANGED <<taskVars, inst, pr, tx>>

(* The worker is killed or a notification fails: what is done stays done.  *)
SlaAbort(s) ==
  /\ SweepsMayFail
  /\ sweep[s].pc # "idle"
  /\ sweep' = [sweep EXCEPT ![s] = IdleSweep]
  /\ UNCHANGED <<taskVars, inst, pr, tx>>

(***************************************************************************)
(* The specification.                                                      *)
(***************************************************************************)
Commit(p) == \/ CommitWaiting(p) \/ CommitAdvance(p)
             \/ CommitClosed(p) \/ CommitApproved(p)

Decide(p) == \/ \E t \in Tasks, act \in Acts : Begin(p, t, act)
             \/ LockStep(p) \/ Refuse(p) \/ Record(p)
             \/ Skip(p) \/ Advance(p) \/ Open(p)
             \/ Commit(p) \/ ReserveRefused(p) \/ DeadlockAbort(p)

Sla(s) == \/ SlaBegin(s)
          \/ \E t \in Tasks : SlaExpire(s, t)
          \/ \E u \in Users : SlaEscalate(s, u)
          \/ SlaNoFallback(s) \/ SlaAbort(s)

Next == \/ \E p \in Deciders : Decide(p)
        \/ \E t \in Tasks : Elapse(t)
        \/ \E s \in Sweepers : Sla(s)

Spec == Init /\ [][Next]_vars

(* A transaction that has begun goes on, and a deadlock is broken.         *)
Serve(p) == \/ LockStep(p) \/ Refuse(p) \/ Record(p)
            \/ Skip(p) \/ Advance(p) \/ Open(p)
            \/ Commit(p) \/ DeadlockAbort(p)

(* A task that can be decided is answered sooner or later.                 *)
Answer(t) == Decidable(t) /\ \E p \in Deciders, act \in Acts : Begin(p, t, act)

Fairness ==
  /\ \A p \in Deciders : WF_vars(Serve(p))
  /\ \A t \in Tasks : SF_vars(Answer(t))
  /\ \A s \in Sweepers : WF_vars(Sla(s))

FairSpec == Spec /\ Fairness

(***************************************************************************)
(* Properties.                                                             *)
(***************************************************************************)
(* Every variable keeps its type: the columns' values are those the        *)
(* migrations and the services write.                                      *)
TypeOK ==
  /\ info \in [Tasks -> Info]
  /\ status \in [Tasks -> TaskStatus]
  /\ decision \in [Tasks -> Acts \cup {"none"}]
  /\ late \in [Tasks -> BOOLEAN]
  /\ inst \in InstanceStatus
  /\ pr \in RequestStatus
  /\ tx \in [Deciders -> Tx]
  /\ sweep \in [Sweepers -> Sweep]

(* The request and its approval instance, written by two statements of     *)
(* setTerminalStatus and by stale in-memory copies in decide, end together *)
(* and with the same outcome.                                              *)
RequestMirrorsInstance ==
  inst \in Outcomes \/ pr.at # "staged" => inst = pr.at

(* Once an instance has ended, no transaction that was still under way     *)
(* changes its outcome or the request's (isActive is read without a lock). *)
TerminalIsFinal ==
  [][(inst \in Outcomes) => inst' = inst /\ pr' = pr]_vars

(* An approved request went through every step of its workflow: each       *)
(* applicable step has an approval, a parallel_all step one of every       *)
(* approver it was created with.                                           *)
StepApproved(t) ==
  IF info[t].mode = "parallel_all"
  THEN \A u \in Group(t) \cap Planned : decision[u] = "approve"
  ELSE \E u \in Group(t) : decision[u] = "approve"
ApprovedByEveryStep ==
  pr.at = "approved" => \A t \in Planned : info[t].applicable => StepApproved(t)

(* A task is decided at most once: no later decision replaces the one its  *)
(* row holds, however many approvers act on it at the same time.           *)
DecidedOnce ==
  [][\A t \in Tasks : decision[t] # "none" => decision'[t] = decision[t]]_vars

(* Steps are worked on in their order: a task waits for a decision only    *)
(* while no task of an earlier step is open.                               *)
OnlyTheFirstStepIsPending ==
  \A t, u \in Tasks :
    status[t] = "pending" /\ status[u] \in OpenStatus
      => info[t].order <= info[u].order

(* While nothing is under way, an active instance has a task somebody can  *)
(* decide: advance has opened the next step or ended the instance.         *)
Quiet == /\ \A p \in Deciders : tx[p].pc = "idle"
         /\ \A s \in Sweepers : sweep[s].pc = "idle"
NothingStranded ==
  Quiet /\ inst \in ActiveInstance => \E t \in Tasks : Decidable(t)

(* No step is begun before its turn, also while SLA runs overwrite         *)
(* decisions and add rows to steps that are over: every row that has been  *)
(* pending belongs to an earlier step than every row still queued.         *)
Begun(t) == info[t].applicable /\ status[t] \notin {"absent", "queued"}
NothingIsOvertaken ==
  \A t, u \in Tasks : status[t] = "queued" /\ Begun(u) => info[u].order < info[t].order

(* Overlapping SLA runs may list the same task, and each makes a row for   *)
(* it; but no run makes two, nor does a later one find it late again.      *)
Replacements(t) == {u \in Rows : info[u].origin = t}
ReplacedPerRun ==
  \A t \in Tasks : Cardinality(Replacements(t)) <= Cardinality(Sweepers)

(* Every task somebody was asked for is approved: then the request is      *)
(* approved (user guide: "Jika semua tahap selesai, request berstatus      *)
(* Approved").                                                             *)
AllApprovedIsApproved ==
  Quiet /\ (\A t \in Planned : info[t].applicable => decision[t] = "approve")
    => pr.at = "approved"

(* While a later step waits to be opened, the request is with an approver  *)
(* (user guide: "Jika masih ada tahap berikutnya, request tetap berjalan   *)
(* ke approver berikutnya").                                               *)
NextStepOpens ==
  Quiet /\ inst \in ActiveInstance /\ (\E t \in Tasks : status[t] = "queued")
    => \E t \in Tasks : status[t] = "pending"

(* An instance whose tasks are answered comes to an end; all that can     *)
(* prevent it is that the answers deadlock with each other for ever.       *)
EventuallyDecided ==
  <>(inst \in Outcomes) \/ []<>(\E p \in Deciders : InCycle(p))

(* The tasks and transactions implement the abstract approval: a step is   *)
(* passed when its group is complete, in the commit that records the last  *)
(* decision it needs.                                                      *)
StepPassed(k) ==
  \A t \in Planned :
    info[t].applicable /\ info[t].order = k =>
      IF info[t].mode = "parallel_any" THEN StepApproved(t)
      ELSE decision[t] = "approve"
StepOrders == {info[t].order : t \in {u \in Planned : info[u].applicable}}

Abstract == INSTANCE ApprovalOutcome WITH
  MaxStep <- MaxTasks,
  steps   <- StepOrders,
  passed  <- {k \in StepOrders : StepPassed(k)},
  outcome <- IF pr.at = "staged" THEN "open" ELSE pr.at
ImplementsOutcome == Abstract!OutcomeSpec
================================================================================
