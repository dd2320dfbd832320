---------------------- MODULE ApprovalRunOutcome_proofs ----------------------
(***************************************************************************)
(* While no SLA run is active, tasks and transactions are an approval as   *)
(* its requester sees it, if only parallel_any steps have several rows.    *)
(* The commit of an approval passes exactly one step, and no commit does   *)
(* it twice: whoever shares the step has had his row skipped.              *)
(***************************************************************************)
EXTENDS ApprovalRunSteps_proofs

(* A planned row that applies is never lost.                               *)
RealRows == \A t \in Real : status[t] # "absent" /\ info[t].origin = 0
SharedByAny ==
  \A t \in Real, u \in Tasks : info[u].order = info[t].order => u = t \/ ForAny(t)

(* A step with an approval has no open row, ...                            *)
PassedIsClosed ==
  \A t \in Real, u \in Tasks :
    u \in Group(t) /\ decision[u] = "approve"
      => \A v \in Group(t) : status[v] \notin OpenStatus

(* ... which is what an approving transaction is about to bring about: it  *)
(* lists every row it shares the step with.  It waits for nobody, and if   *)
(* it does not approve the request it opens a step.                        *)
Passes(r) ==
  /\ r.pc # "waiting"
  /\ r.pc \in Advancing =>
       \A u \in Group(r.task) : status[u] \in OpenStatus => u = r.task \/ u \in SkipsOf(r)
  /\ r.pc = "opening" => OpeningOf(r) # {}
  /\ r.pc = "closing" => r.act # "approve"

Passing ==
  /\ EveryStep
  /\ RealRows
  /\ SharedByAny
  /\ inst \notin Outcomes =>
       PassedIsClosed /\ \A p \in Deciders : Passes(tx[p])

(***************************************************************************)
(* The abstract state.                                                     *)
(***************************************************************************)
PassedSteps == {k \in StepOrders : StepPassed(k)}
OutcomeNow == IF pr.at = "staged" THEN "open" ELSE pr.at
RowPassed(t) ==
  IF ForAny(t) THEN \E u \in Group(t) : decision[u] = "approve"
  ELSE decision[t] = "approve"

LEMMA PassedIs ==
  ASSUME RealRows
  PROVE  /\ StepOrders = {info[t].order : t \in Real}
         /\ PassedSteps = {k \in StepOrders :
                             \A t \in Real : info[t].order = k => RowPassed(t)}
<1>1. {u \in Planned : info[u].applicable} = Real
  BY DEF RealRows, Planned, Rows, Real
<1>2. StepOrders = {info[t].order : t \in Real}
  BY <1>1 DEF StepOrders
<1>3. ASSUME NEW k
      PROVE  StepPassed(k) <=> \A t \in Real : info[t].order = k => RowPassed(t)
  <2>1. \A t : t \in Planned /\ info[t].applicable <=> t \in Real
    BY <1>1
  <2> QED BY <2>1 DEF StepPassed, RowPassed, ForAny, StepApproved
<1> QED BY <1>2, <1>3 DEF PassedSteps

(* The same of the state after a step that keeps the rows.                 *)
LEMMA PassedWillBe ==
  ASSUME RealRows', info' = info
  PROVE  /\ StepOrders' = {info[t].order : t \in Real}
         /\ PassedSteps' = {k \in StepOrders' :
                              \A t \in Real : info[t].order = k => RowPassed(t)'}
<1>1. {u \in Planned' : info'[u].applicable} = Real /\ Real' = Real
  BY DEF RealRows, Planned, Rows, Real
<1>2. StepOrders' = {info[t].order : t \in Real}
  BY <1>1 DEF StepOrders
<1>3. ASSUME NEW k
      PROVE  StepPassed(k)' <=> \A t \in Real : info[t].order = k => RowPassed(t)'
  <2>1. \A t : t \in Planned' /\ info'[t].applicable <=> t \in Real
    BY <1>1
  <2> QED BY <2>1 DEF StepPassed, RowPassed, ForAny, StepApproved
<1> QED BY <1>2, <1>3 DEF PassedSteps

AbstractVars == <<StepOrders, PassedSteps, OutcomeNow>>

LEMMA AbstractUnchanged ==
  ASSUME UNCHANGED <<info, status, decision, pr>>
  PROVE  UNCHANGED AbstractVars
BY DEF AbstractVars, StepOrders, PassedSteps, OutcomeNow, StepPassed, StepApproved, Planned,
       Rows, Group

(* A step inside one transaction.                                          *)
LEMMA StepStaysPassing ==
  ASSUME Passing, NEW p \in Deciders, NEW r,
         tx' = [tx EXCEPT ![p] = r],
         UNCHANGED <<info, status, decision, inst, pr>>, EveryStep',
         inst \notin Outcomes => Passes(r)
  PROVE  Passing' /\ UNCHANGED AbstractVars
<1>1. tx'[p] = r /\ \A q \in Deciders \ {p} : tx'[q] = tx[q]
  BY DEF Passing, EveryStep, Unswept, TypeOK
<1>2. RealRows' /\ SharedByAny'
  BY DEF Passing, RealRows, SharedByAny, Real, ForAny
<1>3. inst' \notin Outcomes => PassedIsClosed'
  BY DEF Passing, PassedIsClosed, Real, Group
<1>4. ASSUME inst' \notin Outcomes, NEW q \in Deciders PROVE Passes(tx[q])'
  <2>1. Passes(tx'[q])
    BY <1>1, <1>4 DEF Passing
  <2> QED BY <2>1 DEF Passes, SkipsOf, Group, OpeningOf
<1> QED BY <1>2, <1>3, <1>4, AbstractUnchanged DEF Passing

LEMMA IdlePasses ==
  ASSUME NEW r, r.pc \in {"idle", "asked", "locked"}
  PROVE  Passes(r)
BY DEF Passes, Advancing

LEMMA RecordPasses ==
  ASSUME Passing, NEW p \in Deciders, Record(p), EveryStep'
  PROVE  Passing' /\ UNCHANGED AbstractVars
<1> DEFINE k == tx[p].task
           pc == IF tx[p].act # "approve" THEN "closing"
                 ELSE IF info[k].mode = "parallel_all" /\ ~GroupApproved(p) THEN "waiting"
                 ELSE "siblings"
           todo == IF tx[p].act # "approve" THEN CloseList(p)
                   ELSE IF info[k].mode = "parallel_any" THEN Siblings(p) ELSE {}
           r == [tx[p] EXCEPT !.pc = pc, !.todo = todo]
<1>0. InFlight(p) /\ k \in Real /\ k \in Tasks /\ status[k] = "pending"
  BY TaskIsReal DEF Record, InFlight, Passing
<1>1. tx' = [tx EXCEPT ![p] = r] /\ UNCHANGED <<info, status, decision, inst, pr>>
  BY DEF Record, taskVars
<1>2. r.pc = pc /\ r.task = k /\ r.todo = todo /\ r.act = tx[p].act
  BY TxTypes DEF Tx, Passing, EveryStep, Unswept
<1>3. pc = "closing" => tx[p].act # "approve"
  OBVIOUS
<1>4. pc # "waiting"
  <2> SUFFICES ASSUME tx[p].act = "approve", info[k].mode = "parallel_all"
               PROVE  GroupApproved(p)
    OBVIOUS
  <2>1. \A u \in Group(k) : u = k
    BY <1>0 DEF Passing, SharedByAny, Group, ForAny
  <2> QED BY <2>1 DEF GroupApproved, Seen, StatusAfter
<1>5. ASSUME pc = "siblings", NEW u \in Group(k), status[u] \in OpenStatus, u # k
      PROVE  u \in todo
  <2>1. u \in Tasks /\ info[u].order = info[k].order /\ info[k].order \in Nat
    BY <1>0 DEF Group, Passing, EveryStep, Unswept, TypeOK, Info
  <2>2. ForAny(k)
    BY <1>0, <1>5, <2>1 DEF Passing, SharedByAny
  <2>3. status[u] # "queued"
    BY <1>0, <2>1 DEF Passing, EveryStep, Unswept, StepsInOrder
  <2>4. u \in Siblings(p)
    BY <1>5, <2>3 DEF Siblings, OpenStatus
  <2> QED BY <1>5, <2>2, <2>4 DEF ForAny
<1>6. pc \in {"closing", "waiting", "siblings"}
  OBVIOUS
<1> HIDE DEF pc, todo, r
<1>7. Passes(r)
  BY <1>2, <1>3, <1>4, <1>5, <1>6 DEF Passes, Advancing, SkipsOf
<1> QED BY <1>1, <1>7, StepStaysPassing

LEMMA SkipPasses ==
  ASSUME Passing, NEW p \in Deciders, Skip(p), EveryStep'
  PROVE  Passing' /\ UNCHANGED AbstractVars
<1> DEFINE t == First(tx[p].todo)
           r == [tx[p] EXCEPT !.todo = tx[p].todo \ {t}, !.skipped = tx[p].skipped \cup {t}]
<1>0. tx[p].pc \in {"siblings", "closing"}
  BY DEF Skip
<1>1. t \in tx[p].todo /\ t \in Tasks
  BY TxTypes, FirstIsMember, PlansAssumption DEF Skip, Passing, EveryStep, Unswept, TypeOK
<1>2. tx' = [tx EXCEPT ![p] = r] /\ UNCHANGED <<info, status, decision, inst, pr>>
  BY DEF Skip, taskVars
<1> HIDE DEF t
<1>3. /\ r.pc = tx[p].pc /\ r.task = tx[p].task /\ r.skipped = tx[p].skipped \cup {t}
      /\ r.todo = tx[p].todo \ {t} /\ r.act = tx[p].act
  BY TxTypes DEF Tx, Passing, EveryStep, Unswept
<1> HIDE DEF r
<1>4. tx[p].pc = "siblings" => SkipsOf(r) = SkipsOf(tx[p])
  BY <1>1, <1>3 DEF SkipsOf
<1>5. inst \notin Outcomes => Passes(r)
  BY <1>0, <1>3, <1>4 DEF Passing, Passes, Advancing
<1> QED BY <1>2, <1>5, StepStaysPassing

LEMMA OpenPasses ==
  ASSUME Passing, NEW p \in Deciders, Open(p), EveryStep'
  PROVE  Passing' /\ UNCHANGED AbstractVars
<1> DEFINE t == First(tx[p].todo)
           r == [tx[p] EXCEPT !.todo = tx[p].todo \ {t}, !.opened = tx[p].opened \cup {t}]
<1>0. tx[p].pc = "opening"
  BY DEF Open
<1>1. t \in tx[p].todo /\ t \in Tasks
  BY TxTypes, FirstIsMember, PlansAssumption DEF Open, Passing, EveryStep, Unswept, TypeOK
<1>2. tx' = [tx EXCEPT ![p] = r] /\ UNCHANGED <<info, status, decision, inst, pr>>
  BY DEF Open, taskVars
<1> HIDE DEF t
<1>3. /\ r.pc = tx[p].pc /\ r.task = tx[p].task /\ r.skipped = tx[p].skipped
      /\ r.todo = tx[p].todo \ {t} /\ r.opened = tx[p].opened \cup {t}
  BY TxTypes DEF Tx, Passing, EveryStep, Unswept
<1> HIDE DEF r
<1>4. SkipsOf(r) = SkipsOf(tx[p]) /\ OpeningOf(r) = OpeningOf(tx[p])
  BY <1>0, <1>1, <1>3 DEF SkipsOf, OpeningOf
<1>5. inst \notin Outcomes => Passes(r)
  BY <1>0, <1>3, <1>4 DEF Passing, Passes
<1> QED BY <1>2, <1>5, StepStaysPassing

(* The first open row advance finds is of a later step: those of its own   *)
(* it has skipped.                                                         *)
LEMMA AdvancePasses ==
  ASSUME Passing, NEW p \in Deciders, Advance(p), EveryStep'
  PROVE  Passing' /\ UNCHANGED AbstractVars
<1> DEFINE k == tx[p].task
<1>0. /\ InFlight(p) /\ tx[p].opened = {} /\ tx[p].pc = "siblings" /\ tx[p].todo = {}
      /\ inst \notin Outcomes
  BY OwnLocks, InFlightHolds DEF Advance, InFlight, OpensNext, Passing, EveryStep
<1>1. k \in Tasks /\ status[k] = "pending" /\ Passes(tx[p]) /\ SkipsOf(tx[p]) = tx[p].skipped
  BY <1>0, TaskIsReal DEF Passing, SkipsOf
<1>2. UNCHANGED <<info, status, decision, inst, pr>>
  BY DEF Advance, taskVars
<1>3. CASE SeenOpen(p) = {}
  <2> DEFINE r == [tx[p] EXCEPT !.pc = "approving"]
  <2>1. tx' = [tx EXCEPT ![p] = r]
    BY <1>3, TxTypes DEF Tx, Phase, Passing, EveryStep, Unswept, Advance
  <2>2. r.pc = "approving" /\ r.task = k /\ r.skipped = tx[p].skipped
    BY TxTypes DEF Tx, Passing, EveryStep, Unswept
  <2> HIDE DEF r
  <2>3. Passes(r)
    BY <1>0, <1>1, <2>2 DEF Passes, Advancing, SkipsOf
  <2> QED BY <1>2, <2>1, <2>3, StepStaysPassing
<1>4. CASE SeenOpen(p) # {}
  <2> DEFINE n == NextTask(p)
             r == [tx[p] EXCEPT !.pc = "opening", !.next = n, !.todo = OpenList(p)]
  <2>1. SeenOpen(p) \in SUBSET Tasks
    BY DEF SeenOpen
  <2>2. n \in SeenOpen(p) /\ n \in Tasks
    BY <1>4, <2>1, FirstIsMember, PlansAssumption
    DEF NextTask, Passing, EveryStep, Unswept, TypeOK
  <2>3. tx' = [tx EXCEPT ![p] = r]
    BY <1>4 DEF Advance
  <2>4. Seen(p, n) \in OpenStatus /\ n # k /\ n \notin tx[p].skipped /\ status[n] = Seen(p, n)
    BY <1>0, <2>2 DEF SeenOpen, Seen, StatusAfter, OpenStatus
  <2>5. status[n] = "queued"
    <3> SUFFICES ASSUME status[n] = "pending" PROVE FALSE
      BY <2>4 DEF OpenStatus
    <3>1. n \in Group(k)
      BY <1>1, <2>2 DEF Passing, EveryStep, Unswept, StepsInOrder, Group
    <3> QED BY <1>0, <1>1, <2>4, <3>1 DEF Passes, Advancing
  <2>6. n \in OpenList(p)
    BY <2>2, <2>4, <2>5 DEF OpenList, Group
  <2>7. /\ r.pc = "opening" /\ r.task = k /\ r.skipped = tx[p].skipped
        /\ r.todo = OpenList(p) /\ r.opened = {}
    BY <1>0, TxTypes DEF Tx, Passing, EveryStep, Unswept
  <2> HIDE DEF n, r
  <2>8. OpeningOf(r) # {} /\ SkipsOf(r) = tx[p].skipped
    BY <2>6, <2>7 DEF OpeningOf, SkipsOf
  <2>9. Passes(r)
    BY <1>0, <1>1, <2>7, <2>8 DEF Passes, Advancing
  <2> QED BY <1>2, <2>3, <2>9, StepStaysPassing
<1> QED BY <1>3, <1>4

(***************************************************************************)
(* The commits.                                                            *)
(***************************************************************************)
(* No commit loses a row: it writes statuses, and only of open rows.       *)
LEMMA RowsKept ==
  ASSUME Passing, NEW p \in Deciders, Commit(p)
  PROVE  /\ info' = info /\ Real' = Real /\ Real \subseteq Tasks
         /\ RealRows' /\ SharedByAny'
         /\ StepOrders' = StepOrders
<1>1. CommitRows(p) /\ info' = info
  BY DEF Commit, CommitWaiting, CommitAdvance, CommitClosed, CommitApproved, CommitRows
<1>2. Real' = Real /\ Real \subseteq Tasks
  BY <1>1 DEF Real
<1>3. RealRows'
  <2>1. \A t \in Real : status'[t] = Seen(p, t) /\ status[t] # "absent" /\ info[t].origin = 0
    BY <1>1, <1>2 DEF CommitRows, Passing, RealRows
  <2>2. \A t \in Real : Seen(p, t) # "absent"
    BY <2>1 DEF Seen, StatusAfter
  <2> QED BY <1>1, <1>2, <2>1, <2>2 DEF RealRows
<1>4. SharedByAny'
  BY <1>1, <1>2 DEF Passing, SharedByAny, ForAny
<1>5. StepOrders' = StepOrders
  BY <1>1, <1>3, PassedIs, PassedWillBe DEF Passing
<1> QED BY <1>1, <1>2, <1>3, <1>4, <1>5

(* The commit of an approval passes the step of its task and no other: the *)
(* step had no approval, and those before it have no open row left.        *)
LEMMA PassesOneStep ==
  ASSUME Passing, NEW p \in Deciders, CommitAdvance(p) \/ CommitApproved(p)
  PROVE  LET k == info[tx[p].task].order IN
         /\ k \in StepOrders \ PassedSteps
         /\ \A j \in StepOrders : j < k => j \in PassedSteps
         /\ PassedSteps' = PassedSteps \cup {k}
<1> DEFINE task == tx[p].task
           k == info[task].order
<1>0. Commit(p) /\ ~CommitClosed(p) /\ InFlight(p)
  BY DEF Commit, CommitAdvance, CommitApproved, CommitClosed, InFlight
<1>1. task \in Real /\ task \in Tasks /\ status[task] = "pending" /\ inst \notin Outcomes
  BY <1>0, TaskIsReal, InFlightHolds DEF Passing, EveryStep
<1>2. /\ info' = info /\ Real' = Real /\ Real \subseteq Tasks /\ StepOrders' = StepOrders
      /\ RealRows /\ RealRows'
  BY <1>0, RowsKept DEF Passing
<1>3. /\ \A t, u \in Tasks : u \in Group(t) <=> info[u].order = info[t].order
      /\ \A t \in Tasks : t \in Group(t) /\ Group(t) \subseteq Tasks
      /\ \A t \in Tasks : Group(t)' = Group(t) /\ (ForAny(t)' <=> ForAny(t))
  BY <1>2 DEF Group, ForAny
<1>4. \A t \in Tasks : info[t].order \in Nat
  BY DEF Passing, EveryStep, Unswept, TypeOK, Info
<1>5. \A u \in Tasks : u # task => decision'[u] = decision[u]
  BY <1>0, <1>1 DEF Commit, CommitWaiting, CommitAdvance, CommitApproved, CommitRows, Passing,
                    EveryStep, Unswept, TypeOK
<1>6. decision'[task] = "approve"
  BY <1>0, <1>1, ApprovedRow DEF Passing
<1>7. \A u \in Group(task) : decision[u] # "approve"
  BY <1>1, <1>3 DEF Passing, PassedIsClosed, OpenStatus
<1>8. ~RowPassed(task)
  BY <1>1, <1>3, <1>7 DEF RowPassed
<1>9. ASSUME NEW t \in Real, info[t].order < k PROVE RowPassed(t)
  <2>1. status[t] \notin OpenStatus
    BY <1>1, <1>2, <1>4, <1>9 DEF Passing, EveryStep, Unswept, StepsInOrder, OpenStatus
  <2>2. status[t] = "approved" \/ status[t] = "skipped"
    BY <1>1, <2>1 DEF Passing, EveryStep, ClosedForAReason
  <2> QED BY <1>1, <1>2, <1>3, <2>2 DEF Passing, EveryStep, ClosedForAReason, RowPassed
<1>10. ASSUME NEW t \in Real, info[t].order = k PROVE RowPassed(t)'
  <2>1. task \in Group(t) /\ (t = task \/ ForAny(t)) /\ t \in Tasks
    BY <1>1, <1>2, <1>3, <1>10 DEF Passing, SharedByAny
  <2> QED BY <1>3, <1>6, <2>1 DEF RowPassed
<1>11. ASSUME NEW t \in Real, info[t].order # k PROVE RowPassed(t)' <=> RowPassed(t)
  <2>1. t \in Tasks /\ \A u \in Group(t) : u \in Tasks /\ u # task
    BY <1>1, <1>2, <1>3, <1>11
  <2>2. \A u \in Group(t) : decision'[u] = decision[u]
    BY <2>1, <1>5
  <2>3. Group(t)' = Group(t) /\ (ForAny(t)' <=> ForAny(t)) /\ t \in Group(t)
    BY <2>1, <1>3
  <2>4. CASE ForAny(t)
    BY <2>2, <2>3, <2>4 DEF RowPassed
  <2>5. CASE ~ForAny(t)
    BY <2>2, <2>3, <2>5 DEF RowPassed
  <2> QED BY <2>4, <2>5
<1>12. /\ StepOrders = {info[t].order : t \in Real}
       /\ PassedSteps = {j \in StepOrders : \A t \in Real : info[t].order = j => RowPassed(t)}
       /\ PassedSteps' = {j \in StepOrders : \A t \in Real : info[t].order = j => RowPassed(t)'}
  <2> HIDE DEF task, k
  <2> QED BY <1>2, PassedIs, PassedWillBe
<1> HIDE DEF task, k
<1>13. k \in StepOrders /\ k \notin PassedSteps
  BY <1>1, <1>8, <1>12 DEF k
<1>14. \A j \in StepOrders : j < k => j \in PassedSteps
  BY <1>9, <1>12
<1>15. PassedSteps' = PassedSteps \cup {k}
  <2>1. ASSUME NEW j \in StepOrders PROVE j \in PassedSteps' <=> j \in PassedSteps \/ j = k
    <3>1. CASE j = k
      BY <3>1, <1>10, <1>12
    <3>2. CASE j # k
      BY <3>2, <1>11, <1>12
    <3> QED BY <3>1, <3>2
  <2>2. PassedSteps \subseteq StepOrders /\ PassedSteps' \subseteq StepOrders
    BY <1>12
  <2> QED BY <1>13, <2>1, <2>2
<1> QED BY <1>13, <1>14, <1>15 DEF k, task

(* A transaction that opens a step leaves that one to be passed ...        *)
LEMMA AdvanceLeavesAStep ==
  ASSUME Passing, NEW p \in Deciders, CommitAdvance(p)
  PROVE  PassedSteps' # StepOrders
<1> DEFINE task == tx[p].task
<1>0. Commit(p) /\ ~CommitClosed(p) /\ InFlight(p) /\ tx[p].pc = "opening"
  BY DEF Commit, CommitAdvance, CommitClosed, InFlight
<1>1. task \in Real /\ task \in Tasks /\ status[task] = "pending" /\ inst \notin Outcomes
  BY <1>0, TaskIsReal, InFlightHolds DEF Passing, EveryStep
<1>2. /\ info' = info /\ Real' = Real /\ Real \subseteq Tasks /\ StepOrders' = StepOrders
      /\ RealRows /\ RealRows'
  BY <1>0, RowsKept DEF Passing
<1>3. PICK w \in OpeningOf(tx[p]) : status[w] = "queued"
  BY <1>0, <1>1, OwnLocks DEF Passing, Passes, EveryStep, OpensNext
<1>4. w \in Tasks /\ w \in Real
  BY <1>3, TxTypes DEF OpeningOf, Passing, EveryStep, RowsOfOneStep, OpenStatus, Unswept
<1>5. info[w].order # info[task].order
  BY <1>1, <1>3, <1>4 DEF Passing, EveryStep, Unswept, StepsInOrder, TypeOK, Info
<1>6. \A u \in Group(w) : u \in Tasks /\ u # task /\ decision[u] # "approve"
  <2>1. \A u \in Group(w) : u \in Tasks /\ info[u].order = info[w].order
    BY DEF Group
  <2>2. w \in Group(w)
    BY <1>4 DEF Group
  <2> QED BY <1>1, <1>3, <1>4, <1>5, <2>1, <2>2 DEF Passing, PassedIsClosed, OpenStatus
<1>7. \A u \in Group(w) : decision'[u] # "approve"
  BY <1>1, <1>6 DEF CommitAdvance, CommitRows, Passing, EveryStep, Unswept, TypeOK
<1>8. Group(w)' = Group(w) /\ w \in Group(w)
  BY <1>2, <1>4 DEF Group
<1>9. ~RowPassed(w)'
  BY <1>7, <1>8 DEF RowPassed
<1>10. info[w].order \in StepOrders /\ info[w].order \notin PassedSteps'
  <2> HIDE DEF task
  <2>1. info[w].order \in StepOrders
    BY <1>2, <1>4, PassedIs
  <2>2. PassedSteps' = {j \in StepOrders' : \A t \in Real : info[t].order = j => RowPassed(t)'}
    BY <1>2, PassedWillBe
  <2> QED BY <1>4, <1>9, <2>1, <2>2
<1> QED BY <1>10

(* ... and one that approves the request leaves none.                      *)
LEMMA ApprovedLeavesNone ==
  ASSUME Passing, NEW p \in Deciders, CommitApproved(p)
  PROVE  PassedSteps' = StepOrders
<1> DEFINE task == tx[p].task
<1>0. Commit(p) /\ ~CommitClosed(p) /\ InFlight(p) /\ tx[p].pc = "approving"
  BY DEF Commit, CommitApproved, CommitClosed, InFlight
<1>1. task \in Real /\ task \in Tasks /\ inst \notin Outcomes
  BY <1>0, TaskIsReal, InFlightHolds DEF Passing, EveryStep
<1>2. /\ info' = info /\ Real' = Real /\ Real \subseteq Tasks /\ StepOrders' = StepOrders
      /\ RealRows /\ RealRows'
  BY <1>0, RowsKept DEF Passing
<1>3. ASSUME NEW t \in Real PROVE RowPassed(t)'
  <2>0. /\ t \in Tasks /\ Group(t)' = Group(t) /\ (ForAny(t)' <=> ForAny(t))
        /\ t \in Group(t) /\ Group(t) \subseteq Tasks
    BY <1>2 DEF Group, ForAny
  <2>1. CASE t = task
    BY <2>0, <2>1, <1>0, ApprovedRow DEF RowPassed, Passing
  <2>2. CASE t \in tx[p].skipped
    <3>1. info[t].order = info[task].order /\ ForAny(task)
      BY <2>0, <2>2, <1>0, ApprovedRow DEF Passing, Group
    <3>2. ForAny(t) /\ task \in Group(t)
      BY <3>1, <1>1, <2>0 DEF Passing, EveryStep, RowsOfOneStep, ForAny, Group
    <3> QED BY <3>2, <2>0, <1>0, <1>1, ApprovedRow DEF RowPassed, Passing
  <2>3. CASE t \notin {task} \cup tx[p].skipped
    <3>1. status[t] \notin OpenStatus
      BY <2>3, <2>0, <1>0 DEF Passing, EveryStep, Unswept, ApprovesTheLast
    <3>2. RowPassed(t)
      <4>1. status[t] = "approved" \/ status[t] = "skipped"
        BY <1>1, <3>1 DEF Passing, EveryStep, ClosedForAReason
      <4> QED BY <1>1, <2>0, <4>1 DEF Passing, EveryStep, ClosedForAReason, RowPassed
    <3>3. \A u \in Tasks : decision[u] = "approve" => decision'[u] = "approve"
      BY <1>0, ApprovedRow DEF Passing
    <3>4. CASE ForAny(t)
      BY <2>0, <3>2, <3>3, <3>4 DEF RowPassed
    <3>5. CASE ~ForAny(t)
      BY <2>0, <3>2, <3>3, <3>5 DEF RowPassed
    <3> QED BY <3>4, <3>5
  <2> QED BY <2>1, <2>2, <2>3
<1> HIDE DEF task
<1>4. PassedSteps' = {j \in StepOrders' : \A t \in Real : info[t].order = j => RowPassed(t)'}
  BY <1>2, PassedWillBe
<1> QED BY <1>2, <1>3, <1>4

(* After its commit no row of a passed step is open: those the transaction *)
(* shares the step with it has skipped.                                    *)
LEMMA AdvanceKeepsPassing ==
  ASSUME Passing, NEW p \in Deciders, CommitAdvance(p), EveryStep'
  PROVE  Passing'
<1> DEFINE task == tx[p].task
<1>0. Commit(p) /\ ~CommitClosed(p) /\ InFlight(p) /\ CommitRows(p) /\ tx[p].pc = "opening"
  BY DEF Commit, CommitAdvance, CommitClosed, InFlight
<1>1. task \in Real /\ task \in Tasks /\ inst \notin Outcomes
  BY <1>0, TaskIsReal, InFlightHolds DEF Passing, EveryStep
<1>2. /\ info' = info /\ Real' = Real /\ Real \subseteq Tasks /\ RealRows' /\ SharedByAny'
  BY <1>0, RowsKept
<1>3. \A u \in Tasks : status'[u] \in OpenStatus => status[u] \in OpenStatus /\ u # task
  BY <1>0, CommittedRow DEF Passing, EveryStep
<1>4. \A t \in Tasks : Group(t)' = Group(t) /\ Group(t) \subseteq Tasks
  BY <1>2 DEF Group
<1>5. PassedIsClosed'
  <2> SUFFICES ASSUME NEW t \in Real, NEW u \in Tasks, u \in Group(t),
                      decision'[u] = "approve", NEW v \in Group(t), status'[v] \in OpenStatus
               PROVE  FALSE
    BY <1>2, <1>4 DEF PassedIsClosed
  <2>1. v \in Tasks /\ status[v] \in OpenStatus /\ v # task
    BY <1>2, <1>3, <1>4
  <2>2. CASE u = task
    <3>1. v \in Group(task)
      BY <2>2 DEF Group
    <3>2. v \in SkipsOf(tx[p])
      BY <1>0, <1>1, <2>1, <3>1 DEF Passing, Passes, Advancing
    <3>3. v \in tx[p].skipped
      BY <1>0, <3>2 DEF SkipsOf
    <3>4. status'[v] = "skipped"
      BY <1>0, <2>1, <3>3, ApprovedRow DEF Passing
    <3> QED BY <3>4 DEF OpenStatus
  <2>3. CASE u # task
    <3>1. decision[u] = "approve"
      BY <1>0, <2>3 DEF CommitRows, Passing, EveryStep, Unswept, TypeOK
    <3> QED BY <1>1, <2>1, <3>1 DEF Passing, PassedIsClosed
  <2> QED BY <2>2, <2>3
<1>6. ASSUME NEW q \in Deciders PROVE Passes(tx[q])'
  <2>1. tx'[p] = IdleTx /\ (q # p => tx'[q] = tx[q])
    BY <1>0 DEF Passing, EveryStep, Unswept, TypeOK, CommitRows
  <2>2. CASE q = p
    BY <2>1, <2>2 DEF Passes, Advancing, IdleTx
  <2>3. CASE q # p
    <3> DEFINE r == tx[q]
    <3>1. Passes(r) /\ r.task \in Tasks /\ tx'[q] = r
      BY <1>1, <2>1, <2>3, TxTypes DEF Passing, EveryStep, Unswept
    <3> HIDE DEF r
    <3>2. Group(r.task)' = Group(r.task) /\ Group(r.task) \subseteq Tasks
      BY <1>4, <3>1 DEF r
    <3> QED BY <1>2, <1>3, <3>1, <3>2 DEF Passes, SkipsOf, OpeningOf, Group, r
  <2> QED BY <2>2, <2>3
<1> QED BY <1>2, <1>5, <1>6 DEF Passing

(***************************************************************************)
(* The refinement.                                                         *)
(***************************************************************************)
LEMMA ApprovalIsPass ==
  ASSUME Passing, NEW p \in Deciders, CommitAdvance(p) \/ CommitApproved(p)
  PROVE  \E k \in StepOrders : Abstract!Pass(k)
<1> DEFINE k == info[tx[p].task].order
<1>0. Commit(p) /\ InFlight(p)
  BY DEF Commit, CommitAdvance, CommitApproved, InFlight
<1>1. inst \notin Outcomes /\ pr.at = "staged" /\ StepOrders' = StepOrders
  BY <1>0, InFlightHolds, ActiveRequest, RowsKept DEF Passing, EveryStep
<1>2. /\ k \in StepOrders \ PassedSteps
      /\ \A j \in StepOrders : j < k => j \in PassedSteps
      /\ PassedSteps' = PassedSteps \cup {k}
  BY PassesOneStep
<1>3. OutcomeNow = "open"
  BY <1>1 DEF OutcomeNow
<1>4. OutcomeNow' = IF PassedSteps' = StepOrders THEN "approved" ELSE "open"
  <2>1. CASE CommitAdvance(p)
    <3>1. pr'.at = "staged"
      BY <1>1, <2>1 DEF CommitAdvance, Staged
    <3> QED BY <2>1, <3>1, AdvanceLeavesAStep DEF OutcomeNow
  <2>2. CASE CommitApproved(p)
    <3>1. pr'.at = "approved"
      BY <2>2 DEF CommitApproved, Ended
    <3> QED BY <2>2, <3>1, ApprovedLeavesNone DEF OutcomeNow
  <2> QED BY <2>1, <2>2
<1> HIDE DEF k
<1>5. Abstract!Pass(k)
  BY <1>1, <1>2, <1>3, <1>4 DEF Abstract!Pass, PassedSteps, OutcomeNow
<1> QED BY <1>2, <1>5

(* A refusal decides a row of a step that had no approval.                 *)
LEMMA RefusalIsEnd ==
  ASSUME Passing, NEW p \in Deciders, CommitClosed(p), EveryStep'
  PROVE  Passing' /\ \E refusal \in Abstract!Refusals : Abstract!End(refusal)
<1> DEFINE task == tx[p].task
           refusal == OutcomeOf(tx[p].act)
<1>0. Commit(p) /\ InFlight(p) /\ CommitRows(p) /\ tx[p].pc = "closing"
  BY DEF Commit, CommitClosed, InFlight
<1>1. task \in Real /\ task \in Tasks /\ status[task] = "pending" /\ inst \notin Outcomes
  BY <1>0, TaskIsReal, InFlightHolds DEF Passing, EveryStep
<1>2. /\ info' = info /\ Real' = Real /\ Real \subseteq Tasks /\ StepOrders' = StepOrders
      /\ RealRows /\ RealRows' /\ SharedByAny'
  BY <1>0, RowsKept DEF Passing
<1>3. inst' \in Outcomes /\ refusal \in {"rejected", "returned", "cancelled"}
      /\ pr'.at = refusal
  BY DEF CommitClosed, OutcomeOf, Outcomes, Ended
<1>4. Passing'
  BY <1>2, <1>3 DEF Passing
<1>5. \A u \in Tasks : decision'[u] = "approve" <=> decision[u] = "approve"
  <2>1. tx[p].act # "approve"
    BY <1>0, <1>1 DEF Passing, Passes
  <2>2. decision[task] = "none"
    BY <1>1 DEF Passing, EveryStep, Unswept, OpenIsUndecided, OpenStatus
  <2>3. \A u \in Tasks : decision'[u] = IF u = task THEN tx[p].act ELSE decision[u]
    BY <1>0 DEF CommitRows, Passing, EveryStep, Unswept, TypeOK
  <2> QED BY <2>1, <2>2, <2>3
<1>6. ASSUME NEW t \in Real PROVE RowPassed(t)' <=> RowPassed(t)
  <2>1. /\ t \in Tasks /\ Group(t)' = Group(t) /\ (ForAny(t)' <=> ForAny(t))
        /\ Group(t) \subseteq Tasks
    BY <1>2 DEF Group, ForAny
  <2>2. CASE ForAny(t)
    BY <1>5, <2>1, <2>2 DEF RowPassed
  <2>3. CASE ~ForAny(t)
    BY <1>5, <2>1, <2>3 DEF RowPassed
  <2> QED BY <2>2, <2>3
<1> HIDE DEF refusal, task
<1>7. PassedSteps' = PassedSteps
  <2>1. /\ PassedSteps = {j \in StepOrders : \A t \in Real : info[t].order = j => RowPassed(t)}
        /\ PassedSteps' = {j \in StepOrders : \A t \in Real : info[t].order = j => RowPassed(t)'}
    BY <1>2, PassedIs, PassedWillBe
  <2> QED BY <1>6, <2>1
<1>8. pr.at = "staged"
  BY <1>1, ActiveRequest DEF Passing, EveryStep
<1>9. OutcomeNow = "open" /\ OutcomeNow' = refusal
  BY <1>3, <1>8 DEF OutcomeNow
<1>10. Abstract!End(refusal)
  BY <1>2, <1>7, <1>9 DEF Abstract!End, PassedSteps, OutcomeNow
<1> QED BY <1>3, <1>4, <1>10 DEF Abstract!Refusals

LEMMA PassingStep ==
  ASSUME Sweepers = {}, Passing, [Next]_vars
  PROVE  Passing' /\ [Abstract!OutcomeNext]_AbstractVars
<1>1. EveryStep'
  BY EveryStepKept DEF Passing
<1>2. ASSUME NEW p \in Deciders, NEW t \in Tasks, NEW act \in Acts, Begin(p, t, act)
      PROVE  Passing' /\ [Abstract!OutcomeNext]_AbstractVars
  <2> DEFINE r == [IdleTx EXCEPT !.pc = "asked", !.task = t, !.act = act]
  <2>1. tx' = [tx EXCEPT ![p] = r] /\ UNCHANGED <<info, status, decision, inst, pr>>
    BY <1>2 DEF Begin, taskVars
  <2>2. r.pc = "asked"
    BY DEF IdleTx
  <2> HIDE DEF r
  <2>3. Passes(r)
    BY <2>2, IdlePasses
  <2> QED BY <1>1, <2>1, <2>3, StepStaysPassing
<1>3. ASSUME NEW p \in Deciders, LockStep(p)
      PROVE  Passing' /\ [Abstract!OutcomeNext]_AbstractVars
  <2> DEFINE r == [tx[p] EXCEPT !.pc = "locked", !.seenInst = inst, !.seenPr = pr]
  <2>1. tx' = [tx EXCEPT ![p] = r] /\ UNCHANGED <<info, status, decision, inst, pr>>
    BY <1>3 DEF LockStep, taskVars
  <2>2. r.pc = "locked"
    BY TxTypes DEF Tx, Passing, EveryStep, Unswept
  <2> HIDE DEF r
  <2>3. Passes(r)
    BY <2>2, IdlePasses
  <2> QED BY <1>1, <2>1, <2>3, StepStaysPassing
<1>4. ASSUME NEW p \in Deciders, Refuse(p) \/ ReserveRefused(p) \/ DeadlockAbort(p)
      PROVE  Passing' /\ [Abstract!OutcomeNext]_AbstractVars
  <2>1. tx' = [tx EXCEPT ![p] = IdleTx] /\ UNCHANGED <<info, status, decision, inst, pr>>
    BY <1>4 DEF Refuse, ReserveRefused, DeadlockAbort, Rollback, taskVars
  <2>2. Passes(IdleTx)
    BY DEF IdleTx, Passes, Advancing
  <2> QED BY <1>1, <2>1, <2>2, StepStaysPassing
<1>5. ASSUME NEW p \in Deciders, Record(p) \/ Skip(p) \/ Advance(p) \/ Open(p)
      PROVE  Passing' /\ [Abstract!OutcomeNext]_AbstractVars
  BY <1>1, <1>5, RecordPasses, SkipPasses, AdvancePasses, OpenPasses
<1>6. ASSUME NEW p \in Deciders, Commit(p)
      PROVE  Passing' /\ [Abstract!OutcomeNext]_AbstractVars
  <2>1. CASE CommitWaiting(p)
    <3>1. InFlight(p) /\ tx[p].pc = "waiting"
      BY <2>1 DEF CommitWaiting, InFlight
    <3>2. inst \notin Outcomes
      BY <3>1, InFlightHolds DEF Passing, EveryStep
    <3> QED BY <3>1, <3>2 DEF Passing, Passes
  <2>2. CASE CommitAdvance(p)
    BY <1>1, <2>2, AdvanceKeepsPassing, ApprovalIsPass DEF Abstract!OutcomeNext
  <2>3. CASE CommitClosed(p)
    BY <1>1, <2>3, RefusalIsEnd DEF Abstract!OutcomeNext
  <2>4. CASE CommitApproved(p)
    <3>1. inst' \in Outcomes
      BY <2>4 DEF CommitApproved, Outcomes
    <3>2. Passing'
      BY <1>1, <1>6, <3>1, RowsKept DEF Passing
    <3> QED BY <2>4, <3>2, ApprovalIsPass DEF Abstract!OutcomeNext
  <2> QED BY <1>6, <2>1, <2>2, <2>3, <2>4 DEF Commit
<1>7. CASE (\E t \in Tasks : Elapse(t)) \/ UNCHANGED vars
  <2>1. UNCHANGED <<info, status, decision, inst, pr, tx>>
    BY <1>7 DEF Elapse, vars
  <2>2. RealRows' /\ SharedByAny'
    BY <2>1 DEF Passing, RealRows, SharedByAny, Real, ForAny
  <2>3. inst' \notin Outcomes => PassedIsClosed' /\ \A p \in Deciders : Passes(tx[p])'
    BY <2>1 DEF Passing, PassedIsClosed, Real, Group, Passes, SkipsOf, OpeningOf
  <2> QED BY <1>1, <2>1, <2>2, <2>3, AbstractUnchanged DEF Passing
<1> QED BY <1>2, <1>3, <1>4, <1>5, <1>6, <1>7 DEF Next, Decide

LEMMA SharedHaveOneMode == OnlyAnyIsShared => OneModePerStep
BY DEF OnlyAnyIsShared, OneModePerStep

LEMMA PassingInit == ASSUME OnlyAnyIsShared, Init PROVE Passing /\ Abstract!OutcomeInit
<1>1. EveryStep
  BY InitEveryStep, SharedHaveOneMode
<1>2. PICK plan \in Plans :
        /\ info = [t \in Tasks |-> CreatedInfo(plan, t)]
        /\ status = [t \in Tasks |-> CreatedStatus(plan, t)]
  BY DEF Init
<1>3. plan \in Seq(PlanStep) /\ Len(plan) \in Tasks /\ \E i \in DOMAIN plan : plan[i].applicable
  BY PlansAssumption
<1>4. \A i \in DOMAIN plan : i \in Tasks /\ plan[i].order \in Tasks
  <2>1. \A i \in DOMAIN plan : plan[i] \in PlanStep /\ i \in Tasks
    BY <1>3, PlansAssumption DEF Tasks
  <2> QED BY <2>1 DEF PlanStep
<1>5. ASSUME NEW t \in Tasks
      PROVE  /\ info[t].origin = 0
             /\ t \in Real <=> t \in DOMAIN plan /\ plan[t].applicable
             /\ t \in DOMAIN plan => info[t].order = plan[t].order /\ info[t].mode = plan[t].mode
             /\ t \notin DOMAIN plan => info[t].order = 0
             /\ t \in DOMAIN plan => status[t] # "absent"
  <2>1. info[t] = CreatedInfo(plan, t) /\ status[t] = CreatedStatus(plan, t)
    BY <1>2
  <2>2. CASE t \in DOMAIN plan
    BY <2>1, <2>2 DEF CreatedInfo, CreatedStatus, Real
  <2>3. CASE t \notin DOMAIN plan
    BY <2>1, <2>3 DEF CreatedInfo, Blank, Real
  <2> QED BY <2>2, <2>3
<1>6. RealRows
  BY <1>5 DEF RealRows, Real
<1>7. SharedByAny
  <2> SUFFICES ASSUME NEW t \in Real, NEW u \in Tasks, info[u].order = info[t].order, u # t
               PROVE  ForAny(t)
    BY DEF SharedByAny
  <2>1. t \in Tasks /\ t \in DOMAIN plan /\ info[t].order = plan[t].order
        /\ info[t].mode = plan[t].mode
    BY <1>5 DEF Real
  <2>2. u \in DOMAIN plan /\ info[u].order = plan[u].order
    BY <1>4, <1>5, <2>1, PlansAssumption DEF Tasks
  <2> QED BY <2>1, <2>2 DEF OnlyAnyIsShared, ForAny
<1>8. \A t \in Tasks : decision[t] = "none"
  BY DEF Init
<1>9. PassedIsClosed
  BY <1>8 DEF PassedIsClosed
<1>10. \A p \in Deciders : Passes(tx[p])
  BY DEF Init, IdleTx, Passes, Advancing
<1>11. Passing
  BY <1>1, <1>6, <1>7, <1>9, <1>10 DEF Passing
<1>12. StepOrders = {info[t].order : t \in Real}
       /\ PassedSteps = {k \in StepOrders : \A t \in Real : info[t].order = k => RowPassed(t)}
  BY <1>6, PassedIs
<1>13. StepOrders \in (SUBSET (1..MaxTasks)) \ {{}}
  <2>1. Real # {}
    BY <1>3, <1>4, <1>5
  <2>2. \A t \in Real : info[t].order \in 1..MaxTasks
    BY <1>4, <1>5 DEF Real, Tasks
  <2> QED BY <1>12, <2>1, <2>2
<1>14. PassedSteps = {}
  <2>1. \A t \in Real : ~RowPassed(t)
    BY <1>8 DEF RowPassed, Real, Group
  <2> QED BY <1>12, <2>1
<1>15. OutcomeNow = "open"
  BY DEF Init, Staged, OutcomeNow
<1> QED BY <1>11, <1>13, <1>14, <1>15 DEF Abstract!OutcomeInit, PassedSteps, OutcomeNow

(* As long as no SLA run is active, and only parallel_any steps have       *)
(* several rows, every transaction is seen by the requester as passing one *)
(* step, in their order and in the commit of the last decision it needs,   *)
(* or as ending the approval, or not at all.                               *)
THEOREM DecisionsImplementOutcome ==
  ASSUME Sweepers = {}, OnlyAnyIsShared PROVE Spec => ImplementsOutcome
<1>1. Init => Passing /\ Abstract!OutcomeInit
  BY PassingInit
<1>2. Passing /\ [Next]_vars => Passing' /\ [Abstract!OutcomeNext]_AbstractVars
  BY PassingStep
<1>3. AbstractVars = <<StepOrders, {k \in StepOrders : StepPassed(k)},
                       IF pr.at = "staged" THEN "open" ELSE pr.at>>
  BY DEF AbstractVars, PassedSteps, OutcomeNow
<1> QED
  BY <1>1, <1>2, PTL
  DEF Spec, ImplementsOutcome, Abstract!OutcomeSpec, AbstractVars, PassedSteps, OutcomeNow

(***************************************************************************)
(* Nobody is left waiting.                                                 *)
(***************************************************************************)
SomebodyIsAsked == inst \notin Outcomes => \E t \in Tasks : status[t] = "pending"
AllHaveADecider == \A t \in Real : Authorised(t)
Asking == Passing /\ SomebodyIsAsked /\ AllHaveADecider

LEMMA AskingStep ==
  ASSUME Sweepers = {}, Asking, [Next]_vars
  PROVE  Asking'
<1>1. Passing'
  BY PassingStep DEF Asking
<1>2. ASSUME UNCHANGED <<info, status, inst>> PROVE Asking'
  BY <1>1, <1>2 DEF Asking, SomebodyIsAsked, AllHaveADecider, Real, Authorised
<1>3. ASSUME NEW p \in Deciders, Commit(p) PROVE Asking'
  <2>1. info' = info
    BY <1>3, RowsKept DEF Asking
  <2>2. AllHaveADecider'
    BY <2>1 DEF Asking, AllHaveADecider, Real, Authorised
  <2>3. SomebodyIsAsked'
    <3>1. CASE CommitWaiting(p)
      <4>1. InFlight(p) /\ tx[p].pc = "waiting"
        BY <3>1 DEF CommitWaiting, InFlight
      <4>2. inst \notin Outcomes
        BY <4>1, InFlightHolds DEF Asking, Passing, EveryStep
      <4> QED BY <4>1, <4>2 DEF Asking, Passing, Passes
    <3>2. CASE CommitAdvance(p)
      <4>1. InFlight(p) /\ tx[p].pc = "opening" /\ tx[p].todo = {} /\ ~CommitClosed(p)
        BY <3>2 DEF CommitAdvance, CommitClosed, InFlight
      <4>2. inst \notin Outcomes
        BY <4>1, InFlightHolds DEF Asking, Passing, EveryStep
      <4>3. PICK w \in tx[p].opened : w \in Tasks
        BY <4>1, <4>2, TxTypes DEF Asking, Passing, Passes, OpeningOf, EveryStep, Unswept
      <4>4. status'[w] = "pending"
        BY <1>3, <4>1, <4>3, ApprovedRow DEF Asking, Passing
      <4> QED BY <4>3, <4>4 DEF SomebodyIsAsked
    <3>3. CASE CommitClosed(p) \/ CommitApproved(p)
      BY <3>3 DEF CommitClosed, CommitApproved, OutcomeOf, Outcomes, SomebodyIsAsked
    <3> QED BY <1>3, <3>1, <3>2, <3>3 DEF Commit
  <2> QED BY <1>1, <2>2, <2>3 DEF Asking
<1>4. ASSUME NEW p \in Deciders, Decide(p), ~Commit(p) PROVE UNCHANGED <<info, status, inst>>
  BY <1>4 DEF Decide, taskVars, Begin, LockStep, Refuse, Record, Skip, Advance, Open,
              ReserveRefused, DeadlockAbort, Rollback
<1>5. CASE (\E t \in Tasks : Elapse(t)) \/ UNCHANGED vars
  BY <1>2, <1>5 DEF Elapse, vars
<1> QED BY <1>2, <1>3, <1>4, <1>5 DEF Next

LEMMA AskingInit ==
  ASSUME OnlyAnyIsShared, EveryRowHasADecider, Init PROVE Asking
<1>1. Passing
  BY PassingInit
<1>2. PICK plan \in Plans :
        /\ info = [t \in Tasks |-> CreatedInfo(plan, t)]
        /\ status = [t \in Tasks |-> CreatedStatus(plan, t)]
  BY DEF Init
<1>3. DOMAIN plan \subseteq Tasks /\ \E i \in DOMAIN plan : plan[i].applicable
  BY PlansAssumption DEF Tasks
<1>4. SomebodyIsAsked
  <2>1. PICK i \in DOMAIN plan : plan[i].applicable /\ plan[i].order = FirstOrder(plan)
    <3> DEFINE Orders == {plan[i].order : i \in {j \in DOMAIN plan : plan[j].applicable}}
    <3>1. \E k \in Orders : \A i \in DOMAIN plan : plan[i].applicable => k <= plan[i].order
      <4>1. \A i \in DOMAIN plan : plan[i] \in PlanStep
        BY PlansAssumption
      <4>2. \A step \in PlanStep : step.order \in Nat
        BY DEF PlanStep, Tasks
      <4>3. Orders \in SUBSET Nat /\ Orders # {}
        BY <1>3, <4>1, <4>2
      <4>4. PICK k \in Orders : \A j \in Orders : k <= j
        BY <4>3, LeastExists
      <4>5. \A i \in DOMAIN plan : plan[i].applicable => plan[i].order \in Orders
        OBVIOUS
      <4> HIDE DEF Orders
      <4> QED BY <4>4, <4>5
    <3>2. FirstOrder(plan) \in Orders
      BY <3>1 DEF FirstOrder
    <3> QED BY <3>2
  <2>2. i \in Tasks /\ status[i] = "pending"
    BY <1>2, <1>3, <2>1 DEF CreatedStatus
  <2> QED BY <2>2 DEF SomebodyIsAsked
<1>5. AllHaveADecider
  <2> SUFFICES ASSUME NEW t \in Real PROVE Authorised(t)
    BY DEF AllHaveADecider
  <2>1. t \in Tasks /\ info[t] = CreatedInfo(plan, t)
    BY <1>2 DEF Real
  <2>2. t \in DOMAIN plan
    BY <2>1 DEF Real, CreatedInfo, Blank
  <2>3. plan[t].applicable /\ info[t].approver = plan[t].approver
    BY <2>1, <2>2 DEF Real, CreatedInfo
  <2> QED BY <2>2, <2>3 DEF EveryRowHasADecider, Authorised
<1> QED BY <1>1, <1>4, <1>5 DEF Asking

(* As long as no SLA run is active, and only parallel_any steps have       *)
(* several rows, an active instance always has a task that somebody can    *)
(* decide, if every row can be decided by somebody at all.                 *)
THEOREM NobodyIsStranded ==
  ASSUME Sweepers = {}, OnlyAnyIsShared, EveryRowHasADecider
  PROVE  Spec => []NothingStranded
<1>1. Init => Asking
  BY AskingInit
<1>2. Asking /\ [Next]_vars => Asking'
  BY AskingStep
<1>3. Asking => NothingStranded
  <2> SUFFICES ASSUME Asking, inst \in ActiveInstance PROVE \E t \in Tasks : Decidable(t)
    BY DEF NothingStranded
  <2>1. PICK t \in Tasks : status[t] = "pending"
    BY DEF Asking, SomebodyIsAsked, ActiveInstance, Outcomes
  <2>2. Authorised(t)
    BY <2>1 DEF Asking, AllHaveADecider, Passing, EveryStep, RowsOfOneStep, OpenStatus
  <2>3. Actionable(t)
    BY <2>1 DEF Actionable, Asking, Passing, EveryStep, Unswept, StepsInOrder, OpenStatus,
                TypeOK, Info
  <2> QED BY <2>1, <2>2, <2>3 DEF Decidable
<1> QED BY <1>1, <1>2, <1>3, PTL DEF Spec
================================================================================
