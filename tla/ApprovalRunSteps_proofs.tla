------------------------ MODULE ApprovalRunSteps_proofs ------------------------
(***************************************************************************)
(* While no SLA run is active, an approved request went through every step *)
(* of its workflow.  The argument follows one commit, the one that         *)
(* approves: every row it leaves behind was closed by a commit before it,  *)
(* and each of those closed only rows of its own step.                     *)
(***************************************************************************)
EXTENDS ApprovalRun_proofs

(* Rows whose step applies to the request, and what they have in common.   *)
Real == {t \in Tasks : info[t].applicable}
ForAll(t) == info[t].mode = "parallel_all"
ForAny(t) == info[t].mode = "parallel_any"
RowsOfOneStep ==
  /\ \A t \in Tasks : status[t] \in OpenStatus => t \in Real
  /\ \A t \in Real, u \in Tasks :
       info[u].order = info[t].order => info[u].mode = info[t].mode

(* The whole group of t has approved, `deciding' included.                 *)
Complete(t, deciding) ==
  \A u \in Group(t) : u = deciding \/ decision[u] = "approve"
CompleteNow(t) == \A u \in Group(t) : decision[u] = "approve"

(* A closed row was approved, or skipped in favour of one that was;        *)
ClosedForAReason ==
  /\ \A t \in Tasks : status[t] = "approved" => decision[t] = "approve"
  /\ \A t \in Real :
       /\ status[t] \in OpenStatus \cup {"approved", "skipped"}
       /\ status[t] = "skipped" =>
            ForAny(t) /\ \E u \in Group(t) : decision[u] = "approve"

(* the steps before one that has been opened are complete;                 *)
EarlierComplete ==
  \A t, u \in Real :
    ForAll(t) /\ info[t].order < info[u].order /\ status[u] # "queued"
      => CompleteNow(t)

(* no row of a step after a pending one is closed.                         *)
NoneClosedAhead ==
  \A t \in Tasks, u \in Real :
    status[t] = "pending" /\ status[u] \notin OpenStatus
      => info[u].order <= info[t].order

(* An approving transaction touches no open row outside its own step, save *)
(* those it opens, and goes on only once its step is complete: it opens a  *)
(* step when those before it are, and approves when all are.               *)
Approving == {"siblings", "waiting", "opening", "approving"}
Advancing == {"siblings", "opening", "approving"}
SkipsOf(r) == r.skipped \cup IF r.pc = "siblings" THEN r.todo ELSE {}
Justified(r) ==
  /\ r.pc \in {"locked", "waiting"} => r.skipped = {}
  /\ r.pc \in Approving =>
       /\ r.act = "approve"
       /\ \A u \in SkipsOf(r) : u \in Group(r.task) /\ ForAny(r.task) /\ status[u] # "queued"
  /\ r.pc \in Advancing /\ ForAll(r.task) =>
       \A u \in Group(r.task) : u = r.task \/ status[u] = "approved"
  /\ \A w \in OpeningOf(r), t \in Real :
       ForAll(t) /\ info[t].order < info[w].order => Complete(t, r.task)
  /\ r.pc = "approving" => \A t \in Real : ForAll(t) => Complete(t, r.task)
AllJustified == \A p \in Deciders : Justified(tx[p])

EveryStep ==
  /\ Unswept
  /\ RowsOfOneStep
  /\ inst \notin Outcomes =>
       ClosedForAReason /\ EarlierComplete /\ NoneClosedAhead /\ AllJustified
  /\ ApprovedByEveryStep

(* What the parts say of one row or one group, for use with primes.        *)
LEMMA SameStep ==
  ASSUME RowsOfOneStep, NEW t \in Real, NEW u \in Real, NEW v \in Tasks,
         v \in Group(t), v \in Group(u)
  PROVE  info[t].mode = info[u].mode
BY DEF RowsOfOneStep, Group

LEMMA TaskIsReal ==
  ASSUME EveryStep, NEW p \in Deciders, InFlight(p)
  PROVE  tx[p].task \in Real /\ tx[p].task \in Tasks /\ status[tx[p].task] = "pending"
BY InFlightHolds, TxTypes DEF EveryStep, RowsOfOneStep, OpenStatus, Unswept

(* A step inside one transaction keeps the invariant if its new record is  *)
(* justified by the rows as they are.                                      *)
LEMMA StepStaysJustified ==
  ASSUME EveryStep, NEW p \in Deciders, NEW r,
         tx' = [tx EXCEPT ![p] = r],
         UNCHANGED <<info, status, decision, inst, pr>>, Unswept',
         inst \notin Outcomes => Justified(r)
  PROVE  EveryStep'
<1>1. tx'[p] = r /\ \A q \in Deciders \ {p} : tx'[q] = tx[q]
  BY DEF EveryStep, Unswept, TypeOK
<1>2. RowsOfOneStep'
  BY DEF EveryStep, RowsOfOneStep, Real
<1>3. inst' \notin Outcomes => ClosedForAReason' /\ EarlierComplete' /\ NoneClosedAhead'
  BY DEF EveryStep, ClosedForAReason, EarlierComplete, NoneClosedAhead, Real, ForAll, ForAny,
         CompleteNow, Group
<1>4. ASSUME inst' \notin Outcomes, NEW q \in Deciders PROVE Justified(tx[q])'
  <2>1. Justified(tx'[q])
    BY <1>1, <1>4 DEF EveryStep, AllJustified
  <2> QED BY <2>1 DEF Justified, SkipsOf, Complete, Real, ForAll, ForAny, Group, OpeningOf
<1>5. ApprovedByEveryStep'
  BY DEF EveryStep, ApprovedByEveryStep, StepApproved, Planned, Rows, Group
<1> QED BY <1>2, <1>3, <1>4, <1>5 DEF EveryStep, AllJustified

(* A transaction that holds no lock has nothing to justify.                *)
LEMMA IdleIsJustified ==
  ASSUME NEW r, r.pc \in {"idle", "asked"}
  PROVE  Justified(r)
BY DEF Justified, Approving, Advancing, OpeningOf

LEMMA LockJustified ==
  ASSUME EveryStep, NEW p \in Deciders, LockStep(p), Unswept'
  PROVE  EveryStep'
<1> DEFINE r == [tx[p] EXCEPT !.pc = "locked", !.seenInst = inst, !.seenPr = pr]
<1>1. tx' = [tx EXCEPT ![p] = r] /\ UNCHANGED <<info, status, decision, inst, pr>>
  BY DEF LockStep, taskVars
<1>2. r.pc = "locked" /\ r.skipped = tx[p].skipped
  BY TxTypes DEF Tx, EveryStep, Unswept
<1>3. tx[p].skipped = {}
  BY DEF EveryStep, Unswept, DecidesPending, InFlight, LockStep
<1> HIDE DEF r
<1>4. Justified(r)
  BY <1>2, <1>3 DEF Justified, Approving, Advancing, OpeningOf
<1> QED BY <1>1, <1>4, StepStaysJustified

(* A refusal has nothing to justify; an approval waits for its group only  *)
(* in a parallel_all step, and lists pending rows of its own step only in  *)
(* a parallel_any one.                                                     *)
LEMMA RecordJustified ==
  ASSUME EveryStep, NEW p \in Deciders, Record(p), Unswept'
  PROVE  EveryStep'
<1>0. tx[p].pc = "locked" /\ InFlight(p) /\ tx[p].opened = {}
  BY OwnLocks DEF Record, InFlight, OpensNext, EveryStep
<1> DEFINE mode == info[tx[p].task].mode
           pc == IF tx[p].act # "approve" THEN "closing"
                 ELSE IF mode = "parallel_all" /\ ~GroupApproved(p) THEN "waiting"
                 ELSE "siblings"
           todo == IF tx[p].act # "approve" THEN CloseList(p)
                   ELSE IF mode = "parallel_any" THEN Siblings(p) ELSE {}
           r == [tx[p] EXCEPT !.pc = pc, !.todo = todo]
<1>1. tx' = [tx EXCEPT ![p] = r] /\ UNCHANGED <<info, status, decision, inst, pr>>
  BY DEF Record, taskVars
<1>2. /\ r.pc = pc /\ r.task = tx[p].task /\ r.skipped = tx[p].skipped
      /\ r.opened = tx[p].opened /\ r.todo = todo /\ r.act = tx[p].act
  BY TxTypes DEF Tx, EveryStep, Unswept
<1>3. inst \notin Outcomes /\ tx[p].task \in Tasks
  BY <1>0, InFlightHolds, TaskIsReal DEF EveryStep
<1>4. tx[p].skipped = {}
  BY <1>0, <1>3 DEF EveryStep, AllJustified, Justified
<1>5. pc \in {"closing", "waiting", "siblings"}
  OBVIOUS
<1>6. pc # "closing" => tx[p].act = "approve"
  OBVIOUS
<1>7. pc = "siblings" =>
        /\ \A u \in todo : u \in Group(tx[p].task) /\ ForAny(tx[p].task) /\ status[u] # "queued"
        /\ ForAll(tx[p].task) => GroupApproved(p)
  BY DEF ForAny, ForAll, Siblings
<1>8. GroupApproved(p) => \A u \in Group(tx[p].task) : u = tx[p].task \/ status[u] = "approved"
  BY <1>0, <1>4 DEF GroupApproved, Seen
<1> HIDE DEF pc, todo, r
<1>9. Justified(r)
  BY <1>2, <1>4, <1>5, <1>6, <1>7, <1>8 DEF Justified, Approving, Advancing, OpeningOf, SkipsOf
<1> QED BY <1>1, <1>9, StepStaysJustified

(* A row that is skipped was on the list.                                  *)
LEMMA SkipJustified ==
  ASSUME EveryStep, NEW p \in Deciders, Skip(p), Unswept'
  PROVE  EveryStep'
<1> DEFINE t == First(tx[p].todo)
           r == [tx[p] EXCEPT !.todo = tx[p].todo \ {t}, !.skipped = tx[p].skipped \cup {t}]
<1>0. InFlight(p) /\ tx[p].pc \in {"siblings", "closing"}
  BY DEF Skip, InFlight
<1>1. t \in tx[p].todo /\ t \in Tasks
  BY TxTypes, FirstIsMember, PlansAssumption DEF Skip, EveryStep, Unswept, TypeOK
<1>2. tx' = [tx EXCEPT ![p] = r] /\ UNCHANGED <<info, status, decision, inst, pr>>
  BY DEF Skip, taskVars
<1> HIDE DEF t
<1>3. /\ r.pc = tx[p].pc /\ r.task = tx[p].task /\ r.skipped = tx[p].skipped \cup {t}
      /\ r.todo = tx[p].todo \ {t} /\ r.act = tx[p].act
  BY TxTypes DEF Tx, EveryStep, Unswept
<1> HIDE DEF r
<1>4. inst \notin Outcomes => Justified(tx[p])
  BY DEF EveryStep, AllJustified
<1>5. tx[p].pc = "siblings" => SkipsOf(r) = SkipsOf(tx[p])
  BY <1>1, <1>3 DEF SkipsOf
<1>6. inst \notin Outcomes => Justified(r)
  BY <1>0, <1>3, <1>4, <1>5 DEF Justified, Approving, Advancing, OpeningOf
<1> QED BY <1>2, <1>6, StepStaysJustified

LEMMA OpenJustified ==
  ASSUME EveryStep, NEW p \in Deciders, Open(p), Unswept'
  PROVE  EveryStep'
<1> DEFINE t == First(tx[p].todo)
           r == [tx[p] EXCEPT !.todo = tx[p].todo \ {t}, !.opened = tx[p].opened \cup {t}]
<1>0. tx[p].pc = "opening"
  BY DEF Open
<1>1. t \in tx[p].todo /\ t \in Tasks
  BY TxTypes, FirstIsMember, PlansAssumption DEF Open, EveryStep, Unswept, TypeOK
<1>2. tx' = [tx EXCEPT ![p] = r] /\ UNCHANGED <<info, status, decision, inst, pr>>
  BY DEF Open, taskVars
<1> HIDE DEF t
<1>3. /\ r.pc = tx[p].pc /\ r.task = tx[p].task /\ r.skipped = tx[p].skipped
      /\ r.todo = tx[p].todo \ {t} /\ r.opened = tx[p].opened \cup {t} /\ r.act = tx[p].act
  BY TxTypes DEF Tx, EveryStep, Unswept
<1> HIDE DEF r
<1>4. inst \notin Outcomes => Justified(tx[p])
  BY DEF EveryStep, AllJustified
<1>5. SkipsOf(r) = SkipsOf(tx[p]) /\ OpeningOf(r) = OpeningOf(tx[p])
  BY <1>0, <1>1, <1>3 DEF SkipsOf, OpeningOf
<1>6. inst \notin Outcomes => Justified(r)
  BY <1>0, <1>3, <1>4, <1>5 DEF Justified, Approving, Advancing
<1> QED BY <1>2, <1>6, StepStaysJustified

(* When advance reads the rows again, a parallel_all row outside the open  *)
(* ones is of a complete group: of the step being decided, by the check    *)
(* before; of an earlier one, since this one was opened; and of a later    *)
(* one none is closed.                                                     *)
LEMMA ClosedGroupsAreComplete ==
  ASSUME EveryStep, NEW p \in Deciders, Advance(p),
         NEW t \in Real, ForAll(t), t \notin SeenOpen(p)
  PROVE  Complete(t, tx[p].task)
<1> DEFINE k == tx[p].task
<1>0. /\ InFlight(p) /\ tx[p].pc = "siblings" /\ tx[p].todo = {} /\ tx[p].opened = {}
      /\ inst \notin Outcomes /\ t \in Tasks
  BY OwnLocks, InFlightHolds DEF Advance, InFlight, OpensNext, EveryStep, Real
<1>1. k \in Real /\ k \in Tasks /\ status[k] = "pending"
  BY <1>0, TaskIsReal
<1>2. Justified(tx[p])
  BY <1>0 DEF EveryStep, AllJustified
<1>3. info[t].order \in Nat /\ info[k].order \in Nat
  BY <1>0, <1>1 DEF EveryStep, Unswept, TypeOK, Info
<1>4. CASE info[t].order = info[k].order
  <2>1. ForAll(k) /\ Group(k) = Group(t) /\ Group(t) \subseteq Tasks
    BY <1>0, <1>1, <1>4 DEF EveryStep, RowsOfOneStep, ForAll, Group
  <2>2. \A u \in Group(t) : u = k \/ status[u] = "approved"
    BY <1>0, <1>2, <2>1 DEF Justified, Advancing
  <2> QED BY <1>0, <2>1, <2>2 DEF EveryStep, ClosedForAReason, Complete
<1>5. CASE info[t].order < info[k].order
  BY <1>0, <1>1, <1>5 DEF EveryStep, EarlierComplete, CompleteNow, Complete
<1>6. CASE info[k].order < info[t].order
  <2>1. t # k /\ t \notin tx[p].skipped
    BY <1>0, <1>2, <1>3, <1>6 DEF Justified, SkipsOf, Approving, Group
  <2>2. status[t] \notin OpenStatus
    BY <1>0, <2>1 DEF SeenOpen, Seen
  <2> QED BY <1>0, <1>1, <1>3, <1>6, <2>2 DEF EveryStep, NoneClosedAhead
<1> QED BY <1>3, <1>4, <1>5, <1>6

LEMMA AdvanceJustified ==
  ASSUME EveryStep, NEW p \in Deciders, Advance(p), Unswept'
  PROVE  EveryStep'
<1>0. /\ InFlight(p) /\ tx[p].opened = {} /\ tx[p].pc = "siblings" /\ tx[p].todo = {}
      /\ inst \notin Outcomes
  BY OwnLocks, InFlightHolds DEF Advance, InFlight, OpensNext, EveryStep
<1>1. UNCHANGED <<info, status, decision, inst, pr>>
  BY DEF Advance, taskVars
<1>2. Justified(tx[p])
  BY <1>0 DEF EveryStep, AllJustified
<1>3. CASE SeenOpen(p) = {}
  <2> DEFINE r == [tx[p] EXCEPT !.pc = "approving"]
  <2>1. tx' = [tx EXCEPT ![p] = r]
    BY <1>3, TxTypes DEF Tx, Phase, EveryStep, Unswept, Advance
  <2>2. /\ r.pc = "approving" /\ r.task = tx[p].task /\ r.skipped = tx[p].skipped
        /\ r.act = tx[p].act
    BY TxTypes DEF Tx, EveryStep, Unswept
  <2> HIDE DEF r
  <2>3. \A t \in Real : ForAll(t) => Complete(t, r.task)
    BY <1>3, <2>2, ClosedGroupsAreComplete
  <2>4. Justified(r)
    BY <1>0, <1>2, <2>2, <2>3 DEF Justified, Approving, Advancing, SkipsOf, OpeningOf
  <2> QED BY <1>1, <2>1, <2>4, StepStaysJustified
<1>4. CASE SeenOpen(p) # {}
  <2> DEFINE n == NextTask(p)
             r == [tx[p] EXCEPT !.pc = "opening", !.next = n, !.todo = OpenList(p)]
  <2>1. SeenOpen(p) \in SUBSET Tasks
    BY DEF SeenOpen
  <2>2. n \in Tasks /\ \A u \in SeenOpen(p) : info[n].order <= info[u].order
    BY <1>4, <2>1, FirstIsMember, PlansAssumption DEF NextTask, EveryStep, Unswept, TypeOK
  <2>3. tx' = [tx EXCEPT ![p] = r]
    BY <1>4 DEF Advance
  <2>4. \A w \in OpenList(p) : w \in Tasks /\ info[w].order = info[n].order
    BY DEF OpenList, Group
  <2>5. /\ r.pc = "opening" /\ r.task = tx[p].task /\ r.skipped = tx[p].skipped
        /\ r.opened = {} /\ r.todo = OpenList(p) /\ r.act = tx[p].act
    BY <1>0, TxTypes DEF Tx, EveryStep, Unswept
  <2>6. \A t \in Tasks : info[t].order \in Nat
    BY DEF EveryStep, Unswept, TypeOK, Info
  <2> HIDE DEF n, r
  <2>7. OpeningOf(r) = OpenList(p)
    BY <2>5 DEF OpeningOf
  <2>8. ASSUME NEW w \in OpenList(p), NEW t \in Real, ForAll(t), info[t].order < info[w].order
        PROVE  Complete(t, r.task)
    <3>1. t \in Tasks /\ t \notin SeenOpen(p)
      BY <2>1, <2>2, <2>4, <2>6, <2>8 DEF Real
    <3> QED BY <2>5, <2>8, <3>1, ClosedGroupsAreComplete
  <2>9. Justified(r)
    BY <1>0, <1>2, <2>5, <2>7, <2>8 DEF Justified, Approving, Advancing, SkipsOf
  <2> QED BY <1>1, <2>3, <2>9, StepStaysJustified
<1> QED BY <1>3, <1>4

(* What the commit of an approval makes of a row.                          *)
LEMMA ApprovedRow ==
  ASSUME EveryStep, NEW p \in Deciders, Commit(p), ~CommitClosed(p), NEW t \in Tasks
  PROVE  /\ info' = info
         /\ decision[t] = "approve" \/ t = tx[p].task => decision'[t] = "approve"
         /\ t = tx[p].task => status'[t] = "approved"
         /\ t \in tx[p].opened => tx[p].pc = "opening" /\ status[t] = "queued" /\ status'[t] = "pending"
         /\ t \in tx[p].skipped =>
              t \in Group(tx[p].task) /\ ForAny(tx[p].task) /\ status[t] # "queued"
         /\ t \in tx[p].skipped /\ t # tx[p].task => status'[t] = "skipped"
         /\ t \notin {tx[p].task} \cup tx[p].skipped \cup tx[p].opened => status'[t] = status[t]
<1>1. /\ InFlight(p) /\ CommitRows(p) /\ tx[p].pc \in {"waiting", "opening", "approving"}
  BY DEF Commit, CommitWaiting, CommitAdvance, CommitApproved, InFlight
<1>2. inst \notin Outcomes /\ tx[p].task \in Tasks /\ status[tx[p].task] = "pending"
  BY <1>1, InFlightHolds, TaskIsReal DEF EveryStep
<1>3. Justified(tx[p]) /\ OpensNext(tx[p])
  BY <1>2, OwnLocks DEF EveryStep, AllJustified
<1>4. /\ tx[p].act = "approve"
      /\ t \in tx[p].skipped =>
           t \in Group(tx[p].task) /\ ForAny(tx[p].task) /\ status[t] # "queued"
  BY <1>1, <1>3 DEF Justified, Approving, SkipsOf
<1>5. t \in tx[p].opened => tx[p].pc = "opening" /\ status[t] = "queued"
  BY <1>3 DEF OpensNext, OpeningOf
<1>6. status'[t] = Seen(p, t) /\ info' = info
  BY <1>1 DEF CommitRows
<1>7. decision[t] = "approve" \/ t = tx[p].task => decision'[t] = "approve"
  BY <1>1, <1>2, <1>4 DEF CommitRows, EveryStep, Unswept, TypeOK
<1> QED BY <1>2, <1>4, <1>5, <1>6, <1>7 DEF Seen, StatusAfter

(* The commit of an approval that is not the last.                         *)
LEMMA ProceedJustified ==
  ASSUME EveryStep, NEW p \in Deciders, CommitWaiting(p) \/ CommitAdvance(p), Unswept'
  PROVE  EveryStep'
<1> DEFINE k == tx[p].task
<1>0. /\ InFlight(p) /\ CommitRows(p) /\ tx[p].pc \in {"waiting", "opening"}
      /\ Commit(p) /\ ~CommitClosed(p)
  BY DEF CommitWaiting, CommitAdvance, CommitClosed, Commit, InFlight
<1>1. k \in Real /\ k \in Tasks /\ status[k] = "pending" /\ inst \notin Outcomes
  BY <1>0, TaskIsReal, InFlightHolds DEF EveryStep
<1>2. Justified(tx[p]) /\ OpensNext(tx[p])
  BY <1>1, OwnLocks DEF EveryStep, AllJustified
<1>3. tx'[p] = IdleTx /\ \A q \in Deciders \ {p} : tx'[q] = tx[q]
  BY <1>0 DEF EveryStep, Unswept, TypeOK, CommitRows
<1>4. info' = info /\ Real' = Real
  BY <1>0 DEF CommitRows, Real
<1>5. \A t \in Tasks : Group(t)' = Group(t) /\ (ForAll(t)' <=> ForAll(t)) /\ (ForAny(t)' <=> ForAny(t))
  BY <1>4 DEF Group, ForAll, ForAny
<1>6. \A t \in Tasks : info[t].order \in Nat
  BY DEF EveryStep, Unswept, TypeOK, Info
<1>7. /\ Real \subseteq Tasks
      /\ \A t \in Tasks : Group(t) \subseteq Tasks /\ t \in Group(t)
      /\ \A t, u \in Tasks : u \in Group(t) <=> info[u].order = info[t].order
  BY DEF Real, Group
<1>8. RowsOfOneStep'
  BY <1>0, <1>4, CommittedRow DEF EveryStep, RowsOfOneStep
<1>9. ClosedForAReason'
  <2>1. ASSUME NEW t \in Tasks, status'[t] = "approved" PROVE decision'[t] = "approve"
    BY <2>1, <1>0, <1>1, ApprovedRow DEF EveryStep, ClosedForAReason
  <2>2. ASSUME NEW t \in Real
        PROVE  /\ status'[t] \in OpenStatus \cup {"approved", "skipped"}
               /\ status'[t] = "skipped" =>
                    ForAny(t) /\ \E u \in Group(t) : decision'[u] = "approve"
    <3>1. CASE t = k \/ t \in tx[p].opened
      BY <3>1, <1>0, <1>7, ApprovedRow DEF OpenStatus
    <3>2. CASE t \in tx[p].skipped /\ t # k
      <4>1. status'[t] = "skipped" /\ t \in Group(k) /\ ForAny(k)
        BY <3>2, <1>0, <1>7, ApprovedRow
      <4>2. ForAny(t) /\ k \in Group(t)
        BY <4>1, <1>1, <1>7, SameStep DEF EveryStep, ForAny
      <4> QED BY <4>1, <4>2, <1>0, <1>1, ApprovedRow
    <3>3. CASE t \notin {k} \cup tx[p].skipped \cup tx[p].opened
      <4>1. status'[t] = status[t]
        BY <3>3, <1>0, <1>7, ApprovedRow
      <4>2. /\ status[t] \in OpenStatus \cup {"approved", "skipped"}
            /\ status[t] = "skipped" =>
                 ForAny(t) /\ \E u \in Group(t) : decision[u] = "approve"
        BY <1>1 DEF EveryStep, ClosedForAReason
      <4> QED BY <4>1, <4>2, <1>0, <1>7, ApprovedRow
    <3> QED BY <3>1, <3>2, <3>3
  <2> QED BY <2>1, <2>2, <1>4, <1>5, <1>7 DEF ClosedForAReason
<1>10. EarlierComplete'
  <2> SUFFICES ASSUME NEW t \in Real, NEW u \in Real,
                      ForAll(t), info[t].order < info[u].order, status'[u] # "queued"
               PROVE  \A v \in Group(t) : decision'[v] = "approve"
    BY <1>4, <1>5, <1>7 DEF EarlierComplete, CompleteNow
  <2>1. CASE status[u] # "queued"
    <3>1. CompleteNow(t)
      BY <2>1, <1>1 DEF EveryStep, EarlierComplete
    <3> QED BY <3>1, <1>0, <1>7, ApprovedRow DEF CompleteNow
  <2>2. CASE status[u] = "queued"
    <3>1. u \in tx[p].opened /\ tx[p].pc = "opening"
      BY <2>2, <1>0, <1>1, <1>7, ApprovedRow
    <3>2. Complete(t, k)
      BY <3>1, <1>2 DEF Justified, OpeningOf
    <3> QED BY <3>2, <1>0, <1>7, ApprovedRow DEF Complete
  <2> QED BY <2>1, <2>2
<1>11. NoneClosedAhead'
  <2> SUFFICES ASSUME NEW t \in Tasks, NEW u \in Real,
                      status'[t] = "pending", status'[u] \notin OpenStatus
               PROVE  info[u].order <= info[t].order
    BY <1>4 DEF NoneClosedAhead
  <2>1. info[k].order <= info[t].order
    <3>1. status[t] = "pending" \/ status[t] = "queued"
      BY <1>0, <1>1, ApprovedRow
    <3> QED BY <3>1, <1>1, <1>6 DEF EveryStep, Unswept, StepsInOrder
  <2>2. info[u].order <= info[k].order
    <3>1. CASE u \in {k} \cup tx[p].skipped
      BY <3>1, <1>0, <1>1, <1>6, <1>7, ApprovedRow
    <3>2. CASE u \notin {k} \cup tx[p].skipped
      <4>1. status[u] \notin OpenStatus
        BY <3>2, <1>0, <1>7, ApprovedRow DEF OpenStatus
      <4> QED BY <4>1, <1>1 DEF EveryStep, NoneClosedAhead
    <3> QED BY <3>1, <3>2
  <2> QED BY <2>1, <2>2, <1>1, <1>6, <1>7
<1>12. ASSUME NEW q \in Deciders PROVE Justified(tx[q])'
  <2>1. CASE q = p
    BY <2>1, <1>3 DEF Justified, Approving, Advancing, OpeningOf, IdleTx
  <2>2. CASE q # p /\ ~InFlight(q)
    BY <2>2, <1>3 DEF Justified, Approving, Advancing, OpeningOf, InFlight
  <2>3. CASE q # p /\ InFlight(q)
    <3> DEFINE r == tx[q]
    <3>1. Justified(r) /\ r.task \in Real /\ r.task \in Tasks /\ tx'[q] = r
      BY <2>3, <1>1, <1>3, TaskIsReal DEF EveryStep, AllJustified
    <3>2. OpeningOf(r) = {}
      BY <2>3, <1>0, OpensAlone DEF EveryStep
    <3>3. \A u \in Tasks : status'[u] = "queued" => status[u] = "queued"
      BY <1>0, CommittedRow DEF EveryStep
    <3>4. ASSUME ForAll(r.task), NEW u \in Group(r.task), status[u] = "approved"
          PROVE  status'[u] = "approved"
      <4>1. CASE u \in tx[p].skipped
        <5>1. u \in Group(k) /\ ForAny(k) /\ u \in Tasks
          BY <4>1, <1>0, <1>7, <3>1, ApprovedRow
        <5> QED BY <5>1, <3>1, <3>4, <1>1, SameStep DEF EveryStep, ForAny, ForAll
      <4>2. CASE u \notin tx[p].skipped
        BY <4>2, <3>1, <3>4, <1>0, <1>7, ApprovedRow
      <4> QED BY <4>1, <4>2
    <3>5. \A t \in Real : Complete(t, r.task) => Complete(t, r.task)'
      BY <3>1, <1>0, <1>5, <1>7, ApprovedRow DEF Complete
    <3>6. \A u \in SkipsOf(r) : u \in Group(r.task) => u \in Tasks
      BY <3>1, <1>7
    <3> HIDE DEF k
    <3> QED BY <3>1, <3>2, <3>3, <3>4, <3>5, <3>6, <1>4, <1>5, <1>7
            DEF Justified, SkipsOf, OpeningOf
  <2> QED BY <2>1, <2>2, <2>3
<1>13. ApprovedByEveryStep'
  <2>1. pr'.at = "staged"
    BY <1>0, <1>1, ActiveRequest DEF EveryStep, CommitWaiting, CommitAdvance, Staged
  <2> QED BY <2>1 DEF ApprovedByEveryStep
<1> QED BY <1>8, <1>9, <1>10, <1>11, <1>12, <1>13 DEF EveryStep, AllJustified

(* The commit that ends the instance: a refusal approves nothing, and the  *)
(* last approval leaves no row open that it does not hold.                 *)
LEMMA EndJustified ==
  ASSUME EveryStep, NEW p \in Deciders, CommitClosed(p) \/ CommitApproved(p), Unswept'
  PROVE  EveryStep'
<1> DEFINE k == tx[p].task
<1>1. InFlight(p) /\ CommitRows(p) /\ inst' \in Outcomes
  BY DEF CommitClosed, CommitApproved, InFlight, OutcomeOf, Outcomes
<1>2. RowsOfOneStep'
  <2>1. info' = info /\ \A t \in Tasks : status'[t] \in OpenStatus => status[t] \in OpenStatus
    BY <1>1, CommittedRow DEF EveryStep, CommitRows
  <2> QED BY <2>1 DEF EveryStep, RowsOfOneStep, Real
<1>3. CASE CommitClosed(p)
  <2>1. pr'.at # "approved"
    BY <1>3 DEF CommitClosed, Ended, OutcomeOf
  <2> QED BY <1>1, <1>2, <2>1 DEF EveryStep, ApprovedByEveryStep
<1>4. CASE CommitApproved(p)
  <2>1. Commit(p) /\ ~CommitClosed(p) /\ tx[p].pc = "approving"
    BY <1>4 DEF Commit, CommitClosed, CommitApproved
  <2>2. k \in Real /\ k \in Tasks /\ inst \notin Outcomes
    BY <1>1, TaskIsReal, InFlightHolds DEF EveryStep
  <2>3. Justified(tx[p])
    BY <2>2 DEF EveryStep, AllJustified
  <2>4. /\ Real \subseteq Tasks
        /\ \A t \in Tasks : Group(t) \subseteq Tasks /\ t \in Group(t)
        /\ \A t, u \in Tasks : u \in Group(t) <=> info[u].order = info[t].order
    BY DEF Real, Group
  <2>5. ASSUME NEW t \in Real
        PROVE  IF ForAll(t) THEN \A u \in Group(t) : decision'[u] = "approve"
               ELSE \E u \in Group(t) : decision'[u] = "approve"
    <3>1. CASE ForAll(t)
      BY <3>1, <2>1, <2>3, <2>4, ApprovedRow DEF Justified, Complete
    <3>2. CASE t \in {k} \cup tx[p].skipped
      BY <3>1, <3>2, <2>1, <2>2, <2>4, ApprovedRow
    <3>3. CASE ~ForAll(t) /\ t \notin {k} \cup tx[p].skipped
      <4>1. status[t] \notin OpenStatus
        BY <3>3, <2>1, <2>4 DEF EveryStep, Unswept, ApprovesTheLast
      <4>2. \E u \in Group(t) : decision[u] = "approve"
        BY <4>1, <2>2, <2>4 DEF EveryStep, ClosedForAReason
      <4> QED BY <4>2, <3>3, <2>1, <2>4, ApprovedRow
    <3> QED BY <3>1, <3>2, <3>3
  <2>6. ASSUME NEW t \in Tasks, info'[t].applicable PROVE StepApproved(t)'
    <3>1. info' = info /\ t \in Real
      BY <2>1, <2>6, ApprovedRow DEF Real
    <3>2. Group(t)' = Group(t)
      BY <3>1 DEF Group
    <3> QED BY <2>5, <3>1, <3>2 DEF StepApproved, ForAll
  <2>7. ApprovedByEveryStep'
    BY <2>6 DEF ApprovedByEveryStep, Planned, Rows
  <2> QED BY <1>1, <1>2, <2>7 DEF EveryStep
<1> QED BY <1>3, <1>4

LEMMA DecideJustified ==
  ASSUME EveryStep, NEW p \in Deciders, Decide(p), Unswept'
  PROVE  EveryStep'
<1>1. CASE \E t \in Tasks, act \in Acts : Begin(p, t, act)
  <2>1. PICK t \in Tasks, act \in Acts : Begin(p, t, act)
    BY <1>1
  <2> DEFINE r == [IdleTx EXCEPT !.pc = "asked", !.task = t, !.act = act]
  <2>2. tx' = [tx EXCEPT ![p] = r] /\ UNCHANGED <<info, status, decision, inst, pr>>
    BY <2>1 DEF Begin, taskVars
  <2>3. r.pc = "asked"
    BY DEF IdleTx
  <2> HIDE DEF r
  <2>4. Justified(r)
    BY <2>3, IdleIsJustified
  <2> QED BY <2>2, <2>4, StepStaysJustified
<1>2. CASE LockStep(p)
  BY <1>2, LockJustified
<1>3. CASE Record(p)
  BY <1>3, RecordJustified
<1>4. CASE Skip(p)
  BY <1>4, SkipJustified
<1>5. CASE Advance(p)
  BY <1>5, AdvanceJustified
<1>6. CASE Open(p)
  BY <1>6, OpenJustified
<1>7. CASE Commit(p)
  BY <1>7, ProceedJustified, EndJustified DEF Commit
<1>8. CASE Refuse(p) \/ ReserveRefused(p) \/ DeadlockAbort(p)
  <2>1. tx' = [tx EXCEPT ![p] = IdleTx] /\ UNCHANGED <<info, status, decision, inst, pr>>
    BY <1>8 DEF Refuse, ReserveRefused, DeadlockAbort, Rollback, taskVars
  <2>2. Justified(IdleTx)
    <3>1. IdleTx.pc = "idle"
      BY DEF IdleTx
    <3> QED BY <3>1, IdleIsJustified
  <2> QED BY <2>1, <2>2, StepStaysJustified
<1> QED BY <1>1, <1>2, <1>3, <1>4, <1>5, <1>6, <1>7, <1>8 DEF Decide

LEMMA EveryStepKept ==
  ASSUME Sweepers = {}, EveryStep, [Next]_vars
  PROVE  EveryStep'
<1>1. Unswept'
  BY UnsweptKept DEF EveryStep
<1>2. CASE \E p \in Deciders : Decide(p)
  BY <1>1, <1>2, DecideJustified
<1>3. CASE (\E t \in Tasks : Elapse(t)) \/ UNCHANGED vars
  <2>1. UNCHANGED <<info, status, decision, inst, pr, tx>>
    BY <1>3 DEF Elapse, vars
  <2>2. RowsOfOneStep' /\ ApprovedByEveryStep'
    BY <2>1 DEF EveryStep, RowsOfOneStep, Real, ApprovedByEveryStep, StepApproved, Planned,
                Rows, Group
  <2>3. inst' \notin Outcomes => ClosedForAReason' /\ EarlierComplete' /\ NoneClosedAhead'
    BY <2>1 DEF EveryStep, ClosedForAReason, EarlierComplete, NoneClosedAhead, Real, ForAll,
                ForAny, CompleteNow, Group
  <2>4. inst' \notin Outcomes => AllJustified'
    BY <2>1 DEF EveryStep, AllJustified, Justified, SkipsOf, Complete, Real, ForAll, ForAny,
                Group, OpeningOf
  <2> QED BY <1>1, <2>2, <2>3, <2>4 DEF EveryStep
<1> QED BY <1>2, <1>3 DEF Next

(* The creator leaves every applicable row open, those of the first order  *)
(* pending.                                                                *)
LEMMA InitEveryStep == ASSUME OneModePerStep, Init PROVE EveryStep
<1>1. Unswept
  BY InitUnswept
<1>2. PICK plan \in Plans :
        /\ info = [t \in Tasks |-> CreatedInfo(plan, t)]
        /\ status = [t \in Tasks |-> CreatedStatus(plan, t)]
  BY DEF Init
<1>3. \A i \in DOMAIN plan : plan[i].order \in Nat /\ plan[i].order # 0
  <2>1. \A i \in DOMAIN plan : plan[i] \in PlanStep
    BY PlansAssumption
  <2>2. \A step \in PlanStep : step.order \in Nat /\ step.order # 0
    BY DEF PlanStep, Tasks
  <2> QED BY <2>1, <2>2
<1>4. ASSUME NEW t \in Real
      PROVE  /\ t \in Tasks /\ t \in DOMAIN plan /\ plan[t].applicable
             /\ info[t].order = plan[t].order /\ info[t].mode = plan[t].mode
             /\ status[t] \in OpenStatus
             /\ status[t] # "queued" => info[t].order = FirstOrder(plan)
  <2>1. t \in Tasks /\ info[t] = CreatedInfo(plan, t) /\ status[t] = CreatedStatus(plan, t)
    BY <1>2 DEF Real
  <2>2. t \in DOMAIN plan
    BY <2>1 DEF Real, CreatedInfo, Blank
  <2>3. /\ info[t].order = plan[t].order /\ info[t].mode = plan[t].mode
        /\ plan[t].applicable
    BY <2>1, <2>2 DEF CreatedInfo, Real
  <2> QED BY <2>1, <2>2, <2>3 DEF CreatedStatus, OpenStatus
<1>5. RowsOfOneStep
  <2>1. ASSUME NEW t \in Tasks, status[t] \in OpenStatus PROVE t \in Real
    <3>1. status[t] = CreatedStatus(plan, t) /\ info[t] = CreatedInfo(plan, t)
      BY <1>2
    <3>2. t \in DOMAIN plan /\ plan[t].applicable
      BY <2>1, <3>1 DEF CreatedStatus, OpenStatus
    <3> QED BY <3>1, <3>2 DEF CreatedInfo, Real
  <2>2. ASSUME NEW t \in Real, NEW u \in Tasks, info[u].order = info[t].order
        PROVE  info[u].mode = info[t].mode
    <3>1. info[u] = CreatedInfo(plan, u)
      BY <1>2
    <3>2. u \in DOMAIN plan
      BY <1>3, <1>4, <2>2, <3>1 DEF CreatedInfo, Blank
    <3>3. info[u].order = plan[u].order /\ info[u].mode = plan[u].mode
      BY <3>1, <3>2 DEF CreatedInfo
    <3>4. /\ t \in DOMAIN plan /\ info[t].order = plan[t].order
          /\ info[t].mode = plan[t].mode
      BY <1>4
    <3>5. plan[u].order = plan[t].order
      BY <2>2, <3>3, <3>4
    <3>6. plan[u].mode = plan[t].mode
      BY <3>2, <3>4, <3>5 DEF OneModePerStep
    <3> QED BY <3>3, <3>4, <3>6
  <2> QED BY <2>1, <2>2 DEF RowsOfOneStep
<1>6. ClosedForAReason
  <2>1. \A t \in Tasks : status[t] # "approved"
    BY <1>2 DEF CreatedStatus
  <2> QED BY <1>4, <2>1 DEF ClosedForAReason, OpenStatus
<1>7. EarlierComplete
  <2> SUFFICES ASSUME NEW t \in Real, NEW u \in Real,
                      info[t].order < info[u].order, status[u] # "queued"
               PROVE  FALSE
    BY DEF EarlierComplete
  <2>1. FirstOrder(plan) \in Nat /\ FirstOrder(plan) <= plan[t].order
    BY <1>4, FirstOrderIsNat
  <2> QED BY <1>3, <1>4, <2>1
<1>8. NoneClosedAhead
  BY <1>4 DEF NoneClosedAhead
<1>9. AllJustified
  BY IdleIsJustified DEF Init, IdleTx, AllJustified
<1>10. ApprovedByEveryStep
  BY DEF Init, Staged, ApprovedByEveryStep
<1> QED BY <1>1, <1>5, <1>6, <1>7, <1>8, <1>9, <1>10 DEF EveryStep

(* As long as no SLA run is active, an approved request has passed every   *)
(* step that applies to it: one approval of each, and in a parallel_all    *)
(* step one of every approver, whatever approvers do at the same time.     *)
THEOREM EveryStepWithoutSla ==
  ASSUME Sweepers = {}, OneModePerStep PROVE Spec => []ApprovedByEveryStep
<1>1. EveryStep => ApprovedByEveryStep
  BY DEF EveryStep
<1>2. Init => EveryStep
  BY InitEveryStep
<1>3. EveryStep /\ [Next]_vars => EveryStep'
  BY EveryStepKept
<1> QED BY <1>1, <1>2, <1>3, PTL DEF Spec
================================================================================
