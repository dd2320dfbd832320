-------------------------- MODULE ApprovalRunSla_proofs --------------------------
(***************************************************************************)
(* What holds of ApprovalRun while SLA runs expire and replace tasks       *)
(* between the statements of the decisions.                                *)
(***************************************************************************)
EXTENDS ApprovalRun_proofs, FiniteSetTheorems

(***************************************************************************)
(* Decisions beside SLA runs.  A row is begun once it has been pending.    *)
(***************************************************************************)
BegunOnes == \A t \in Tasks : status[t] \in OpenStatus => info[t].applicable

(* A row that is open, or not there yet, has no decision.                  *)
Undecided ==
  \A t \in Tasks : status[t] \in OpenStatus \cup {"absent"} => decision[t] = "none"

(* What an SLA run has listed, and what it escalates, is begun.            *)
ListsBegun ==
  \A s \in Sweepers :
    /\ \A t \in sweep[s].todo : Begun(t)
    /\ sweep[s].pc = "escalating" => Begun(sweep[s].at)

(* A transaction skips rows that are begun, unless it closes them all;     *)
(* what it opens is queued, and is the whole of the next step.             *)
Sound(r) ==
  /\ r.pc # "opening" => r.opened = {}
  /\ r.pc # "closing" => \A t \in r.skipped : Begun(t)
  /\ r.pc = "siblings" => \A t \in r.todo : Begun(t)
  /\ r.pc = "closing" => \A t \in Tasks : status[t] = "queued" => t \in r.todo \cup r.skipped
  /\ r.pc = "closing" => \A t \in r.todo \cup r.skipped : status[t] # "absent"
  /\ \A t \in OpeningOf(r) :
       /\ status[t] = "queued"
       /\ \A u \in OpeningOf(r) : info[u].order = info[t].order
       /\ \A u \in Tasks \ OpeningOf(r) :
            status[u] = "queued" => info[t].order < info[u].order

(* While it opens rows nobody else does, and nobody gets as far as closing *)
(* them: its own row is pending, and locked.                               *)
Yields(r, opener) ==
  r.pc \notin {"idle", "asked"} =>
    /\ OpeningOf(r) = {}
    /\ r.pc = "closing" => opener.task \in r.todo
OpenerUndisturbed ==
  \A p, q \in Deciders : p # q /\ OpeningOf(tx[p]) # {} => Yields(tx[q], tx[p])

Swept ==
  /\ TypeOK
  /\ LocksDisjoint
  /\ DecidesPending
  /\ BegunOnes
  /\ NothingIsOvertaken
  /\ Undecided
  /\ ListsBegun
  /\ \A p \in Deciders : Sound(tx[p])
  /\ OpenerUndisturbed

(***************************************************************************)
(* A decision between two SLA runs.                                        *)
(***************************************************************************)
LEMMA TakesPending ==
  ASSUME Swept, NEW p \in Deciders, InFlight(p)
  PROVE  /\ status[tx[p].task] = "pending" /\ tx[p].task \in Tasks /\ Begun(tx[p].task)
         /\ Held(p) = {tx[p].task} \cup tx[p].skipped \cup tx[p].opened
         /\ \A q \in Deciders \ {p} : tx[p].task \notin Held(q)
<1>1. status[tx[p].task] = "pending" /\ tx[p].task \in Tasks
  BY TxTypes DEF Swept, DecidesPending
<1>2. Begun(tx[p].task)
  BY <1>1 DEF Swept, BegunOnes, Begun, OpenStatus
<1>3. Held(p) = {tx[p].task} \cup tx[p].skipped \cup tx[p].opened
  BY DEF Held, InFlight
<1> QED BY <1>1, <1>2, <1>3 DEF Swept, LocksDisjoint

(* Between commits the rows do not change; the record of one transaction   *)
(* does.                                                                   *)
LEMMA SweptStep ==
  ASSUME Swept, NEW p \in Deciders, NEW r \in Tx, TypeOK',
         tx' = [tx EXCEPT ![p] = r],
         UNCHANGED <<info, status, decision, sweep>>,
         \A q \in Deciders \ {p} : LocksOf(r) \cap Held(q) = {},
         IF r.pc \in {"idle", "asked"} THEN r.skipped = {}
         ELSE status[r.task] = "pending",
         Sound(r),
         \A q \in Deciders \ {p} :
           /\ OpeningOf(r) # {} => Yields(tx[q], r)
           /\ OpeningOf(tx[q]) # {} => Yields(r, tx[q])
  PROVE  Swept'
<1>1. tx'[p] = r /\ \A q \in Deciders \ {p} : tx'[q] = tx[q]
  BY DEF Swept, TypeOK
<1>2. Held(p)' = LocksOf(r)
  BY <1>1 DEF Held, LocksOf
<1>3. ASSUME NEW q \in Deciders \ {p} PROVE Held(q)' = Held(q)
  BY <1>1 DEF Held
<1>4. LocksDisjoint'
  BY <1>2, <1>3 DEF Swept, LocksDisjoint
<1>5. DecidesPending'
  BY <1>1 DEF Swept, DecidesPending, InFlight
<1>6. /\ \A t \in Tasks : Begun(t)' = Begun(t)
      /\ \A q \in Deciders : OpeningOf(tx[q])' = OpeningOf(tx'[q])
  BY DEF Begun, OpeningOf
<1>7. ASSUME NEW q \in Deciders PROVE Sound(tx[q])'
  <2>1. Sound(tx'[q])
    BY <1>1 DEF Swept
  <2>2. tx'[q] \in Tx
    BY DEF TypeOK
  <2>3. OpeningOf(tx'[q]) \subseteq Tasks /\ tx'[q].todo \subseteq Tasks
        /\ tx'[q].skipped \subseteq Tasks
    BY <2>2 DEF OpeningOf, Tx
  <2> QED BY <2>1, <2>3, <1>6 DEF Sound
<1>8. OpenerUndisturbed'
  <2> SUFFICES ASSUME NEW q \in Deciders, NEW o \in Deciders, o # q, OpeningOf(tx'[o]) # {}
               PROVE  Yields(tx'[q], tx'[o])
    BY DEF OpenerUndisturbed, Yields, OpeningOf
  <2> QED BY <1>1 DEF Swept, OpenerUndisturbed
<1>9. BegunOnes' /\ NothingIsOvertaken' /\ Undecided' /\ ListsBegun'
  BY DEF Swept, BegunOnes, NothingIsOvertaken, Begun, Undecided, ListsBegun
<1> QED BY <1>4, <1>5, <1>7, <1>8, <1>9 DEF Swept

(* The same for one that has locked its row and opens nothing.             *)
LEMMA SweptUnder ==
  ASSUME Swept, NEW p \in Deciders, InFlight(p), NEW r \in Tx, TypeOK',
         tx' = [tx EXCEPT ![p] = r],
         UNCHANGED <<info, status, decision, sweep>>,
         r.pc \notin {"idle", "asked"}, r.task = tx[p].task, OpeningOf(r) = {},
         NEW L, LocksOf(r) = Held(p) \cup L,
         \A q \in Deciders \ {p} : L \cap Held(q) = {},
         Sound(r),
         r.pc = "closing" =>
           \A q \in Deciders \ {p} : OpeningOf(tx[q]) # {} => tx[q].task \in r.todo
  PROVE  Swept'
<1>1. status[r.task] = "pending"
  BY TakesPending
<1>2. \A q \in Deciders \ {p} : LocksOf(r) \cap Held(q) = {}
  BY DEF Swept, LocksDisjoint
<1>3. \A q \in Deciders \ {p} :
        /\ OpeningOf(r) # {} => Yields(tx[q], r)
        /\ OpeningOf(tx[q]) # {} => Yields(r, tx[q])
  BY DEF Yields
<1> QED BY <1>1, <1>2, <1>3, SweptStep

(* A transaction that has not locked a row, or ends without a commit.      *)
LEMMA SweptIdle ==
  ASSUME Swept, NEW p \in Deciders, NEW r \in Tx, TypeOK',
         tx' = [tx EXCEPT ![p] = r],
         UNCHANGED <<info, status, decision, sweep>>,
         r.pc \in {"idle", "asked"}, r.skipped = {}, r.opened = {}
  PROVE  Swept'
<1>1. LocksOf(r) = {} /\ OpeningOf(r) = {} /\ Sound(r)
  BY DEF LocksOf, OpeningOf, Sound
<1>2. \A q \in Deciders \ {p} : Yields(r, tx[q])
  BY DEF Yields
<1>3. \A q \in Deciders \ {p} : LocksOf(r) \cap Held(q) = {}
  BY <1>1
<1> QED BY <1>1, <1>2, <1>3, SweptStep

LEMMA SweptBegin ==
  ASSUME Swept, NEW p \in Deciders, NEW t \in Tasks, NEW act \in Acts,
         Begin(p, t, act), TypeOK'
  PROVE  Swept'
<1> DEFINE r == [IdleTx EXCEPT !.pc = "asked", !.task = t, !.act = act]
<1>1. r \in Tx
  BY IdleTypes DEF Tx, Phase
<1>2. r.pc = "asked" /\ r.skipped = {} /\ r.opened = {}
  BY DEF IdleTx
<1>3. tx' = [tx EXCEPT ![p] = r] /\ UNCHANGED <<info, status, decision, sweep>>
  BY DEF Begin, taskVars
<1> HIDE DEF r
<1> QED BY <1>1, <1>2, <1>3, SweptIdle

LEMMA SweptRollback ==
  ASSUME Swept, NEW p \in Deciders, TypeOK',
         tx' = [tx EXCEPT ![p] = IdleTx], UNCHANGED <<taskVars, inst, pr, sweep>>
  PROVE  Swept'
<1>1. IdleTx.pc = "idle" /\ IdleTx.skipped = {} /\ IdleTx.opened = {}
  BY DEF IdleTx
<1> QED BY <1>1, IdleTypes, SweptIdle DEF taskVars

LEMMA SweptLock ==
  ASSUME Swept, NEW p \in Deciders, LockStep(p), TypeOK'
  PROVE  Swept'
<1> DEFINE r == [tx[p] EXCEPT !.pc = "locked", !.seenInst = inst, !.seenPr = pr]
<1>1. tx' = [tx EXCEPT ![p] = r] /\ UNCHANGED <<info, status, decision, sweep>>
  BY DEF LockStep, taskVars
<1>2. r \in Tx
  BY TxTypes DEF Tx, Phase, Swept, TypeOK
<1>3. /\ r.pc = "locked" /\ r.task = tx[p].task /\ r.skipped = tx[p].skipped
      /\ r.opened = tx[p].opened
  BY TxTypes DEF Tx, Swept
<1>4. tx[p].skipped = {} /\ tx[p].opened = {}
  BY DEF Swept, DecidesPending, InFlight, LockStep, Sound
<1> HIDE DEF r
<1>5. LocksOf(r) = {tx[p].task} /\ Sound(r) /\ OpeningOf(r) = {}
  BY <1>3, <1>4 DEF LocksOf, Sound, OpeningOf
<1>6. \A q \in Deciders \ {p} : LocksOf(r) \cap Held(q) = {}
  BY <1>5 DEF LockStep, FreeFor
<1>7. status[r.task] = "pending"
  BY <1>3 DEF LockStep, Decidable
<1>8. \A q \in Deciders \ {p} : Yields(r, tx[q])
  BY <1>3, <1>5 DEF Yields
<1> QED BY <1>1, <1>2, <1>3, <1>5, <1>6, <1>7, <1>8, SweptStep

(* A refusal lists the rows of everybody who is under way.                 *)
LEMMA SweptRecord ==
  ASSUME Swept, NEW p \in Deciders, Record(p), TypeOK'
  PROVE  Swept'
<1>0. tx[p].pc = "locked" /\ InFlight(p) /\ tx[p].opened = {}
      /\ \A t \in tx[p].skipped : Begun(t)
  BY DEF Record, InFlight, Swept, Sound
<1>1. PICK pc \in {"closing", "waiting", "siblings"}, todo \in SUBSET Tasks :
        /\ tx' = [tx EXCEPT ![p] = [tx[p] EXCEPT !.pc = pc, !.todo = todo]]
        /\ pc = "closing" => todo = CloseList(p)
        /\ pc = "siblings" => todo \subseteq Siblings(p)
  <2>1. CloseList(p) \in SUBSET Tasks /\ Siblings(p) \in SUBSET Tasks
    BY DEF CloseList, SeenOpen, Siblings, Group
  <2> DEFINE pc == IF tx[p].act # "approve" THEN "closing"
                   ELSE IF info[tx[p].task].mode = "parallel_all" /\ ~GroupApproved(p)
                        THEN "waiting" ELSE "siblings"
             todo == IF tx[p].act # "approve" THEN CloseList(p)
                     ELSE IF info[tx[p].task].mode = "parallel_any" THEN Siblings(p) ELSE {}
  <2>2. tx' = [tx EXCEPT ![p] = [tx[p] EXCEPT !.pc = pc, !.todo = todo]]
    BY DEF Record
  <2>3. pc \in {"closing", "waiting", "siblings"} /\ todo \in SUBSET Tasks
    BY <2>1
  <2>4. /\ pc = "closing" => todo = CloseList(p)
        /\ pc = "siblings" => todo \subseteq Siblings(p)
    OBVIOUS
  <2> HIDE DEF pc, todo
  <2> QED BY <2>2, <2>3, <2>4
<1> DEFINE r == [tx[p] EXCEPT !.pc = pc, !.todo = todo]
<1>2. r \in Tx
  BY TxTypes DEF Tx, Phase, Swept
<1>3. /\ r.pc = pc /\ r.task = tx[p].task /\ r.skipped = tx[p].skipped
      /\ r.opened = tx[p].opened /\ r.todo = todo
  BY TxTypes DEF Tx, Swept
<1>4. UNCHANGED <<info, status, decision, sweep>> /\ tx' = [tx EXCEPT ![p] = r]
  BY <1>1 DEF Record, taskVars
<1> HIDE DEF r
<1>5. LocksOf(r) = Held(p) \cup {} /\ OpeningOf(r) = {}
  BY <1>0, <1>3, TakesPending DEF LocksOf, OpeningOf
<1>6. \A t \in Siblings(p) : Begun(t)
  BY DEF Siblings, Group, Begun, Swept, BegunOnes, OpenStatus
<1>7. \A t \in Tasks : t # tx[p].task /\ status[t] \in OpenStatus /\ t \notin tx[p].skipped
                         => t \in CloseList(p)
  BY <1>0 DEF CloseList, SeenOpen, Seen
<1>8. status[tx[p].task] = "pending"
  BY <1>0, TakesPending
<1>a. \A t \in CloseList(p) \cup tx[p].skipped : status[t] # "absent"
  BY <1>0, <1>8 DEF CloseList, SeenOpen, Seen, OpenStatus, StatusAfter, Begun
<1>9. Sound(r)
  BY <1>0, <1>1, <1>3, <1>5, <1>6, <1>7, <1>8, <1>a DEF Sound, OpenStatus
<1>10. ASSUME NEW q \in Deciders \ {p}, OpeningOf(tx[q]) # {}, r.pc = "closing"
       PROVE  tx[q].task \in r.todo
  <2>1. InFlight(q)
    BY <1>10 DEF OpeningOf, InFlight
  <2>2. /\ tx[q].task \in Tasks /\ status[tx[q].task] \in OpenStatus
        /\ tx[q].task \notin Held(p)
    BY <2>1, TakesPending DEF OpenStatus
  <2> QED BY <2>2, <1>0, <1>1, <1>3, <1>7, <1>10, TakesPending
<1>11. r.pc \notin {"idle", "asked"} /\ \A q \in Deciders \ {p} : {} \cap Held(q) = {}
  BY <1>3
<1> QED BY <1>0, <1>2, <1>3, <1>4, <1>5, <1>9, <1>10, <1>11, SweptUnder

LEMMA SweptSkip ==
  ASSUME Swept, NEW p \in Deciders, Skip(p), TypeOK'
  PROVE  Swept'
<1> DEFINE t == First(tx[p].todo)
           r == [tx[p] EXCEPT !.todo = @ \ {t}, !.skipped = @ \cup {t}]
<1>0. InFlight(p) /\ tx[p].opened = {} /\ tx[p].pc \in {"siblings", "closing"} /\ Sound(tx[p])
  BY DEF Skip, InFlight, Swept, Sound
<1>1. t \in tx[p].todo /\ t \in Tasks
  BY TxTypes, FirstIsMember, PlansAssumption DEF Skip, Swept, TypeOK
<1>2. tx' = [tx EXCEPT ![p] = r] /\ UNCHANGED <<info, status, decision, sweep>>
  BY DEF Skip, taskVars
<1>3. \A q \in Deciders \ {p} : t \notin Held(q)
  BY DEF Skip, FreeFor
<1> HIDE DEF t
<1>4. r \in Tx
  BY <1>1, TxTypes DEF Tx, Swept
<1>5. /\ r.pc = tx[p].pc /\ r.task = tx[p].task /\ r.skipped = tx[p].skipped \cup {t}
      /\ r.opened = tx[p].opened /\ r.todo = tx[p].todo \ {t}
  BY TxTypes DEF Tx, Swept
<1> HIDE DEF r
<1>6. LocksOf(r) = Held(p) \cup {t} /\ OpeningOf(r) = {}
  BY <1>0, <1>5, TakesPending DEF LocksOf, OpeningOf
<1>7. Sound(r)
  BY <1>0, <1>1, <1>5, <1>6 DEF Sound
<1>8. ASSUME NEW q \in Deciders \ {p}, OpeningOf(tx[q]) # {}, r.pc = "closing"
      PROVE  tx[q].task \in r.todo
  <2>1. InFlight(q)
    BY <1>8 DEF OpeningOf, InFlight
  <2>2. tx[q].task \in Held(q)
    BY <2>1, TakesPending
  <2>3. tx[q].task \in tx[p].todo
    BY <1>5, <1>8 DEF Swept, OpenerUndisturbed, Yields
  <2> QED BY <2>2, <2>3, <1>3, <1>5
<1>9. r.pc \notin {"idle", "asked"} /\ \A q \in Deciders \ {p} : {t} \cap Held(q) = {}
  BY <1>0, <1>3, <1>5
<1> QED BY <1>0, <1>2, <1>4, <1>5, <1>6, <1>7, <1>8, <1>9, SweptUnder

LEMMA SweptOpen ==
  ASSUME Swept, NEW p \in Deciders, Open(p), TypeOK'
  PROVE  Swept'
<1> DEFINE t == First(tx[p].todo)
           r == [tx[p] EXCEPT !.todo = @ \ {t}, !.opened = @ \cup {t}]
<1>0. InFlight(p) /\ tx[p].pc = "opening" /\ Sound(tx[p])
  BY DEF Open, InFlight, Swept
<1>1. t \in tx[p].todo /\ t \in Tasks
  BY TxTypes, FirstIsMember, PlansAssumption DEF Open, Swept, TypeOK
<1>2. tx' = [tx EXCEPT ![p] = r] /\ UNCHANGED <<info, status, decision, sweep>>
  BY DEF Open, taskVars
<1>3. \A q \in Deciders \ {p} : t \notin Held(q)
  BY DEF Open, FreeFor
<1> HIDE DEF t
<1>4. r \in Tx
  BY <1>1, TxTypes DEF Tx, Swept
<1>5. /\ r.pc = tx[p].pc /\ r.task = tx[p].task /\ r.skipped = tx[p].skipped
      /\ r.opened = tx[p].opened \cup {t} /\ r.todo = tx[p].todo \ {t}
  BY TxTypes DEF Tx, Swept
<1> HIDE DEF r
<1>6. LocksOf(r) = Held(p) \cup {t} /\ OpeningOf(r) = OpeningOf(tx[p]) /\ OpeningOf(r) # {}
  BY <1>0, <1>1, <1>5, TakesPending DEF LocksOf, OpeningOf
<1>7. Sound(r)
  BY <1>0, <1>5, <1>6 DEF Sound
<1>8. \A q \in Deciders \ {p} : LocksOf(r) \cap Held(q) = {}
  BY <1>3, <1>6 DEF Swept, LocksDisjoint
<1>9. \A q \in Deciders \ {p} : Yields(tx[q], r) /\ OpeningOf(tx[q]) = {}
  <2>1. ASSUME NEW q \in Deciders \ {p} PROVE Yields(tx[q], tx[p])
    BY <1>6 DEF Swept, OpenerUndisturbed
  <2> QED BY <2>1, <1>5 DEF Yields, OpeningOf
<1>10. status[r.task] = "pending" /\ r.pc \notin {"idle", "asked"}
  BY <1>0, <1>5, TakesPending
<1> QED BY <1>2, <1>4, <1>7, <1>8, <1>9, <1>10, SweptStep

(* If advance opens a step, nobody else is under way: his pending row      *)
(* would be of an earlier one.                                             *)
LEMMA SweptAdvance ==
  ASSUME Swept, NEW p \in Deciders, Advance(p), TypeOK'
  PROVE  Swept'
<1>0. InFlight(p) /\ tx[p].opened = {} /\ tx[p].pc = "siblings" /\ Sound(tx[p])
  BY DEF Advance, InFlight, Swept, Sound
<1>1. UNCHANGED <<info, status, decision, sweep>>
  BY DEF Advance, taskVars
<1>a. \A t \in tx[p].skipped : Begun(t)
  BY <1>0 DEF Sound
<1>2. CASE SeenOpen(p) = {}
  <2> DEFINE r == [tx[p] EXCEPT !.pc = "approving"]
  <2>1. r \in Tx /\ tx' = [tx EXCEPT ![p] = r]
    BY <1>2, TxTypes DEF Tx, Phase, Swept, Advance
  <2>2. /\ r.pc = "approving" /\ r.task = tx[p].task /\ r.skipped = tx[p].skipped
        /\ r.opened = tx[p].opened
    BY TxTypes DEF Tx, Swept
  <2> HIDE DEF r
  <2>3. LocksOf(r) = Held(p) \cup {} /\ OpeningOf(r) = {}
    BY <1>0, <2>2, TakesPending DEF LocksOf, OpeningOf
  <2>4. Sound(r)
    BY <1>0, <1>a, <2>2, <2>3 DEF Sound
  <2>5. \A q \in Deciders \ {p} : {} \cap Held(q) = {}
    OBVIOUS
  <2> QED BY <1>0, <1>1, <2>1, <2>2, <2>3, <2>4, <2>5, SweptUnder
<1>3. CASE SeenOpen(p) # {}
  <2> DEFINE n == NextTask(p)
             r == [tx[p] EXCEPT !.pc = "opening", !.next = n, !.todo = OpenList(p)]
  <2>1. SeenOpen(p) \in SUBSET Tasks
    BY DEF SeenOpen
  <2>2. n \in Tasks /\ \A u \in SeenOpen(p) : info[n].order <= info[u].order
    BY <1>3, <2>1, FirstIsMember, PlansAssumption DEF NextTask, Swept, TypeOK
  <2>3. OpenList(p) \in SUBSET Tasks
    BY DEF OpenList, Group
  <2>4. tx' = [tx EXCEPT ![p] = r]
    BY <1>3 DEF Advance
  <2>5. \A t \in Tasks : info[t].order \in Nat
    BY DEF Swept, TypeOK, Info
  <2>6. \A t \in Tasks : t \in OpenList(p) <=>
             Seen(p, t) = "queued" /\ info[t].order = info[n].order
    BY DEF OpenList, Group
  <2> HIDE DEF n
  <2>7. r \in Tx
    BY <2>2, <2>3, TxTypes DEF Tx, Phase, Swept
  <2>8. /\ r.pc = "opening" /\ r.task = tx[p].task /\ r.skipped = tx[p].skipped
        /\ r.opened = {} /\ r.todo = OpenList(p)
    BY <1>0, TxTypes DEF Tx, Swept
  <2> HIDE DEF r
  <2>9. LocksOf(r) = Held(p) /\ OpeningOf(r) = OpenList(p)
    BY <1>0, <2>8, TakesPending DEF LocksOf, OpeningOf
  <2>10. /\ \A t \in Tasks : Seen(p, t) = "queued" <=> status[t] = "queued"
         /\ \A t \in Tasks : t \notin Held(p) => Seen(p, t) = status[t]
    <3>1. \A t \in tx[p].skipped \cup {tx[p].task} : status[t] # "queued"
      BY <1>a, <1>0, TakesPending DEF Begun
    <3> QED BY <3>1, <1>0, TakesPending DEF Seen, StatusAfter
  <2>11. Sound(r)
    <3> SUFFICES ASSUME NEW t \in OpenList(p)
                 PROVE  /\ status[t] = "queued"
                        /\ \A u \in OpenList(p) : info[u].order = info[t].order
                        /\ \A u \in Tasks \ OpenList(p) :
                             status[u] = "queued" => info[t].order < info[u].order
      BY <1>a, <2>8, <2>9 DEF Sound
    <3>1. t \in Tasks /\ status[t] = "queued" /\ info[t].order = info[n].order
      BY <2>3, <2>6, <2>10
    <3>2. \A u \in OpenList(p) : info[u].order = info[t].order
      BY <2>3, <2>6, <3>1
    <3>3. ASSUME NEW u \in Tasks \ OpenList(p), status[u] = "queued"
          PROVE  info[t].order < info[u].order
      <4>1. u \in SeenOpen(p)
        BY <2>10, <3>3 DEF SeenOpen, OpenStatus
      <4>2. info[n].order <= info[u].order /\ info[u].order # info[n].order
        BY <2>2, <2>6, <2>10, <4>1, <3>3
      <4> QED BY <2>2, <2>5, <3>1, <4>2
    <3> QED BY <3>1, <3>2, <3>3
  <2>12. ASSUME NEW q \in Deciders \ {p}, InFlight(q), NEW t \in OpenList(p)
         PROVE  FALSE
    <3>1. /\ tx[q].task \in Tasks /\ status[tx[q].task] = "pending" /\ Begun(tx[q].task)
          /\ tx[q].task \notin Held(p)
      BY <2>12, TakesPending
    <3>2. tx[q].task \in SeenOpen(p)
      BY <3>1, <2>10 DEF SeenOpen, OpenStatus
    <3>3. t \in Tasks /\ status[t] = "queued" /\ info[t].order = info[n].order
      BY <2>3, <2>6, <2>10
    <3>4. info[tx[q].task].order < info[t].order
      BY <3>1, <3>3 DEF Swept, NothingIsOvertaken
    <3> QED BY <2>2, <2>5, <3>1, <3>2, <3>3, <3>4
  <2>13. ASSUME NEW q \in Deciders \ {p}
         PROVE  /\ OpeningOf(r) # {} => Yields(tx[q], r)
                /\ OpeningOf(tx[q]) # {} => Yields(r, tx[q])
    <3>1. OpeningOf(r) # {} => ~InFlight(q)
      BY <2>9, <2>12
    <3>2. OpeningOf(tx[q]) # {} => InFlight(q)
      BY DEF OpeningOf, InFlight
    <3>3. OpeningOf(tx[q]) # {} => OpeningOf(r) = {}
      BY <3>1, <3>2
    <3> QED BY <3>1, <3>3, <2>8 DEF Yields, InFlight
  <2>14. \A q \in Deciders \ {p} : LocksOf(r) \cap Held(q) = {}
    BY <2>9 DEF Swept, LocksDisjoint
  <2>15. status[r.task] = "pending" /\ r.pc \notin {"idle", "asked"}
    BY <1>0, <2>8, TakesPending
  <2> QED BY <1>1, <2>4, <2>7, <2>11, <2>13, <2>14, <2>15, SweptStep
<1> QED BY <1>2, <1>3

(* What a commit makes of a row.                                           *)
LEMMA CommittedBegun ==
  ASSUME Swept, NEW p \in Deciders, InFlight(p), CommitRows(p), NEW t \in Tasks
  PROVE  /\ status'[t] = "queued" => status[t] = "queued" /\ t \notin Held(p)
         /\ status'[t] = "pending" => t \in tx[p].opened \/ status[t] = "pending"
         /\ status'[t] = "absent" <=> status[t] = "absent"
         /\ status'[t] = "expired" => status[t] = "expired"
         /\ status'[t] = "pending" => t # tx[p].task
         /\ t \in tx[p].opened => status[t] = "queued"
         /\ t \notin Held(p) => status'[t] = status[t]
         /\ Begun(t) => Begun(t)'
         /\ Begun(t)' => Begun(t) \/ t \in tx[p].opened \/ tx[p].pc = "closing"
         /\ Begun(t) /\ status[t] # "pending" => status'[t] # "pending"
<1>1. status'[t] = Seen(p, t) /\ info' = info
  BY DEF CommitRows
<1>2. StatusAfter(tx[p].act) \notin {"pending", "queued", "absent", "expired"}
  BY DEF StatusAfter
<1>3. Sound(tx[p])
  BY DEF Swept
<1>4. t \in tx[p].opened => status[t] = "queued"
  BY <1>3 DEF Sound, OpeningOf
<1>5. t \in tx[p].skipped => status[t] # "absent"
  <2>1. tx[p].pc # "closing" /\ t \in tx[p].skipped => Begun(t)
    BY <1>3 DEF Sound
  <2>2. tx[p].pc = "closing" /\ t \in tx[p].skipped => status[t] # "absent"
    BY <1>3 DEF Sound
  <2> QED BY <2>1, <2>2 DEF Begun
<1>6. t \in tx[p].skipped /\ tx[p].pc # "closing" => Begun(t)
  BY <1>3 DEF Sound
<1> QED BY <1>1, <1>2, <1>4, <1>5, <1>6, TakesPending DEF Seen, Begun

LEMMA SweptCommit ==
  ASSUME Swept, NEW p \in Deciders, InFlight(p), CommitRows(p), TypeOK',
         tx[p].pc \in {"closing", "opening"} => tx[p].todo = {}
  PROVE  Swept'
<1>1. tx'[p] = IdleTx /\ \A q \in Deciders \ {p} : tx'[q] = tx[q]
  BY DEF Swept, TypeOK, CommitRows
<1>2. /\ IdleTx.pc = "idle" /\ IdleTx.skipped = {} /\ IdleTx.opened = {}
      /\ info' = info /\ sweep' = sweep
  BY DEF IdleTx, CommitRows
<1>3. Held(p)' = {} /\ \A q \in Deciders \ {p} : Held(q)' = Held(q)
  BY <1>1, <1>2 DEF Held
<1>4. LocksDisjoint'
  BY <1>3 DEF Swept, LocksDisjoint
<1>5. \A q \in Deciders : InFlight(q)' => q # p /\ InFlight(q)
  BY <1>1, <1>2 DEF InFlight
<1>6. DecidesPending'
  <2> SUFFICES ASSUME NEW q \in Deciders
               PROVE  IF InFlight(q)' THEN status'[tx'[q].task] = "pending"
                      ELSE tx'[q].skipped = {}
    BY DEF DecidesPending
  <2>1. CASE InFlight(q)'
    <3>1. q # p /\ InFlight(q) /\ tx'[q] = tx[q]
      BY <2>1, <1>5, <1>1
    <3> QED BY <2>1, <3>1, TakesPending, CommittedBegun
  <2>2. CASE ~InFlight(q)'
    BY <2>2, <1>1, <1>2 DEF Swept, DecidesPending, InFlight
  <2> QED BY <2>1, <2>2
(* What it opens comes before every row that stays queued.                 *)
<1>7. /\ tx[p].pc # "opening" => tx[p].opened = {}
      /\ tx[p].pc = "opening" => OpeningOf(tx[p]) = tx[p].opened
      /\ Sound(tx[p])
  BY DEF Swept, Sound, OpeningOf
<1>8. ASSUME NEW t \in tx[p].opened, NEW u \in Tasks, status'[u] = "queued"
      PROVE  info[t].order < info[u].order
  <2>1. status[u] = "queued" /\ u \notin tx[p].opened
    BY <1>8, CommittedBegun, TakesPending
  <2> QED BY <1>7, <1>8, <2>1 DEF Sound
<1>9. tx[p].pc = "closing" => \A t \in Tasks : status'[t] # "queued"
  <2> SUFFICES ASSUME tx[p].pc = "closing", NEW t \in Tasks, status'[t] = "queued"
               PROVE  FALSE
    OBVIOUS
  <2>1. status[t] = "queued" /\ t \notin tx[p].skipped
    BY CommittedBegun, TakesPending
  <2> QED BY <2>1, <1>7 DEF Sound
<1>10. NothingIsOvertaken'
  <2> SUFFICES ASSUME NEW t \in Tasks, NEW u \in Tasks, status'[t] = "queued", Begun(u)'
               PROVE  info[u].order < info[t].order
    BY <1>2 DEF NothingIsOvertaken
  <2>1. status[t] = "queued" /\ tx[p].pc # "closing"
    BY <1>9, CommittedBegun
  <2>2. CASE Begun(u)
    BY <2>1, <2>2 DEF Swept, NothingIsOvertaken
  <2>3. CASE u \in tx[p].opened
    BY <2>3, <1>8
  <2> QED BY <2>1, <2>2, <2>3, CommittedBegun
<1>11. BegunOnes'
  <2> SUFFICES ASSUME NEW t \in Tasks, status'[t] \in OpenStatus
               PROVE  info[t].applicable
    BY <1>2 DEF BegunOnes
  <2>1. status[t] \in OpenStatus
    BY CommittedBegun DEF OpenStatus
  <2> QED BY <2>1 DEF Swept, BegunOnes
<1>12. Undecided'
  <2> SUFFICES ASSUME NEW t \in Tasks, status'[t] \in OpenStatus \cup {"absent"}
               PROVE  decision'[t] = "none"
    BY DEF Undecided
  <2>1. status[t] \in OpenStatus \cup {"absent"} /\ t # tx[p].task
    BY CommittedBegun, TakesPending DEF OpenStatus
  <2> QED BY <2>1 DEF Swept, Undecided, TypeOK, CommitRows
<1>13. ListsBegun'
  <2>1. \A t \in Tasks : Begun(t) => Begun(t)'
    BY CommittedBegun
  <2>2. \A s \in Sweepers : sweep[s].todo \subseteq Tasks /\ sweep[s].at \in Tasks
    BY DEF Swept, TypeOK, Sweep
  <2>3. \A t \in Tasks : Begun(t)' <=> info[t].applicable /\ status'[t] \notin {"absent", "queued"}
    BY <1>2 DEF Begun
  <2> QED BY <2>1, <2>2, <2>3, <1>2 DEF Swept, ListsBegun, Begun
(* Nobody else is about to open one of the rows it has written.            *)
<1>14. ASSUME NEW q \in Deciders \ {p}, OpeningOf(tx[q]) # {}, NEW t \in OpeningOf(tx[q])
       PROVE  t \in Tasks /\ status[t] = "queued" /\ status'[t] = "queued"
  <2>1. Yields(tx[p], tx[q]) /\ Sound(tx[q])
    BY <1>14 DEF Swept, OpenerUndisturbed
  <2>2. OpeningOf(tx[p]) = {} /\ tx[p].pc # "closing"
    BY <2>1 DEF Yields, InFlight
  <2>3. status[t] = "queued" /\ t \in Tasks
    BY <2>1, TxTypes, <1>14 DEF Sound, Swept, OpeningOf
  <2>4. t \notin tx[p].opened
    BY <2>2, <1>7
  <2>5. t \notin tx[p].skipped /\ t # tx[p].task
    BY <2>2, <2>3, <1>7, TakesPending DEF Sound, Begun
  <2> QED BY <2>3, <2>4, <2>5, CommittedBegun, TakesPending
<1>15. ASSUME NEW q \in Deciders PROVE Sound(tx[q])'
  <2>1. CASE q = p
    BY <2>1, <1>1, <1>2 DEF Sound, OpeningOf
  <2>2. CASE q # p
    <3> DEFINE r == tx[q]
    <3>1. Sound(r) /\ tx'[q] = r /\ r.todo \subseteq Tasks /\ r.skipped \subseteq Tasks
          /\ OpeningOf(r) \subseteq Tasks
      BY <2>2, <1>1, TxTypes DEF Swept, OpeningOf
    <3>2. \A t \in OpeningOf(r) : status[t] = "queued" /\ status'[t] = "queued"
      BY <2>2, <1>14
    <3>3. \A t \in Tasks : /\ Begun(t) => Begun(t)'
                           /\ status'[t] = "queued" => status[t] = "queued"
                           /\ status'[t] = "absent" => status[t] = "absent"
      BY CommittedBegun
    <3>4. OpeningOf(tx[q])' = OpeningOf(r)
      BY <3>1 DEF OpeningOf
    <3> HIDE DEF r
    <3>5. r.pc # "opening" => r.opened = {}
      BY <3>1 DEF Sound
    <3>6. /\ r.pc # "closing" => \A t \in r.skipped : Begun(t)'
          /\ r.pc = "siblings" => \A t \in r.todo : Begun(t)'
      BY <3>1, <3>3 DEF Sound
    <3>7. r.pc = "closing" =>
            /\ \A t \in Tasks : status'[t] = "queued" => t \in r.todo \cup r.skipped
            /\ \A t \in r.todo \cup r.skipped : status'[t] # "absent"
      BY <3>1, <3>3 DEF Sound
    <3>8. \A t \in OpeningOf(r) :
            /\ status'[t] = "queued"
            /\ \A u \in OpeningOf(r) : info'[u].order = info'[t].order
            /\ \A u \in Tasks \ OpeningOf(r) :
                 status'[u] = "queued" => info'[t].order < info'[u].order
      BY <3>1, <3>2, <3>3, <1>2 DEF Sound
    <3> QED BY <3>1, <3>4, <3>5, <3>6, <3>7, <3>8 DEF Sound
  <2> QED BY <2>1, <2>2
<1>16. OpenerUndisturbed'
  <2> SUFFICES ASSUME NEW q \in Deciders, NEW o \in Deciders, o # q, OpeningOf(tx'[o]) # {}
               PROVE  Yields(tx'[q], tx'[o])
    BY DEF OpenerUndisturbed, Yields, OpeningOf
  <2>1. o # p
    BY <1>1, <1>2 DEF OpeningOf
  <2>2. CASE q = p
    BY <2>2, <1>1, <1>2 DEF Yields
  <2>3. CASE q # p
    BY <2>1, <2>3, <1>1 DEF Swept, OpenerUndisturbed
  <2> QED BY <2>2, <2>3
<1> QED BY <1>4, <1>6, <1>10, <1>11, <1>12, <1>13, <1>15, <1>16 DEF Swept

LEMMA SweptDecide ==
  ASSUME Swept, NEW p \in Deciders, Decide(p), TypeOK'
  PROVE  Swept'
<1>1. CASE \E t \in Tasks, act \in Acts : Begin(p, t, act)
  BY <1>1, SweptBegin
<1>2. CASE LockStep(p)
  BY <1>2, SweptLock
<1>3. CASE Record(p)
  BY <1>3, SweptRecord
<1>4. CASE Skip(p)
  BY <1>4, SweptSkip
<1>5. CASE Advance(p)
  BY <1>5, SweptAdvance
<1>6. CASE Open(p)
  BY <1>6, SweptOpen
<1>7. CASE Commit(p)
  <2>1. /\ InFlight(p) /\ CommitRows(p)
        /\ tx[p].pc \in {"closing", "opening"} => tx[p].todo = {}
    BY <1>7 DEF Commit, CommitWaiting, CommitAdvance, CommitClosed, CommitApproved, InFlight
  <2> QED BY <2>1, SweptCommit
<1>8. CASE Refuse(p) \/ ReserveRefused(p) \/ DeadlockAbort(p)
  BY <1>8, SweptRollback DEF Refuse, ReserveRefused, DeadlockAbort, Rollback
<1> QED BY <1>1, <1>2, <1>3, <1>4, <1>5, <1>6, <1>7, <1>8 DEF Decide

(***************************************************************************)
(* The SLA runs.  Each of their writes begins a row, or ends one that is   *)
(* begun, and that nobody is deciding.                                     *)
(***************************************************************************)
LEMMA SweptRow ==
  ASSUME Swept, TypeOK', UNCHANGED <<decision, tx>>, ListsBegun', NEW n \in Tasks,
         \A t \in Tasks \ {n} : info'[t] = info[t] /\ status'[t] = status[t],
         \A q \in Deciders : InFlight(q) => tx[q].task # n,
         status[n] # "queued", status'[n] \notin {"absent", "queued"},
         info'[n].applicable,
         \A t \in Tasks : status[t] = "queued" => info'[n].order < info[t].order,
         status'[n] = "pending" => decision[n] = "none"
  PROVE  Swept'
<1>1. \A t \in Tasks : /\ Begun(t) => Begun(t)'
                       /\ Begun(t)' => Begun(t) \/ t = n
                       /\ status'[t] = "queued" <=> status[t] = "queued"
                       /\ status'[t] = "absent" => status[t] = "absent"
  BY DEF Begun
<1>2. LocksDisjoint'
  BY DEF Swept, LocksDisjoint, Held
<1>3. DecidesPending'
  BY TakesPending DEF Swept, DecidesPending, InFlight
<1>4. BegunOnes' /\ Undecided'
  BY DEF Swept, BegunOnes, Undecided, OpenStatus
<1>5. NothingIsOvertaken'
  <2> SUFFICES ASSUME NEW t \in Tasks, NEW u \in Tasks, status'[t] = "queued", Begun(u)'
               PROVE  info'[u].order < info'[t].order
    BY DEF NothingIsOvertaken
  <2>1. status[t] = "queued" /\ t # n /\ info'[t] = info[t]
    BY <1>1
  <2>2. CASE u = n
    BY <2>1, <2>2
  <2>3. CASE u # n
    BY <2>1, <2>3, <1>1 DEF Swept, NothingIsOvertaken
  <2> QED BY <2>2, <2>3
<1>6. ASSUME NEW q \in Deciders PROVE Sound(tx[q])'
  <2> DEFINE r == tx[q]
  <2>1. Sound(r) /\ tx'[q] = r /\ r.todo \subseteq Tasks /\ r.skipped \subseteq Tasks
        /\ OpeningOf(r) \subseteq Tasks
    BY TxTypes DEF Swept, OpeningOf
  <2>2. OpeningOf(tx[q])' = OpeningOf(r)
    BY <2>1 DEF OpeningOf
  <2> HIDE DEF r
  <2>3. r.pc # "opening" => r.opened = {}
    BY <2>1 DEF Sound
  <2>4. /\ r.pc # "closing" => \A t \in r.skipped : Begun(t)'
        /\ r.pc = "siblings" => \A t \in r.todo : Begun(t)'
    BY <2>1, <1>1 DEF Sound
  <2>5. r.pc = "closing" =>
          /\ \A t \in Tasks : status'[t] = "queued" => t \in r.todo \cup r.skipped
          /\ \A t \in r.todo \cup r.skipped : status'[t] # "absent"
    BY <2>1, <1>1 DEF Sound
  <2>6. \A t \in Tasks : status[t] = "queued" => info'[t] = info[t] /\ status'[t] = "queued"
    OBVIOUS
  <2>7. \A t \in OpeningOf(r) : status[t] = "queued"
    BY <2>1 DEF Sound
  <2>8. \A t \in OpeningOf(r) :
          /\ status'[t] = "queued"
          /\ \A u \in OpeningOf(r) : info'[u].order = info'[t].order
          /\ \A u \in Tasks \ OpeningOf(r) :
               status'[u] = "queued" => info'[t].order < info'[u].order
    BY <2>1, <2>6, <2>7, <1>1 DEF Sound
  <2> QED BY <2>1, <2>2, <2>3, <2>4, <2>5, <2>8 DEF Sound
<1>7. OpenerUndisturbed'
  BY DEF Swept, OpenerUndisturbed, Yields, OpeningOf
<1> QED BY <1>2, <1>3, <1>4, <1>5, <1>6, <1>7 DEF Swept

(* If the rows stay as they are, so does what has been said of them.       *)
LEMMA SweptElse ==
  ASSUME Swept, TypeOK', UNCHANGED <<info, status, decision, tx>>, ListsBegun'
  PROVE  Swept'
<1>1. LocksDisjoint' /\ DecidesPending' /\ OpenerUndisturbed'
  BY DEF Swept, LocksDisjoint, Held, DecidesPending, InFlight, OpenerUndisturbed, Yields,
         OpeningOf
<1>2. BegunOnes' /\ NothingIsOvertaken' /\ Undecided'
  BY DEF Swept, BegunOnes, NothingIsOvertaken, Begun, Undecided
<1>3. \A p \in Deciders : Sound(tx[p])'
  BY DEF Swept, Sound, OpeningOf, Begun
<1> QED BY <1>1, <1>2, <1>3 DEF Swept

(* What a run goes on with was on its list.                                *)
LEMMA NextIsListed ==
  ASSUME TypeOK, NEW s \in Sweepers, SlaNext(s) \/ sweep' = [sweep EXCEPT ![s] = IdleSweep]
  PROVE  /\ \A r \in Sweepers \ {s} : sweep'[r] = sweep[r]
         /\ sweep'[s].pc # "escalating" /\ sweep'[s].todo \subseteq sweep[s].todo
<1> DEFINE old == sweep[s]
           new == sweep'[s]
<1>1. old \in Sweep
  BY DEF TypeOK
<1>2. \/ new = IdleSweep
      \/ new = [old EXCEPT !.pc = "expiring", !.at = 1]
  BY DEF SlaNext, TypeOK
<1>3. \A r \in Sweepers \ {s} : sweep'[r] = sweep[r]
  BY DEF SlaNext, TypeOK
<1> HIDE DEF old, new
<1>4. new.pc # "escalating" /\ new.todo \subseteq old.todo
  <2>1. CASE new = IdleSweep
    BY <2>1 DEF IdleSweep
  <2>2. CASE new = [old EXCEPT !.pc = "expiring", !.at = 1]
    BY <2>2, <1>1 DEF Sweep
  <2> QED BY <2>1, <2>2, <1>2
<1> QED BY <1>3, <1>4 DEF old, new

LEMMA SweptSla ==
  ASSUME Swept, NEW s \in Sweepers, Sla(s), TypeOK'
  PROVE  Swept'
<1> USE DEF taskVars
<1>0. /\ TypeOK /\ sweep[s].todo \subseteq Tasks /\ sweep[s].at \in Tasks
      /\ \A r \in Sweepers : sweep[r].todo \subseteq Tasks /\ sweep[r].at \in Tasks
  BY DEF Swept, TypeOK, Sweep
<1>1. CASE SlaBegin(s)
  <2>1. /\ sweep'[s].todo = Overdue /\ sweep'[s].pc = "expiring"
        /\ \A r \in Sweepers \ {s} : sweep'[r] = sweep[r]
    BY <1>0, <1>1 DEF SlaBegin, TypeOK, Sweep
  <2>2. \A t \in Overdue : Begun(t)
    BY DEF Overdue, Begun, Swept, BegunOnes, OpenStatus
  <2>3. UNCHANGED <<info, status, decision, tx>>
    BY <1>1 DEF SlaBegin
  <2>4. ListsBegun'
    BY <2>1, <2>2, <2>3 DEF ListsBegun, Begun, Swept
  <2> QED BY <2>3, <2>4, SweptElse
<1>2. CASE \E t \in Tasks : SlaExpire(s, t)
  <2>1. PICK t \in Tasks : SlaExpire(s, t)
    BY <1>2
  <2>2. Begun(t) /\ t \in sweep[s].todo
    BY <2>1 DEF SlaExpire, Swept, ListsBegun
  <2>3. /\ status'[t] = "expired" /\ UNCHANGED <<info, decision, tx>>
        /\ \A u \in Tasks \ {t} : status'[u] = status[u]
    BY <2>1, <1>0 DEF SlaExpire, TypeOK
  <2>4. \A u \in Tasks : Begun(u) => Begun(u)'
    BY <2>3 DEF Begun
  <2>5. /\ sweep'[s].todo = sweep[s].todo \ {t} /\ sweep'[s].at = t
        /\ \A r \in Sweepers \ {s} : sweep'[r] = sweep[r]
    BY <2>1, <1>0 DEF SlaExpire, TypeOK
  <2>6. ListsBegun'
    <3> SUFFICES ASSUME NEW r \in Sweepers
                 PROVE  /\ \A u \in sweep'[r].todo : Begun(u)'
                        /\ sweep'[r].pc = "escalating" => info'[sweep'[r].at].applicable
                             /\ status'[sweep'[r].at] \notin {"absent", "queued"}
      BY DEF ListsBegun, Begun
    <3>1. CASE r = s
      BY <3>1, <2>2, <2>4, <2>5, <1>0 DEF Swept, ListsBegun, Begun
    <3>2. CASE r # s
      BY <3>2, <2>4, <2>5, <1>0 DEF Swept, ListsBegun, Begun
    <3> QED BY <3>1, <3>2
  <2>7. \A q \in Deciders : InFlight(q) => tx[q].task # t
    BY <2>1, TakesPending DEF SlaExpire, Unlocked
  <2>8. \A u \in Tasks : status[u] = "queued" => info'[t].order < info[u].order
    BY <2>2, <2>3 DEF Swept, NothingIsOvertaken
  <2>9. status[t] # "queued" /\ info'[t].applicable
    BY <2>2, <2>3 DEF Begun
  <2> QED BY <2>3, <2>6, <2>7, <2>8, <2>9, SweptRow
<1>3. CASE \E u \in Users : SlaEscalate(s, u)
  <2>1. PICK u \in Users : SlaEscalate(s, u)
    BY <1>3
  <2> DEFINE n == NewTask
             t == sweep[s].at
  <2>2. n \in Tasks /\ status[n] = "absent"
    BY <2>1, NewTaskIsFree DEF SlaEscalate, Free, Rows
  <2>3. Begun(t) /\ t \in Tasks
    BY <2>1, <1>0 DEF SlaEscalate, Swept, ListsBegun
  <2>4. /\ status'[n] = "pending" /\ UNCHANGED <<decision, tx>> /\ SlaNext(s)
        /\ info'[n] = [info[t] EXCEPT !.approver = u, !.origin = t]
        /\ \A v \in Tasks \ {n} : status'[v] = status[v] /\ info'[v] = info[v]
    BY <2>1, <2>2, <1>0 DEF SlaEscalate, TypeOK
  <2>5. info'[n].order = info[t].order /\ info'[n].applicable
    <3>1. info[t] \in Info /\ info[t].applicable
      BY <2>3, <1>0 DEF TypeOK, Begun
    <3> QED BY <2>4, <3>1 DEF Info
  <2> HIDE DEF n, t
  <2>6. \A v \in Tasks : Begun(v) => Begun(v)'
    BY <2>2, <2>4 DEF Begun
  <2>7. ListsBegun'
    <3>1. /\ \A r \in Sweepers \ {s} : sweep'[r] = sweep[r]
          /\ sweep'[s].pc # "escalating" /\ sweep'[s].todo \subseteq sweep[s].todo
      BY <2>4, <1>0, NextIsListed
    <3> SUFFICES ASSUME NEW r \in Sweepers
                 PROVE  /\ \A v \in sweep'[r].todo : Begun(v)'
                        /\ sweep'[r].pc = "escalating" => info'[sweep'[r].at].applicable
                             /\ status'[sweep'[r].at] \notin {"absent", "queued"}
      BY DEF ListsBegun, Begun
    <3>2. CASE r = s
      BY <3>1, <3>2, <2>6, <1>0 DEF Swept, ListsBegun
    <3>3. CASE r # s
      BY <3>1, <3>3, <2>6, <1>0 DEF Swept, ListsBegun, Begun
    <3> QED BY <3>2, <3>3
  <2>8. \A q \in Deciders : InFlight(q) => tx[q].task # n
    BY <2>2, TakesPending
  <2>9. \A v \in Tasks : status[v] = "queued" => info'[n].order < info[v].order
    BY <2>3, <2>5 DEF Swept, NothingIsOvertaken
  <2>10. decision[n] = "none"
    BY <2>2 DEF Swept, Undecided
  <2> QED BY <2>2, <2>4, <2>5, <2>7, <2>8, <2>9, <2>10, SweptRow
<1>4. CASE SlaNoFallback(s) \/ SlaAbort(s)
  <2>1. UNCHANGED <<info, status, decision, tx>>
    BY <1>4 DEF SlaNoFallback, SlaAbort
  <2>2. /\ \A r \in Sweepers \ {s} : sweep'[r] = sweep[r]
        /\ sweep'[s].pc # "escalating" /\ sweep'[s].todo \subseteq sweep[s].todo
    BY <1>4, <1>0, NextIsListed DEF SlaNoFallback, SlaAbort
  <2>3. ListsBegun'
    BY <2>1, <2>2 DEF Swept, ListsBegun, Begun
  <2> QED BY <2>1, <2>3, SweptElse
<1> QED BY <1>1, <1>2, <1>3, <1>4 DEF Sla

LEMMA SweptKept ==
  ASSUME Swept, [Next]_vars
  PROVE  Swept'
<1>1. TypeOK'
  BY TypesKept DEF Swept
<1>2. CASE \E p \in Deciders : Decide(p)
  BY <1>1, <1>2, SweptDecide
<1>3. CASE (\E t \in Tasks : Elapse(t)) \/ UNCHANGED vars
  <2>1. UNCHANGED <<info, status, decision, tx, sweep>>
    BY <1>3 DEF Elapse, vars
  <2>2. ListsBegun'
    BY <2>1 DEF Swept, ListsBegun, Begun
  <2> QED BY <1>1, <2>1, <2>2, SweptElse
<1>4. CASE \E s \in Sweepers : Sla(s)
  BY <1>1, <1>4, SweptSla
<1> QED BY <1>2, <1>3, <1>4 DEF Next

LEMMA InitSwept == Init => Swept
<1> SUFFICES ASSUME Init PROVE Swept
  OBVIOUS
<1>1. TypeOK
  BY InitialTypes
<1>2. /\ \A p \in Deciders : tx[p] = IdleTx
      /\ \A s \in Sweepers : sweep[s] = IdleSweep
  BY DEF Init
<1>3. IdleTx.pc = "idle" /\ IdleTx.skipped = {} /\ IdleTx.opened = {}
  BY DEF IdleTx
<1>4. LocksDisjoint /\ DecidesPending /\ OpenerUndisturbed
  BY <1>2, <1>3 DEF LocksDisjoint, Held, DecidesPending, InFlight, OpenerUndisturbed, OpeningOf
<1>5. \A p \in Deciders : Sound(tx[p])
  BY <1>2, <1>3 DEF Sound, OpeningOf
<1>6. Undecided /\ ListsBegun
  BY <1>2 DEF Init, Undecided, ListsBegun, IdleSweep
<1>7. PICK plan \in Plans :
        /\ info = [t \in Tasks |-> CreatedInfo(plan, t)]
        /\ status = [t \in Tasks |-> CreatedStatus(plan, t)]
  BY DEF Init
<1>8. ASSUME NEW t \in Tasks, status[t] \in OpenStatus \/ Begun(t)
      PROVE  /\ info[t].applicable /\ info[t].order \in Nat /\ FirstOrder(plan) <= info[t].order
             /\ status[t] = "queued" <=> info[t].order # FirstOrder(plan)
  <2>1. info[t] = CreatedInfo(plan, t) /\ status[t] = CreatedStatus(plan, t)
    BY <1>7
  <2>2. t \in DOMAIN plan /\ plan[t].applicable
    <3>1. CASE t \notin DOMAIN plan
      BY <3>1, <1>8, <2>1 DEF CreatedStatus, OpenStatus, Begun
    <3>2. CASE t \in DOMAIN plan
      <4>1. info[t].applicable = plan[t].applicable
        BY <2>1, <3>2 DEF CreatedInfo
      <4> QED BY <1>8, <2>1, <3>2, <4>1 DEF CreatedStatus, OpenStatus, Begun
    <3> QED BY <3>1, <3>2
  <2>3. info[t].order = plan[t].order /\ info[t].applicable
    BY <2>1, <2>2 DEF CreatedInfo
  <2>4. info[t].order \in Nat
    BY <1>1 DEF TypeOK, Info
  <2> QED BY <2>1, <2>2, <2>3, <2>4, FirstOrderIsNat DEF CreatedStatus
<1>9. FirstOrder(plan) \in Nat
  BY FirstOrderIsNat
<1>10. BegunOnes
  BY <1>8 DEF BegunOnes
<1>11. NothingIsOvertaken
  <2> SUFFICES ASSUME NEW t \in Tasks, NEW u \in Tasks, status[t] = "queued", Begun(u)
               PROVE  info[u].order < info[t].order
    BY DEF NothingIsOvertaken
  <2>1. info[t].order # FirstOrder(plan) /\ FirstOrder(plan) <= info[t].order
        /\ info[t].order \in Nat
    BY <1>8 DEF OpenStatus
  <2>2. info[u].order = FirstOrder(plan)
    BY <1>8 DEF Begun
  <2> QED BY <2>1, <2>2, <1>9
<1> QED BY <1>1, <1>4, <1>5, <1>6, <1>10, <1>11 DEF Swept

LEMMA SpecSwept == Spec => []Swept
<1>1. Swept /\ [Next]_vars => Swept'
  BY SweptKept
<1> QED BY <1>1, InitSwept, PTL DEF Spec

(* A task is decided at most once, also when SLA runs expire and replace   *)
(* tasks between the statements of the decisions, and however many do.     *)
THEOREM DecidedOnceAlways == Spec => DecidedOnce
<1>1. Swept /\ [Next]_vars =>
        \A t \in Tasks : decision[t] # "none" => decision'[t] = decision[t]
  <2> SUFFICES ASSUME Swept, [Next]_vars, NEW t \in Tasks, decision[t] # "none",
                      decision'[t] # decision[t]
               PROVE  FALSE
    OBVIOUS
  <2>1. PICK p \in Deciders : Commit(p)
    BY DEF Next, Elapse, vars, taskVars, Decide, Begin, LockStep, Refuse, Record, Skip,
           Advance, Open, ReserveRefused, DeadlockAbort, Rollback, Sla, SlaBegin, SlaExpire,
           SlaEscalate, SlaNoFallback, SlaAbort
  <2>2. InFlight(p) /\ CommitRows(p)
    BY <2>1 DEF Commit, CommitWaiting, CommitAdvance, CommitClosed, CommitApproved, InFlight
  <2>3. t = tx[p].task
    BY <2>2 DEF CommitRows, Swept, TypeOK
  <2> QED BY <2>2, <2>3, TakesPending DEF Swept, Undecided, OpenStatus
<1> QED BY <1>1, SpecSwept, PTL DEF Spec, DecidedOnce

(* NothingIsOvertaken: a queued row belongs to a later step than every row *)
(* that is begun, whatever SLA runs overwrite and add between.             *)
THEOREM NothingIsOvertakenBesideSla == Spec => []NothingIsOvertaken
<1>1. Swept => NothingIsOvertaken
  BY DEF Swept
<1> QED BY <1>1, SpecSwept, PTL

(***************************************************************************)
(* The replacement rows.                                                   *)
(***************************************************************************)
(* A row once begun is never pending again, so that no later run lists it. *)
Left(t) == Begun(t) /\ status[t] # "pending"
Unreplaced(t) == \A u \in Rows : info[u].origin # t

LEMMA RowsPersist ==
  ASSUME Swept, [Next]_vars, NEW t \in Tasks
  PROVE  /\ t \in Rows => t \in Rows' /\ info'[t] = info[t]
         /\ Left(t) => Left(t)'
         /\ status'[t] = "expired" =>
              \/ status[t] = "expired"
              \/ \E s \in Sweepers : SlaExpire(s, t)
         /\ t \in Rows' /\ t \notin Rows => \E s \in Sweepers, u \in Users : SlaEscalate(s, u) /\ t = NewTask
<1> USE DEF taskVars
<1>1. CASE \E p \in Deciders : Commit(p)
  <2>1. PICK p \in Deciders : InFlight(p) /\ CommitRows(p)
    BY <1>1 DEF Commit, CommitWaiting, CommitAdvance, CommitClosed, CommitApproved, InFlight
  <2> QED BY <2>1, CommittedBegun DEF Left, Rows, CommitRows
<1>2. CASE \E s \in Sweepers, u \in Tasks : SlaExpire(s, u)
  <2>1. PICK s \in Sweepers, u \in Tasks : SlaExpire(s, u)
    BY <1>2
  <2>2. Begun(u) /\ info' = info /\ status' = [status EXCEPT ![u] = "expired"]
    BY <2>1 DEF SlaExpire, Swept, ListsBegun
  <2> QED BY <2>1, <2>2 DEF Left, Begun, Rows, Swept, TypeOK
<1>3. CASE \E s \in Sweepers, u \in Users : SlaEscalate(s, u)
  <2>1. PICK s \in Sweepers, u \in Users : SlaEscalate(s, u)
    BY <1>3
  <2>2. NewTask \in Tasks /\ status[NewTask] = "absent"
    BY <2>1, NewTaskIsFree DEF SlaEscalate, Free, Rows
  <2>3. /\ \A v \in Tasks \ {NewTask} : status'[v] = status[v] /\ info'[v] = info[v]
        /\ status'[NewTask] = "pending"
    BY <2>1, <2>2 DEF SlaEscalate, Swept, TypeOK
  <2> QED BY <2>1, <2>2, <2>3 DEF Left, Begun, Rows
<1>4. CASE UNCHANGED <<info, status>>
  BY <1>4 DEF Left, Begun, Rows
<1>5. \/ \E p \in Deciders : Commit(p)
      \/ \E s \in Sweepers, u \in Tasks : SlaExpire(s, u)
      \/ \E s \in Sweepers, u \in Users : SlaEscalate(s, u)
      \/ UNCHANGED <<info, status>>
  BY DEF Next, Elapse, vars, Decide, Begin, LockStep, Refuse, Record, Skip,
         Advance, Open, ReserveRefused, DeadlockAbort, Rollback, Sla, SlaBegin,
         SlaNoFallback, SlaAbort
<1> QED BY <1>1, <1>2, <1>3, <1>4, <1>5

(* The runs that have still to replace a task.  With the rows made for it  *)
(* already they are no more than the runs there are: a task of which a row *)
(* has been made is not pending again, so that no other run lists it.      *)
Replacers(t) ==
  {s \in Sweepers : \/ t \in sweep[s].todo
                    \/ sweep[s].pc = "escalating" /\ sweep[s].at = t}
Replacing ==
  /\ \A t \in Tasks : Unreplaced(t) \/ Left(t)
  /\ \A t \in Tasks :
       Cardinality(Replacements(t)) + Cardinality(Replacers(t)) <= Cardinality(Sweepers)
  /\ \A s \in Sweepers :
       sweep[s].pc = "escalating" => Left(sweep[s].at) /\ sweep[s].at \notin sweep[s].todo

LEMMA RowsAdded ==
  ASSUME Swept, [Next]_vars,
         \A s \in Sweepers, u \in Users : ~SlaEscalate(s, u)
  PROVE  /\ Rows' = Rows /\ \A u \in Rows : info'[u] = info[u]
         /\ \A t \in Tasks : Unreplaced(t)' <=> Unreplaced(t)
         /\ \A t \in Tasks : Replacements(t)' = Replacements(t)
<1>1. \A t \in Tasks : /\ t \in Rows => t \in Rows' /\ info'[t] = info[t]
                       /\ t \in Rows' => t \in Rows
  BY RowsPersist
<1>2. Rows \subseteq Tasks /\ Rows' \subseteq Tasks
  BY DEF Rows
<1>3. Rows' = Rows /\ \A u \in Rows : info'[u] = info[u]
  BY <1>1, <1>2
<1> QED BY <1>3 DEF Unreplaced, Replacements

(* The numbers behind it: rows are counted, and at most every run is to    *)
(* make one.                                                               *)
LEMMA Counts ==
  ASSUME IsFiniteSet(Sweepers), NEW t \in Tasks
  PROVE  /\ IsFiniteSet(Replacements(t)) /\ Cardinality(Replacements(t)) \in Nat
         /\ IsFiniteSet(Replacers(t)) /\ Cardinality(Replacers(t)) \in Nat
         /\ Cardinality(Sweepers) \in Nat
         /\ Cardinality(Replacers(t)) <= Cardinality(Sweepers)
<1>1. IsFiniteSet(Tasks)
  BY PlansAssumption, FS_Interval DEF Tasks
<1>2. Replacements(t) \subseteq Tasks
  BY DEF Replacements, Rows
<1>3. Replacers(t) \subseteq Sweepers
  BY DEF Replacers
<1> QED BY <1>1, <1>2, <1>3, FS_Subset, FS_CardinalityType

LEMMA FewerReplacers ==
  ASSUME IsFiniteSet(Sweepers), Replacing, NEW t \in Tasks,
         Replacements(t)' = Replacements(t), Replacers(t)' \subseteq Replacers(t)
  PROVE  (Cardinality(Replacements(t)) + Cardinality(Replacers(t)))' <= Cardinality(Sweepers)
<1> DEFINE new == Replacers(t)'
           rows == Replacements(t)'
<1>1. Cardinality(new) <= Cardinality(Replacers(t)) /\ Cardinality(new) \in Nat
  <2> HIDE DEF new
  <2>1. new \subseteq Replacers(t)
    BY DEF new
  <2> QED BY <2>1, Counts, FS_Subset, FS_CardinalityType
<1>2. Cardinality(rows) = Cardinality(Replacements(t))
  OBVIOUS
<1>3. Cardinality(rows) + Cardinality(new) <= Cardinality(Sweepers)
  <2> HIDE DEF new, rows
  <2> QED BY <1>1, <1>2, Counts DEF Replacing
<1> QED BY <1>3

LEMMA ReplacingStep ==
  ASSUME IsFiniteSet(Sweepers), Swept, Replacing, [Next]_vars
  PROVE  Replacing'
<1> DEFINE NowLeft(t) == /\ info'[t].applicable
                         /\ status'[t] \notin {"absent", "queued"} /\ status'[t] # "pending"
           Ready(r, t) == t \in r.todo \/ (r.pc = "escalating" /\ r.at = t)
<1>0. /\ Rows \subseteq Tasks
      /\ \A r \in Sweepers : sweep[r] \in Sweep
      /\ \A r \in Sweepers : sweep[r].todo \subseteq Tasks /\ sweep[r].at \in Tasks
      /\ \A t \in Tasks : Left(t) => NowLeft(t)
      /\ \A t \in Tasks : Left(t)' <=> NowLeft(t)
  BY RowsPersist DEF Rows, Swept, TypeOK, Sweep, Left, Begun
<1>a. \A t : /\ Replacers(t) = {s \in Sweepers : Ready(sweep[s], t)}
             /\ Replacers(t)' = {s \in Sweepers : Ready(sweep'[s], t)}
  BY DEF Replacers
<1>b. \A t \in Tasks : Unreplaced(t) <=> Replacements(t) = {}
  BY DEF Unreplaced, Replacements
<1> HIDE DEF NowLeft
<1>1. CASE \E s \in Sweepers, u \in Users : SlaEscalate(s, u)
  <2>1. PICK s \in Sweepers, w \in Users : SlaEscalate(s, w)
    BY <1>1
  <2> DEFINE n == NewTask
  <2>2. n \in Tasks /\ n \notin Rows
    BY <2>1, NewTaskIsFree DEF SlaEscalate, Free
  <2>3. PICK a \in Tasks : /\ a = sweep[s].at /\ sweep[s].pc = "escalating"
                           /\ Left(a) /\ a \notin sweep[s].todo
    BY <2>1, <1>0 DEF SlaEscalate, Replacing
  <2>4. /\ info'[n] = [info[a] EXCEPT !.approver = w, !.origin = a]
        /\ \A v \in Tasks \ {n} : status'[v] = status[v] /\ info'[v] = info[v]
        /\ status'[n] = "pending" /\ SlaNext(s)
    BY <2>1, <2>2, <2>3 DEF SlaEscalate, Swept, TypeOK
  <2>5. info'[n].origin = a
    <3>1. info[a] \in Info
      BY <2>3 DEF Swept, TypeOK
    <3> QED BY <2>4, <3>1 DEF Info
  <2>6. Rows' = Rows \cup {n}
    BY <2>2, <2>4 DEF Rows
  <2>7. /\ sweep'[s].pc # "escalating" /\ sweep'[s].todo \subseteq sweep[s].todo
        /\ \A r \in Sweepers \ {s} : sweep'[r] = sweep[r]
    <3>1. \A r \in Sweepers \ {s} : sweep'[r] = sweep[r]
      BY <2>4 DEF SlaNext, Swept, TypeOK
    <3> QED BY <2>1, <2>4, <3>1, NextIsListed DEF Swept
  <2> HIDE DEF n
  <2>8. \A u \in Rows : info'[u] = info[u] /\ u # n
    BY <1>0, <2>2, <2>4
  <2>9. ASSUME NEW t \in Tasks, t # a
        PROVE  Replacements(t)' = Replacements(t) /\ (Unreplaced(t)' <=> Unreplaced(t))
    BY <2>5, <2>6, <2>8, <2>9 DEF Unreplaced, Replacements
  <2>10. Replacements(a)' = Replacements(a) \cup {n} /\ n \notin Replacements(a)
    BY <2>2, <2>5, <2>6, <2>8 DEF Replacements
  <2>11. \A t \in Tasks : Unreplaced(t)' \/ Left(t)'
    <3>1. ASSUME NEW t \in Tasks PROVE Unreplaced(t) \/ Left(t)
      BY DEF Replacing
    <3> QED BY <3>1, <2>3, <2>9, <1>0
  <2>12. \A t \in Tasks : Replacers(t)' \subseteq Replacers(t)
    BY <1>a, <2>7
  <2>13. s \in Replacers(a) /\ s \notin Replacers(a)'
    <3>1. Ready(sweep[s], a) /\ ~Ready(sweep'[s], a)
      BY <2>3, <2>7
    <3> QED BY <1>a, <3>1
  <2>14. (Cardinality(Replacements(a)) + Cardinality(Replacers(a)))' <= Cardinality(Sweepers)
    <3> DEFINE left == Replacers(a) \ {s}
               new == Replacers(a)'
               rows == Replacements(a)'
    <3>1. Cardinality(left) = Cardinality(Replacers(a)) - 1 /\ IsFiniteSet(left)
      BY <2>3, <2>13, Counts, FS_RemoveElement
    <3>2. new \subseteq left
      BY <2>3, <2>12, <2>13
    <3>3. Cardinality(rows) = Cardinality(Replacements(a)) + 1
      BY <2>3, <2>10, Counts, FS_AddElement
    <3> HIDE DEF left, new, rows
    <3>4. Cardinality(new) <= Cardinality(left) /\ Cardinality(new) \in Nat
      BY <3>1, <3>2, FS_Subset, FS_CardinalityType
    <3>5. Cardinality(Replacements(a)) + Cardinality(Replacers(a)) <= Cardinality(Sweepers)
      BY <2>3 DEF Replacing
    <3>6. Cardinality(rows) + Cardinality(new) <= Cardinality(Sweepers)
      BY <2>3, <3>1, <3>3, <3>4, <3>5, Counts
    <3> QED BY <3>6 DEF rows, new
  <2>15. \A t \in Tasks :
           (Cardinality(Replacements(t)) + Cardinality(Replacers(t)))' <= Cardinality(Sweepers)
    BY <2>9, <2>12, <2>14, FewerReplacers
  <2>16. \A r \in Sweepers :
           sweep'[r].pc = "escalating" => NowLeft(sweep'[r].at) /\ sweep'[r].at \notin sweep'[r].todo
    BY <1>0, <2>7 DEF Replacing
  <2> QED BY <2>11, <2>15, <2>16 DEF Replacing, Left, Begun, NowLeft
<1>2. CASE \A s \in Sweepers, u \in Users : ~SlaEscalate(s, u)
  <2>1. \A t \in Tasks : /\ Replacements(t)' = Replacements(t)
                         /\ Unreplaced(t)' <=> Unreplaced(t)
    BY <1>2, RowsAdded
  <2>2. \A t \in Tasks : Unreplaced(t)' \/ Left(t)'
    BY <1>0, <2>1 DEF Replacing
  <2>3. ASSUME NEW s \in Sweepers, Sla(s)
        PROVE  /\ \A t \in Tasks : Ready(sweep'[s], t) =>
                                     Ready(sweep[s], t) \/ Unreplaced(t)
               /\ sweep'[s].pc = "escalating" =>
                    NowLeft(sweep'[s].at) /\ sweep'[s].at \notin sweep'[s].todo
               /\ \A r \in Sweepers \ {s} : sweep'[r] = sweep[r]
    <3>0. sweep[s] \in Sweep /\ 1 \in Tasks
      BY PlansAssumption DEF Swept, TypeOK, Tasks
    <3>1. \A r \in Sweepers \ {s} : sweep'[r] = sweep[r]
      BY <2>3 DEF Sla, SlaBegin, SlaExpire, SlaEscalate, SlaNext, SlaNoFallback, SlaAbort,
                  Swept, TypeOK
    <3>2. CASE SlaBegin(s)
      <4>1. sweep'[s].todo = Overdue /\ sweep'[s].pc = "expiring" /\ sweep'[s].at = sweep[s].at
        BY <3>0, <3>2 DEF SlaBegin, Swept, TypeOK, Sweep
      <4>2. \A t \in Overdue : t \in Tasks /\ ~Left(t)
        BY DEF Overdue, Left
      <4> QED BY <4>1, <4>2, <3>1 DEF Replacing
    <3>3. CASE \E t \in Tasks : SlaExpire(s, t)
      <4>1. PICK t \in Tasks : SlaExpire(s, t)
        BY <3>3
      <4>2. sweep'[s].todo = sweep[s].todo \ {t} /\ sweep'[s].at = t /\ t \in sweep[s].todo
        BY <4>1, <3>0 DEF SlaExpire, Swept, TypeOK
      <4>3. NowLeft(t)
        BY <4>1, <4>2 DEF SlaExpire, Swept, TypeOK, ListsBegun, NowLeft, Begun
      <4> QED BY <4>2, <4>3, <3>1
    <3>4. CASE SlaNoFallback(s) \/ SlaAbort(s)
      <4>1. sweep'[s].pc # "escalating" /\ sweep'[s].todo \subseteq sweep[s].todo
        BY <3>4, NextIsListed DEF SlaNoFallback, SlaAbort, Swept
      <4> QED BY <4>1, <3>1
    <3> QED BY <3>2, <3>3, <3>4, <2>3, <1>2 DEF Sla
  <2>4. CASE \E s \in Sweepers : Sla(s)
    <3>1. PICK s \in Sweepers : Sla(s)
      BY <2>4
    <3>2. ASSUME NEW t \in Tasks
          PROVE  (Cardinality(Replacements(t)) + Cardinality(Replacers(t)))' <= Cardinality(Sweepers)
      <4>1. CASE Unreplaced(t)
        <5>1. Replacements(t)' = {}
          BY <1>b, <2>1, <4>1
        <5> DEFINE new == Replacers(t)'
        <5>2. new \subseteq Sweepers
          BY <1>a
        <5> HIDE DEF new
        <5>3. Cardinality(new) <= Cardinality(Sweepers) /\ Cardinality(new) \in Nat
          BY <5>2, FS_Subset, FS_CardinalityType
        <5>4. Cardinality({}) = 0
          BY FS_EmptySet
        <5>5. Cardinality({}) + Cardinality(new) <= Cardinality(Sweepers)
          BY <5>3, <5>4, Counts
        <5> QED BY <5>1, <5>5 DEF new
      <4>2. CASE ~Unreplaced(t)
        <5>1. Replacers(t)' \subseteq Replacers(t)
          BY <1>a, <2>3, <3>1, <4>2
        <5> QED BY <2>1, <5>1, FewerReplacers
      <4> QED BY <4>1, <4>2
    <3>3. \A r \in Sweepers :
            sweep'[r].pc = "escalating" => NowLeft(sweep'[r].at) /\ sweep'[r].at \notin sweep'[r].todo
      BY <1>0, <2>3, <3>1 DEF Replacing
    <3> QED BY <2>2, <3>2, <3>3 DEF Replacing, Left, Begun, NowLeft
  <2>5. CASE sweep' = sweep
    <3>1. \A t \in Tasks : Replacers(t)' \subseteq Replacers(t)
      BY <2>5 DEF Replacers
    <3>2. \A t \in Tasks :
            (Cardinality(Replacements(t)) + Cardinality(Replacers(t)))' <= Cardinality(Sweepers)
      BY <2>1, <3>1, FewerReplacers
    <3>3. \A r \in Sweepers :
            sweep'[r].pc = "escalating" => NowLeft(sweep'[r].at) /\ sweep'[r].at \notin sweep'[r].todo
      BY <1>0, <2>5 DEF Replacing
    <3> QED BY <2>2, <3>2, <3>3 DEF Replacing, Left, Begun, NowLeft
  <2>6. sweep' = sweep \/ \E s \in Sweepers : Sla(s)
    BY DEF Next, Elapse, vars, taskVars, Decide, Begin, LockStep, Refuse, Record, Skip,
           Advance, Open, ReserveRefused, DeadlockAbort, Rollback, Commit, CommitWaiting,
           CommitAdvance, CommitClosed, CommitApproved, CommitRows
  <2> QED BY <2>4, <2>5, <2>6
<1> QED BY <1>1, <1>2

LEMMA InitReplacing == ASSUME IsFiniteSet(Sweepers) PROVE Init => Replacing
<1> SUFFICES ASSUME Init PROVE Replacing
  OBVIOUS
<1>1. \A t \in Tasks : info[t].origin = 0
  BY DEF Init, CreatedInfo, Blank
<1>2. \A t \in Tasks : Unreplaced(t) /\ Replacements(t) = {}
  BY <1>1 DEF Unreplaced, Replacements, Rows, Tasks
<1>3. \A s \in Sweepers : sweep[s] = IdleSweep
  BY DEF Init
<1>4. \A t \in Tasks :
        Cardinality(Replacements(t)) + Cardinality(Replacers(t)) <= Cardinality(Sweepers)
  BY <1>2, Counts, FS_EmptySet
<1> QED BY <1>2, <1>3, <1>4 DEF Replacing, IdleSweep

(* ReplacedPerRun: a task has at most as many replacements as SLA runs may *)
(* overlap, one if they never do, whatever approvers do to the rows they   *)
(* have listed and however often a run is interrupted.                     *)
THEOREM ReplacedOnceByEveryRun ==
  ASSUME IsFiniteSet(Sweepers) PROVE Spec => []ReplacedPerRun
<1>1. Swept /\ Replacing /\ [Next]_vars => Replacing'
  BY ReplacingStep
<1>2. Replacing => ReplacedPerRun
  BY Counts DEF Replacing, ReplacedPerRun
<1> QED BY <1>1, <1>2, InitReplacing, SpecSwept, PTL DEF Spec

(***************************************************************************)
(* A run that is never killed replaces what it expires.                    *)
(***************************************************************************)
ExpiredIsReplaced ==
  \A t \in Tasks :
    status[t] = "expired" /\ Fallback[info[t].approver] # {}
      => \/ Replacements(t) # {}
         \/ \E s \in Sweepers : sweep[s].pc = "escalating" /\ sweep[s].at = t

LEMMA ReplacementsPersist ==
  ASSUME Swept, [Next]_vars, NEW t \in Tasks, Replacements(t) # {}
  PROVE  Replacements(t)' # {}
<1>1. PICK u \in Rows : info[u].origin = t
  BY DEF Replacements
<1>2. u \in Rows' /\ info'[u] = info[u]
  BY <1>1, RowsPersist DEF Rows
<1> QED BY <1>1, <1>2 DEF Replacements

LEMMA EscalatedIsReplaced ==
  ASSUME Swept, NEW s \in Sweepers, NEW w \in Users, SlaEscalate(s, w),
         NEW t \in Tasks, t = sweep[s].at
  PROVE  Replacements(t)' # {}
<1> DEFINE n == NewTask
<1>1. n \in Tasks
  BY NewTaskIsFree DEF SlaEscalate, Free
<1>2. info'[n] = [info[t] EXCEPT !.approver = w, !.origin = t] /\ status'[n] = "pending"
  BY <1>1 DEF SlaEscalate, Swept, TypeOK
<1>3. info[t] \in Info
  BY DEF Swept, TypeOK
<1> HIDE DEF n
<1>4. info'[n].origin = t
  BY <1>2, <1>3 DEF Info
<1>5. n \in Rows'
  BY <1>1, <1>2 DEF Rows
<1> QED BY <1>4, <1>5 DEF Replacements

LEMMA ReplacedStep ==
  ASSUME Swept, ExpiredIsReplaced, [Next]_vars, ~SweepsMayFail
  PROVE  ExpiredIsReplaced'
<1> SUFFICES ASSUME NEW t \in Tasks, status'[t] = "expired", Fallback[info'[t].approver] # {},
                    Replacements(t)' = {}
             PROVE  \E s \in Sweepers : sweep'[s].pc = "escalating" /\ sweep'[s].at = t
  BY DEF ExpiredIsReplaced
<1>1. CASE \E s \in Sweepers : SlaExpire(s, t)
  BY <1>1 DEF SlaExpire, Swept, TypeOK
<1>2. CASE status[t] = "expired"
  <2>1. info'[t] = info[t] /\ Replacements(t) = {}
    BY <1>2, RowsPersist, ReplacementsPersist DEF Rows
  <2>2. PICK s \in Sweepers : sweep[s].pc = "escalating" /\ sweep[s].at = t
    BY <1>2, <2>1 DEF ExpiredIsReplaced
  <2>3. CASE sweep'[s] = sweep[s]
    BY <2>2, <2>3
  <2>4. CASE Sla(s)
    <3>1. \A w \in Users : ~SlaEscalate(s, w)
      BY <2>2, EscalatedIsReplaced
    <3>2. ~SlaNoFallback(s)
      BY <2>1, <2>2 DEF SlaNoFallback
    <3> QED BY <2>2, <2>4, <3>1, <3>2 DEF Sla, SlaBegin, SlaExpire, SlaAbort
  <2>5. CASE \E r \in Sweepers \ {s} : Sla(r)
    <3>1. PICK r \in Sweepers \ {s} : Sla(r)
      BY <2>5
    <3>2. sweep'[s] = sweep[s]
      BY <3>1 DEF Sla, SlaBegin, SlaExpire, SlaEscalate, SlaNext, SlaNoFallback, SlaAbort,
                  Swept, TypeOK
    <3> QED BY <2>2, <3>2
  <2>6. sweep' = sweep \/ \E r \in Sweepers : Sla(r)
    BY DEF Next, Elapse, vars, taskVars, Decide, Begin, LockStep, Refuse, Record, Skip,
           Advance, Open, ReserveRefused, DeadlockAbort, Rollback, Commit, CommitWaiting,
           CommitAdvance, CommitClosed, CommitApproved, CommitRows
  <2> QED BY <2>3, <2>4, <2>5, <2>6
<1> QED BY <1>1, <1>2, RowsPersist

(* An expired task that has somebody to go to is replaced, or is being     *)
(* replaced, as long as no run is killed half-way: however many runs there *)
(* are, and whatever the approvers do meanwhile.                           *)
THEOREM ExpiredIsReplacedByEveryRun ==
  ASSUME ~SweepsMayFail PROVE Spec => []ExpiredIsReplaced
<1>1. Init => ExpiredIsReplaced
  <2> SUFFICES ASSUME Init, NEW t \in Tasks PROVE status[t] # "expired"
    BY DEF ExpiredIsReplaced
  <2> QED BY DEF Init, CreatedStatus
<1>2. Swept /\ ExpiredIsReplaced /\ [Next]_vars => ExpiredIsReplaced'
  BY ReplacedStep
<1> QED BY <1>1, <1>2, SpecSwept, PTL DEF Spec

(***************************************************************************)
(* One approver at a time, beside any number of SLA runs.                  *)
(***************************************************************************)
(* A decision under way finds the instance active, and as it read it.      *)
Alone ==
  /\ RequestMirrorsInstance
  /\ \A p \in Deciders : InFlight(p) => inst \in ActiveInstance /\ tx[p].seenInst = inst

OneDecider == \A p, q \in Deciders : p = q

LEMMA AloneStep ==
  ASSUME OneDecider, TypeOK, Alone, [Next]_vars
  PROVE  Alone' /\ (inst \in Outcomes => inst' = inst /\ pr' = pr)
<1>0. /\ inst \in InstanceStatus /\ pr.at \in {"staged"} \cup Outcomes
      /\ ActiveInstance \cap Outcomes = {} /\ "staged" \notin Outcomes
      /\ \A p \in Deciders : tx[p].act \in Acts
  BY DEF TypeOK, RequestStatus, Terminal, ActiveInstance, Outcomes, Tx
<1>1. CASE \E p \in Deciders : Commit(p)
  <2>1. PICK p \in Deciders : Commit(p)
    BY <1>1
  <2>2. InFlight(p) /\ inst \in ActiveInstance /\ pr.at = "staged"
    BY <2>1, <1>0 DEF Commit, CommitWaiting, CommitAdvance, CommitClosed, CommitApproved,
                      InFlight, Alone, RequestMirrorsInstance
  <2>3. \A q \in Deciders : ~InFlight(q)'
    <3>1. tx'[p] = IdleTx /\ IdleTx.pc = "idle"
      BY <2>1 DEF Commit, CommitWaiting, CommitAdvance, CommitClosed, CommitApproved,
                  CommitRows, IdleTx, TypeOK
    <3> QED BY <3>1 DEF InFlight, OneDecider
  <2>4. RequestMirrorsInstance'
    <3>1. CASE CommitWaiting(p) \/ CommitAdvance(p)
      <4>1. inst' \in ActiveInstance /\ pr'.at = "staged"
        BY <3>1, <2>2 DEF CommitWaiting, CommitAdvance, Proceed, Staged, ActiveInstance
      <4> QED BY <4>1, <1>0 DEF RequestMirrorsInstance
    <3>2. CASE CommitClosed(p) \/ CommitApproved(p)
      BY <3>2 DEF CommitClosed, CommitApproved, Ended, RequestMirrorsInstance
    <3> QED BY <2>1, <3>1, <3>2 DEF Commit
  <2> QED BY <2>2, <2>3, <2>4, <1>0 DEF Alone
<1>2. CASE \E p \in Deciders : LockStep(p)
  <2>1. PICK p \in Deciders : LockStep(p)
    BY <1>2
  <2>2. inst \in ActiveInstance /\ tx'[p].seenInst = inst /\ UNCHANGED <<inst, pr>>
    BY <2>1, <1>0 DEF LockStep, Decidable, TypeOK, Tx
  <2>3. \A q \in Deciders : q = p
    BY DEF OneDecider
  <2> QED BY <2>2, <2>3, <1>0 DEF Alone, RequestMirrorsInstance
<1>3. CASE UNCHANGED <<inst, pr>> /\ \A p \in Deciders :
             InFlight(p)' => InFlight(p) /\ tx'[p].seenInst = tx[p].seenInst
  BY <1>3 DEF Alone, RequestMirrorsInstance
<1>4. \/ \E p \in Deciders : Commit(p) \/ LockStep(p)
      \/ UNCHANGED <<inst, pr>> /\ \A p \in Deciders :
             InFlight(p)' => InFlight(p) /\ tx'[p].seenInst = tx[p].seenInst
  <2>1. CASE \E p \in Deciders : Decide(p)
    <3>1. PICK p \in Deciders : Decide(p)
      BY <2>1
    <3>2. \A q \in Deciders : q = p
      BY DEF OneDecider
    <3>3. CASE Commit(p) \/ LockStep(p)
      BY <3>3
    <3>4. CASE ~Commit(p) /\ ~LockStep(p)
      <4>1. UNCHANGED <<inst, pr>>
        BY <3>1, <3>4 DEF Decide, Begin, Refuse, Record, Skip, Advance, Open, ReserveRefused,
                          DeadlockAbort, Rollback
      <4>2. CASE \/ \E t \in Tasks, act \in Acts : Begin(p, t, act)
                 \/ Refuse(p) \/ ReserveRefused(p) \/ DeadlockAbort(p)
        <5>1. \/ tx'[p] = IdleTx
              \/ \E t \in Tasks, act \in Acts :
                   tx'[p] = [IdleTx EXCEPT !.pc = "asked", !.task = t, !.act = act]
          BY <4>2 DEF Begin, Refuse, ReserveRefused, DeadlockAbort, Rollback, TypeOK
        <5>2. IdleTx.pc = "idle" /\ IdleTx \in Tx
          BY IdleTypes DEF IdleTx
        <5>3. tx'[p].pc \in {"idle", "asked"}
          BY <5>1, <5>2 DEF Tx
        <5> QED BY <5>3, <4>1, <3>2 DEF InFlight
      <4>3. CASE Record(p) \/ Skip(p) \/ Advance(p) \/ Open(p)
        <5>1. InFlight(p) /\ tx[p] \in Tx
          BY <4>3 DEF Record, Skip, Advance, Open, InFlight, TypeOK
        <5>2. tx'[p].seenInst = tx[p].seenInst
          <6>1. CASE Record(p)
            BY <6>1, <5>1 DEF Record, TypeOK, Tx
          <6>2. CASE Skip(p)
            BY <6>2, <5>1 DEF Skip, TypeOK, Tx
          <6>3. CASE Advance(p)
            <7>1. \/ tx' = [tx EXCEPT ![p].pc = "approving"]
                  \/ tx' = [tx EXCEPT ![p] = [tx[p] EXCEPT
                       !.pc = "opening", !.next = NextTask(p), !.todo = OpenList(p)]]
              BY <6>3 DEF Advance
            <7> DEFINE r == tx[p]
            <7>2. \/ tx'[p] = [r EXCEPT !.pc = "approving"]
                  \/ tx'[p] = [r EXCEPT
                       !.pc = "opening", !.next = NextTask(p), !.todo = OpenList(p)]
              BY <7>1 DEF TypeOK
            <7>3. r \in Tx
              BY <5>1
            <7> HIDE DEF r
            <7>4. tx'[p].seenInst = r.seenInst
              BY <7>2, <7>3 DEF Tx
            <7> QED BY <7>4 DEF r
          <6>4. CASE Open(p)
            BY <6>4, <5>1 DEF Open, TypeOK, Tx
          <6> QED BY <4>3, <6>1, <6>2, <6>3, <6>4
        <5> QED BY <5>1, <5>2, <4>1, <3>2
      <4> QED BY <3>1, <3>4, <4>2, <4>3 DEF Decide
    <3> QED BY <3>3, <3>4
  <2>2. CASE ~\E p \in Deciders : Decide(p)
    <3>1. UNCHANGED <<inst, pr, tx>>
      BY <2>2 DEF Next, Elapse, vars, Sla, SlaBegin, SlaExpire, SlaEscalate, SlaNoFallback,
                  SlaAbort
    <3> QED BY <3>1 DEF InFlight
  <2> QED BY <2>1, <2>2
<1> QED BY <1>1, <1>2, <1>3, <1>4

LEMMA SpecAlone == ASSUME OneDecider PROVE Spec => []Alone
<1>1. Init => Alone
  BY DEF Init, Alone, RequestMirrorsInstance, Staged, Outcomes, InFlight, IdleTx
<1>2. TypeOK /\ Alone /\ [Next]_vars => Alone'
  BY AloneStep
<1> QED BY <1>1, <1>2, TypeCorrect, PTL DEF Spec

(* With one approver at a time the outcome of an instance is final ...     *)
THEOREM FinalForOneApprover ==
  ASSUME OneDecider PROVE Spec => TerminalIsFinal
<1>1. TypeOK /\ Alone /\ [Next]_vars => (inst \in Outcomes => inst' = inst /\ pr' = pr)
  BY AloneStep
<1> QED BY <1>1, TypeCorrect, SpecAlone, PTL DEF Spec, TerminalIsFinal

(* ... and the request's is the same, whatever the SLA runs do.            *)
THEOREM MirroredForOneApprover ==
  ASSUME OneDecider PROVE Spec => []RequestMirrorsInstance
<1>1. Alone => RequestMirrorsInstance
  BY DEF Alone
<1> QED BY <1>1, SpecAlone, PTL
================================================================================
