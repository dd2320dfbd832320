------------------------- MODULE WorkflowCanvas_proofs -------------------------
(***************************************************************************)
(* Proofs about WorkflowCanvas, for any cards, pointers, movements and     *)
(* sizes; where it is said, for a browser with one tab on the workflow.    *)
(***************************************************************************)
EXTENDS WorkflowCanvas, TLAPS

(***************************************************************************)
(* Geometry.                                                               *)
(***************************************************************************)
(* A dragged card's place is whole numbers.                                *)
LEMMA DraggedType ==
  ASSUME NEW n \in Nodes, NEW from \in Place, NEW by \in Place
  PROVE  Dragged(n, from, by) \in Place
<1>1. Size[n].w \in Nat /\ Size[n].h \in Nat
  BY CanvasAssumption
<1>2. WorldWidth \in Int /\ WorldHeight \in Int
  BY CanvasAssumption
<1>3. from.x + by.x \in Int /\ from.y + by.y \in Int
  BY DEF Place
<1>4. \A v, lo, hi \in Int : Limit(v, lo, hi) \in Int
  BY DEF Limit, Least, Greatest
<1>5. /\ WorldWidth - Size[n].w - MarginX \in Int
      /\ WorldHeight - Size[n].h - MarginY \in Int
      /\ MarginX \in Int /\ MarginY \in Int
  BY <1>1, <1>2 DEF MarginX, MarginY
<1> QED
  BY <1>3, <1>4, <1>5 DEF Dragged, Place

(* So is a snapped one's.                                                  *)
LEMMA SnappedType == \A place \in Place : Snapped(place) \in Place
BY DEF Snapped, Snap, Grid, Place

(* A layout stays one when a card is put elsewhere.                        *)
LEMMA LayoutExcept ==
  ASSUME NEW layout \in Layout, NEW n \in Nodes, NEW place \in Place
  PROVE  [layout EXCEPT ![n] = place] \in Layout
BY DEF Layout

LEMMA DrawnType ==
  ASSUME TypeOK, NEW t \in Tabs, NEW layout \in Layout
  PROVE  Drawn(t, layout) \in Drawing
BY DEF Drawn, Drawing, TypeOK

LEMMA DefaultType == Default \in Layout
BY CanvasAssumption

LEMMA SavedType == TypeOK => SavedPositions \in Layout
BY DefaultType DEF TypeOK, SavedPositions

(***************************************************************************)
(* Types.                                                                  *)
(***************************************************************************)
LEMMA TypeInit == Init => TypeOK
BY DefaultType DEF Init, TypeOK, NoDrag, Nobody

(* The end of a drag leaves the types as they are.                         *)
LEMMA FinishTypes ==
  ASSUME TypeOK, NEW t \in Tabs, NEW n \in Nodes, FinishDrag(t, n)
  PROVE  /\ pos' \in [Tabs -> Layout] /\ edges' \in [Tabs -> Drawing \cup {None}]
         /\ drag' \in [Tabs -> [Nodes -> Place \cup {None}]]
         /\ storage' \in Layout \cup {None}
<1> DEFINE layout == [pos[t] EXCEPT ![n] = Snapped(pos[t][n])]
<1>1. pos[t] \in Layout /\ pos[t][n] \in Place
  BY DEF TypeOK, Layout
<1>2. layout \in Layout
  BY <1>1, SnappedType, LayoutExcept
<1>3. Drawn(t, layout) \in Drawing
  BY <1>2, DrawnType
<1>4. /\ pos' = [pos EXCEPT ![t] = layout]
      /\ edges' = [edges EXCEPT ![t] = Drawn(t, layout)]
      /\ drag' = [drag EXCEPT ![t][n] = None]
      /\ storage' \in {layout, storage}
  BY DEF FinishDrag, SavePositions
<1> HIDE DEF layout
<1> QED
  BY <1>2, <1>3, <1>4 DEF TypeOK

LEMMA TypeStep == TypeOK /\ [Next]_vars => TypeOK'
<1> SUFFICES ASSUME TypeOK, [Next]_vars PROVE TypeOK'
  OBVIOUS
<1> USE DEF TypeOK
<1>1. ASSUME NEW t \in Tabs, NEW how \in Openings, Open(t, how) PROVE TypeOK'
  <2> DEFINE html == IF how = "back" THEN copy[t]
                     ELSE [marked |-> FALSE, pos |-> Default, edges |-> None]
  <2>1. html \in Copy
    BY <1>1, DefaultType DEF Open, Copy
  <2>2. html.marked \in BOOLEAN /\ html.pos \in Layout /\ html.edges \in Drawing \cup {None}
    BY <2>1 DEF Copy
  <2>3. Callings(how) \subseteq Callers
    BY DEF Callings, Callers
  <2>4. /\ page' = [page EXCEPT ![t] = IF how = "back" THEN "restored" ELSE "new"]
        /\ marked' = [marked EXCEPT ![t] = html.marked]
        /\ pos' = [pos EXCEPT ![t] = html.pos]
        /\ edges' = [edges EXCEPT ![t] = html.edges]
        /\ calls' = [calls EXCEPT ![t] = Callings(how)]
        /\ copy' = [copy EXCEPT ![t] = None]
        /\ UNCHANGED <<bound, folded, drag, held, pan, redraw, storage, works>>
    BY <1>1 DEF Open
  <2> HIDE DEF html
  <2> QED
    BY <2>2, <2>3, <2>4
<1>2. ASSUME NEW t \in Tabs, Leave(t) PROVE TypeOK'
  <2>1. [marked |-> marked[t], pos |-> pos[t], edges |-> edges[t]] \in Copy
    BY DEF Copy
  <2>2. NoDrag \in [Nodes -> Place \cup {None}]
    BY DEF NoDrag
  <2>3. Nobody \in [Pointers -> Nodes \cup {"canvas", None}]
    BY DEF Nobody
  <2> QED
    BY <1>2, <2>1, <2>2, <2>3, DefaultType DEF Leave
<1>3. ASSUME NEW t \in Tabs, Rerender(t) PROVE TypeOK'
  BY <1>3, DefaultType DEF Rerender
<1>4. ASSUME NEW t \in Tabs, Fold(t) PROVE TypeOK'
  BY <1>4 DEF Fold, Resized
<1>5. ASSUME NEW t \in Tabs, Frame(t) PROVE TypeOK'
  BY <1>5, DrawnType DEF Frame, tabVars
<1>6. ASSUME NEW t \in Tabs, NEW caller \in Callers, AlreadyInitialized(t, caller)
      PROVE TypeOK'
  BY <1>6 DEF AlreadyInitialized
<1>7. ASSUME NEW t \in Tabs, NEW caller \in Callers, Initialize(t, caller) PROVE TypeOK'
  BY <1>7, SavedType DEF Initialize, Mark
<1>8. ASSUME NEW t \in Tabs, NEW p \in Pointers, NEW n \in Nodes, TakeNode(t, p, n)
      PROVE TypeOK'
  <2>1. pos[t][n] \in Place
    BY DEF Layout
  <2> QED
    BY <1>8, <2>1 DEF TakeNode, tabVars
<1>9. ASSUME NEW t \in Tabs, NEW n \in Nodes, MoveNode(t, n) PROVE TypeOK'
  <2>1. PICK by \in Deltas :
          LET layout == [pos[t] EXCEPT ![n] = Dragged(n, drag[t][n], by)]
          IN /\ pos' = [pos EXCEPT ![t] = layout]
             /\ edges' = [edges EXCEPT ![t] = Drawn(t, layout)]
    BY <1>9 DEF MoveNode
  <2> DEFINE layout == [pos[t] EXCEPT ![n] = Dragged(n, drag[t][n], by)]
  <2>2. drag[t][n] \in Place /\ by \in Place
    BY <1>9, CanvasAssumption DEF MoveNode
  <2>3. layout \in Layout
    BY <2>2, DraggedType, LayoutExcept
  <2>4. Drawn(t, layout) \in Drawing
    BY <2>3, DrawnType
  <2>5. /\ pos' = [pos EXCEPT ![t] = layout]
        /\ edges' = [edges EXCEPT ![t] = Drawn(t, layout)]
    BY <2>1
  <2> HIDE DEF layout
  <2> QED
    BY <1>9, <2>3, <2>4, <2>5 DEF MoveNode, tabVars
<1>10. ASSUME NEW t \in Tabs, NEW p \in Pointers, TakeCanvas(t, p) PROVE TypeOK'
  BY <1>10 DEF TakeCanvas, tabVars
<1>11. ASSUME NEW t \in Tabs, NEW p \in Pointers, NEW event \in PointerEnds,
              Release(t, p, event)
       PROVE TypeOK'
  <2>1. /\ pos' \in [Tabs -> Layout] /\ edges' \in [Tabs -> Drawing \cup {None}]
        /\ drag' \in [Tabs -> [Nodes -> Place \cup {None}]]
        /\ storage' \in Layout \cup {None}
    <3>1. CASE held[t][p] \in Nodes /\ FinishDrag(t, held[t][p])
      BY <3>1, FinishTypes
    <3>2. CASE UNCHANGED <<pos, edges, drag, storage>>
      BY <3>2
    <3> QED
      BY <1>11, <3>1, <3>2 DEF Release
  <2> QED
    BY <1>11, <2>1 DEF Release, tabVars
<1>12. ASSUME NEW t \in Tabs, Reset(t) PROVE TypeOK'
  BY <1>12, DefaultType DEF Reset, tabVars
<1>13. CASE UNCHANGED vars
  BY <1>13 DEF vars
<1> QED
  BY <1>1, <1>2, <1>3, <1>4, <1>5, <1>6, <1>7, <1>8, <1>9, <1>10, <1>11, <1>12, <1>13
     DEF Next

(* The types of the canvas: a card always is somewhere, also after limits, *)
(* grid and stored layouts (TypeOK).                                       *)
THEOREM CanvasTypes == Spec => []TypeOK
<1>1. TypeOK /\ [Next]_vars => TypeOK'
  BY TypeStep
<1> QED
  BY TypeInit, <1>1, PTL DEF Spec

(***************************************************************************)
(* Listeners.                                                              *)
(***************************************************************************)
(* An element that waits for its first call has no listeners, and a tab    *)
(* that shows something else has neither; what is dragged has listeners.   *)
BoundRight ==
  \A t \in Tabs :
    /\ page[t] = "other" => bound[t] = 0 /\ calls[t] = {}
    /\ calls[t] # {} /\ ~marked[t] => bound[t] = 0
    /\ bound[t] \in {0, 1}

LEMMA BoundStep == TypeOK /\ BoundRight /\ [Next]_vars => BoundRight'
<1> SUFFICES ASSUME TypeOK, BoundRight, [Next]_vars PROVE BoundRight'
  OBVIOUS
<1> USE DEF TypeOK, BoundRight
<1>1. ASSUME NEW t \in Tabs, NEW how \in Openings, Open(t, how) PROVE BoundRight'
  BY <1>1 DEF Open
<1>2. ASSUME NEW t \in Tabs, Leave(t) PROVE BoundRight'
  BY <1>2 DEF Leave
<1>3. ASSUME NEW t \in Tabs, Rerender(t) PROVE BoundRight'
  BY <1>3 DEF Rerender
<1>4. ASSUME NEW t \in Tabs, Fold(t) PROVE BoundRight'
  BY <1>4 DEF Fold, Resized
<1>5. ASSUME NEW t \in Tabs, Frame(t) PROVE BoundRight'
  BY <1>5 DEF Frame, tabVars
<1>6. ASSUME NEW t \in Tabs, NEW caller \in Callers, AlreadyInitialized(t, caller)
      PROVE BoundRight'
  BY <1>6 DEF AlreadyInitialized
<1>7. ASSUME NEW t \in Tabs, NEW caller \in Callers, Initialize(t, caller)
      PROVE BoundRight'
  BY <1>7 DEF Initialize, Mark
<1>8. ASSUME NEW t \in Tabs, NEW p \in Pointers, NEW n \in Nodes, TakeNode(t, p, n)
      PROVE BoundRight'
  BY <1>8 DEF TakeNode, tabVars, Usable, Shown
<1>9. ASSUME NEW t \in Tabs, NEW n \in Nodes, MoveNode(t, n) PROVE BoundRight'
  BY <1>9 DEF MoveNode, tabVars, Usable, Shown
<1>10. ASSUME NEW t \in Tabs, NEW p \in Pointers, TakeCanvas(t, p) PROVE BoundRight'
  BY <1>10 DEF TakeCanvas, tabVars, Usable, Shown
<1>11. ASSUME NEW t \in Tabs, NEW p \in Pointers, NEW event \in PointerEnds, Release(t, p, event)
      PROVE BoundRight'
  BY <1>11 DEF Release, tabVars, Shown
<1>12. ASSUME NEW t \in Tabs, Reset(t) PROVE BoundRight'
  BY <1>12 DEF Reset, tabVars, Usable, Shown
<1>13. CASE UNCHANGED vars
  BY <1>13 DEF vars
<1> QED
  BY <1>1, <1>2, <1>3, <1>4, <1>5, <1>6, <1>7, <1>8, <1>9, <1>10, <1>11, <1>12, <1>13
     DEF Next

(* No canvas has its listeners bound twice (ListenersOnce), whoever calls  *)
(* initializeWorkflowCanvases and however the page changes.                *)
THEOREM BoundOnce == Spec => []ListenersOnce
<1>1. Init => BoundRight
  BY DEF Init, BoundRight
<1>2. BoundRight => ListenersOnce
  <2>1. \A n \in {0, 1} : n <= 1
    OBVIOUS
  <2> QED
    BY <2>1 DEF BoundRight, ListenersOnce
<1>3. TypeOK /\ [Next]_vars => TypeOK'
  BY TypeStep
<1>4. TypeOK /\ BoundRight /\ [Next]_vars => BoundRight'
  BY BoundStep
<1> QED
  BY TypeInit, <1>1, <1>2, <1>3, <1>4, PTL DEF Spec

(***************************************************************************)
(* Pointers.                                                               *)
(***************************************************************************)
LEMMA HeldStep == TypeOK /\ HeldWhileDragged /\ [Next]_vars => HeldWhileDragged'
<1> SUFFICES ASSUME TypeOK, HeldWhileDragged, [Next]_vars PROVE HeldWhileDragged'
  OBVIOUS
<1> USE DEF TypeOK, HeldWhileDragged
<1>1. ASSUME NEW t \in Tabs, NEW how \in Openings, Open(t, how)
      PROVE HeldWhileDragged'
  BY <1>1 DEF Open
<1>2. ASSUME NEW t \in Tabs, Leave(t) PROVE HeldWhileDragged'
  BY <1>2 DEF Leave, NoDrag
<1>3. ASSUME NEW t \in Tabs, Rerender(t) PROVE HeldWhileDragged'
  BY <1>3 DEF Rerender
<1>4. ASSUME NEW t \in Tabs, Fold(t) PROVE HeldWhileDragged'
  BY <1>4 DEF Fold, Resized
<1>5. ASSUME NEW t \in Tabs, Frame(t) PROVE HeldWhileDragged'
  BY <1>5 DEF Frame, tabVars
<1>6. ASSUME NEW t \in Tabs, NEW caller \in Callers, AlreadyInitialized(t, caller)
      PROVE HeldWhileDragged'
  BY <1>6 DEF AlreadyInitialized
<1>7. ASSUME NEW t \in Tabs, NEW caller \in Callers, Initialize(t, caller)
      PROVE HeldWhileDragged'
  BY <1>7 DEF Initialize, Mark
<1>8. ASSUME NEW t \in Tabs, NEW p \in Pointers, NEW n \in Nodes, TakeNode(t, p, n)
      PROVE HeldWhileDragged'
  <2>1. \A u \in Tabs, q \in Pointers :
          held'[u][q] = IF u = t /\ q = p THEN n ELSE held[u][q]
    BY <1>8 DEF TakeNode
  <2>2. \A u \in Tabs, m \in Nodes :
          drag'[u][m] # None => drag[u][m] # None \/ (u = t /\ m = n)
    BY <1>8 DEF TakeNode, tabVars
  <2>3. \A u \in Tabs : pan'[u] => pan[u]
    BY <1>8 DEF TakeNode, tabVars
  <2>4. ASSUME NEW u \in Tabs, NEW m \in Nodes, drag'[u][m] # None
        PROVE  \E q \in Pointers : held'[u][q] = m
    <3>1. CASE u = t /\ held'[t][p] = m
      BY <3>1
    <3>2. CASE drag[u][m] # None
      <4>1. PICK q \in Pointers : held[u][q] = m
        BY <3>2
      <4>2. ~(u = t /\ q = p)
        BY <1>8, <4>1, CanvasAssumption DEF TakeNode
      <4> QED
        BY <2>1, <4>1, <4>2
    <3> QED
      BY <2>1, <2>2, <2>4, <3>1, <3>2
  <2>5. ASSUME NEW u \in Tabs, pan'[u]
        PROVE  \E q \in Pointers : held'[u][q] = "canvas"
    <3>1. CASE u = t /\ held'[t][p] = "canvas"
      BY <3>1
    <3>2. CASE pan[u]
      <4>1. PICK q \in Pointers : held[u][q] = "canvas"
        BY <3>2
      <4>2. ~(u = t /\ q = p)
        BY <1>8, <4>1, CanvasAssumption DEF TakeNode
      <4> QED
        BY <2>1, <4>1, <4>2
    <3> QED
      BY <2>1, <2>3, <2>5, <3>1, <3>2
  <2> QED
    BY <2>4, <2>5
<1>9. ASSUME NEW t \in Tabs, NEW n \in Nodes, MoveNode(t, n) PROVE HeldWhileDragged'
  BY <1>9 DEF MoveNode, tabVars, Usable, Shown
<1>10. ASSUME NEW t \in Tabs, NEW p \in Pointers, TakeCanvas(t, p)
      PROVE HeldWhileDragged'
  <2>1. \A u \in Tabs, q \in Pointers :
          held'[u][q] = IF u = t /\ q = p THEN "canvas" ELSE held[u][q]
    BY <1>10 DEF TakeCanvas
  <2>2. \A u \in Tabs, m \in Nodes :
          drag'[u][m] # None => drag[u][m] # None
    BY <1>10 DEF TakeCanvas, tabVars
  <2>3. \A u \in Tabs : pan'[u] => pan[u] \/ u = t
    BY <1>10 DEF TakeCanvas, tabVars
  <2>4. ASSUME NEW u \in Tabs, NEW m \in Nodes, drag'[u][m] # None
        PROVE  \E q \in Pointers : held'[u][q] = m
    <3>1. CASE u = t /\ held'[t][p] = m
      BY <3>1
    <3>2. CASE drag[u][m] # None
      <4>1. PICK q \in Pointers : held[u][q] = m
        BY <3>2
      <4>2. ~(u = t /\ q = p)
        BY <1>10, <4>1, CanvasAssumption DEF TakeCanvas
      <4> QED
        BY <2>1, <4>1, <4>2
    <3> QED
      BY <2>1, <2>2, <2>4, <3>1, <3>2
  <2>5. ASSUME NEW u \in Tabs, pan'[u]
        PROVE  \E q \in Pointers : held'[u][q] = "canvas"
    <3>1. CASE u = t /\ held'[t][p] = "canvas"
      BY <3>1
    <3>2. CASE pan[u]
      <4>1. PICK q \in Pointers : held[u][q] = "canvas"
        BY <3>2
      <4>2. ~(u = t /\ q = p)
        BY <1>10, <4>1, CanvasAssumption DEF TakeCanvas
      <4> QED
        BY <2>1, <4>1, <4>2
    <3> QED
      BY <2>1, <2>3, <2>5, <3>1, <3>2
  <2> QED
    BY <2>4, <2>5
<1>11. ASSUME NEW t \in Tabs, NEW p \in Pointers, NEW event \in PointerEnds, Release(t, p, event)
      PROVE HeldWhileDragged'
  <2>1. \A u \in Tabs, q \in Pointers :
          held'[u][q] = IF u = t /\ q = p THEN None ELSE held[u][q]
    BY <1>11 DEF Release
  <2>2. event = "pointerup" \/ event = "pointercancel"
    BY DEF PointerEnds
  <2>3. pan' = [pan EXCEPT ![t] = FALSE] /\ Ends(event)
    BY <1>11, <2>2 DEF Release, Ends, PointerEnds
  <2>4. \A u \in Tabs, n \in Nodes :
          drag'[u][n] # None => drag[u][n] # None /\ ~(u = t /\ held[t][p] = n)
    <3>1. CASE held[t][p] \in Nodes /\ drag[t][held[t][p]] # None
      <4>1. drag' = [drag EXCEPT ![t][held[t][p]] = None]
        BY <1>11, <2>3, <3>1 DEF Release, FinishDrag
      <4> QED
        BY <3>1, <4>1
    <3>2. CASE ~(held[t][p] \in Nodes /\ drag[t][held[t][p]] # None)
      <4>1. drag' = drag
        BY <1>11, <2>3, <3>2 DEF Release
      <4> QED
        BY <3>2, <4>1
    <3> QED
      BY <3>1, <3>2
  <2>5. ASSUME NEW u \in Tabs, NEW n \in Nodes, drag'[u][n] # None
        PROVE  \E q \in Pointers : held'[u][q] = n
    <3>1. PICK q \in Pointers : held[u][q] = n
      BY <2>4, <2>5
    <3> QED
      BY <2>1, <2>4, <2>5, <3>1
  <2>6. ASSUME NEW u \in Tabs, pan'[u]
        PROVE  \E q \in Pointers : held'[u][q] = "canvas"
    <3>1. u # t /\ pan[u]
      BY <2>3, <2>6
    <3>2. PICK q \in Pointers : held[u][q] = "canvas"
      BY <3>1
    <3> QED
      BY <2>1, <3>1, <3>2
  <2> QED
    BY <2>5, <2>6
<1>12. ASSUME NEW t \in Tabs, Reset(t) PROVE HeldWhileDragged'
  BY <1>12 DEF Reset, tabVars, Usable, Shown
<1>13. CASE UNCHANGED vars
  BY <1>13 DEF vars
<1> QED
  BY <1>1, <1>2, <1>3, <1>4, <1>5, <1>6, <1>7, <1>8, <1>9, <1>10, <1>11, <1>12, <1>13
     DEF Next

(* What is dragged is in a hand (HeldWhileDragged), for any number of      *)
(* pointers and cards.                                                     *)
THEOREM NothingSticks == Spec => []HeldWhileDragged
<1>1. Init => HeldWhileDragged
  <2> SUFFICES ASSUME Init PROVE HeldWhileDragged
    OBVIOUS
  <2>1. \A t \in Tabs : pan[t] = FALSE /\ drag[t] = NoDrag
    BY DEF Init
  <2>2. \A n \in Nodes : NoDrag[n] = None
    BY DEF NoDrag
  <2> QED
    BY <2>1, <2>2 DEF HeldWhileDragged
<1>2. TypeOK /\ [Next]_vars => TypeOK'
  BY TypeStep
<1>3. TypeOK /\ HeldWhileDragged /\ [Next]_vars => HeldWhileDragged'
  BY HeldStep
<1> QED
  BY TypeInit, <1>1, <1>2, <1>3, PTL DEF Spec

(***************************************************************************)
(* Arrows.                                                                 *)
(***************************************************************************)
LEMMA EdgesStep == TypeOK /\ BoundRight /\ EdgesFollow /\ [Next]_vars => EdgesFollow'
<1> SUFFICES ASSUME TypeOK, BoundRight, EdgesFollow, [Next]_vars PROVE EdgesFollow'
  OBVIOUS
<1> USE DEF TypeOK, BoundRight, EdgesFollow, Intact, Drawn
<1>1. ASSUME NEW t \in Tabs, NEW how \in Openings, Open(t, how) PROVE EdgesFollow'
  BY <1>1 DEF Open
<1>2. ASSUME NEW t \in Tabs, Leave(t) PROVE EdgesFollow'
  BY <1>2 DEF Leave
<1>3. ASSUME NEW t \in Tabs, Rerender(t) PROVE EdgesFollow'
  BY <1>3 DEF Rerender
<1>4. ASSUME NEW t \in Tabs, Fold(t) PROVE EdgesFollow'
  BY <1>4 DEF Fold, Resized
<1>5. ASSUME NEW t \in Tabs, Frame(t) PROVE EdgesFollow'
  BY <1>5 DEF Frame, tabVars
<1>6. ASSUME NEW t \in Tabs, NEW caller \in Callers, AlreadyInitialized(t, caller)
      PROVE EdgesFollow'
  BY <1>6 DEF AlreadyInitialized
<1>7. ASSUME NEW t \in Tabs, NEW caller \in Callers, Initialize(t, caller)
      PROVE EdgesFollow'
  BY <1>7 DEF Initialize, Mark
<1>8. ASSUME NEW t \in Tabs, NEW p \in Pointers, NEW n \in Nodes, TakeNode(t, p, n)
      PROVE EdgesFollow'
  BY <1>8 DEF TakeNode, tabVars, Usable, Shown
<1>9. ASSUME NEW t \in Tabs, NEW n \in Nodes, MoveNode(t, n) PROVE EdgesFollow'
  BY <1>9 DEF MoveNode, tabVars, Usable, Shown
<1>10. ASSUME NEW t \in Tabs, NEW p \in Pointers, TakeCanvas(t, p)
      PROVE EdgesFollow'
  BY <1>10 DEF TakeCanvas, tabVars, Usable, Shown
<1>11. ASSUME NEW t \in Tabs, NEW p \in Pointers, NEW event \in PointerEnds, Release(t, p, event)
      PROVE EdgesFollow'
  <2>1. CASE held[t][p] \in Nodes /\ FinishDrag(t, held[t][p])
    <3> DEFINE n == held[t][p]
               layout == [pos[t] EXCEPT ![n] = Snapped(pos[t][n])]
    <3>1. /\ pos' = [pos EXCEPT ![t] = layout]
          /\ edges' = [edges EXCEPT ![t] = Drawn(t, layout)]
      BY <2>1 DEF FinishDrag
    <3>2. UNCHANGED <<tabVars, bound, redraw>>
      BY <1>11 DEF Release
    <3> HIDE DEF layout
    <3> QED
      BY <3>1, <3>2 DEF tabVars
  <2>2. CASE UNCHANGED <<pos, edges, drag, storage>>
    BY <1>11, <2>2 DEF Release, tabVars
  <2> QED
    BY <1>11, <2>1, <2>2 DEF Release
<1>12. ASSUME NEW t \in Tabs, Reset(t) PROVE EdgesFollow'
  BY <1>12 DEF Reset, tabVars, Usable, Shown
<1>13. CASE UNCHANGED vars
  BY <1>13 DEF vars
<1> QED
  BY <1>1, <1>2, <1>3, <1>4, <1>5, <1>6, <1>7, <1>8, <1>9, <1>10, <1>11, <1>12, <1>13
     DEF Next

(* The arrows follow the cards (EdgesFollow), whatever is drawn late.      *)
THEOREM ArrowsFollow == Spec => []EdgesFollow
<1>1. Init => BoundRight /\ EdgesFollow
  BY DEF Init, BoundRight, EdgesFollow, Intact
<1>2. TypeOK /\ [Next]_vars => TypeOK'
  BY TypeStep
<1>3. TypeOK /\ BoundRight /\ [Next]_vars => BoundRight'
  BY BoundStep
<1>4. TypeOK /\ BoundRight /\ EdgesFollow /\ [Next]_vars => EdgesFollow'
  BY EdgesStep
<1> QED
  BY TypeInit, <1>1, <1>2, <1>3, <1>4, PTL DEF Spec

(***************************************************************************)
(* The world.                                                              *)
(***************************************************************************)
FarX(n) == WorldWidth - Size[n].w - MarginX
FarY(n) == WorldHeight - Size[n].h - MarginY

(* Within the limits, or carried over the far one by the grid.             *)
InRange(v, near, far) ==
  /\ near <= v
  /\ v <= far \/ (v <= far + 6 /\ Snap(v) = v)
Within(layout) ==
  \A n \in Nodes : /\ InRange(layout[n].x, MarginX, FarX(n))
                   /\ InRange(layout[n].y, MarginY, FarY(n))

(* The world is wider and higher than each card with its margins, and the  *)
(* server places the cards inside.                                         *)
RoomyWorld ==
  /\ \A n \in Nodes : MarginX <= FarX(n) /\ MarginY <= FarY(n)
  /\ Within(Default)

AllWithin ==
  /\ \A t \in Tabs : Within(pos[t]) /\ (copy[t] # None => Within(copy[t].pos))
  /\ storage # None => Within(storage)

LEMMA FarType == \A n \in Nodes : FarX(n) \in Int /\ FarY(n) \in Int
BY CanvasAssumption DEF FarX, FarY, MarginX, MarginY

(* Rounding to the grid stays above a near limit that is on the grid, and  *)
(* passes the far one by half a cell at most; it does so once.             *)
LEMMA SnapInRange ==
  ASSUME NEW v \in Int, NEW near \in {MarginX, MarginY}, NEW far \in Int,
         InRange(v, near, far)
  PROVE  InRange(Snap(v), near, far)
<1> DEFINE q == (v + 6) \div 12
<1>1. q \in Int /\ 12 * q <= v + 6 /\ v + 6 < 12 * q + 12
  OBVIOUS
<1>2. Snap(v) = q * 12
  BY DEF Snap, Grid
<1>3. (q * 12 + 6) \div 12 = q
  BY <1>1
<1>4. Snap(q * 12) = q * 12
  BY <1>3 DEF Snap, Grid
<1>5. near = 24 \/ near = 48
  BY DEF MarginX, MarginY
<1> HIDE DEF q
<1>6. near <= q * 12
  BY <1>1, <1>5 DEF InRange
<1>7. CASE v <= far
  BY <1>1, <1>2, <1>4, <1>6, <1>7 DEF InRange
<1>8. CASE v <= far + 6 /\ Snap(v) = v
  BY <1>1, <1>2, <1>4, <1>6, <1>8 DEF InRange
<1> QED
  BY <1>7, <1>8 DEF InRange

LEMMA LimitInRange ==
  ASSUME NEW v \in Int, NEW near \in Int, NEW far \in Int, near <= far
  PROVE  InRange(Limit(v, near, far), near, far)
BY DEF InRange, Limit, Least, Greatest

LEMMA PlaceType ==
  ASSUME NEW layout \in Layout, NEW n \in Nodes
  PROVE  layout[n] \in Place /\ layout[n].x \in Int /\ layout[n].y \in Int
BY DEF Layout, Place

(* A card that is snapped, or put where it is dragged, stays inside.       *)
LEMMA SnappedWithin ==
  ASSUME NEW layout \in Layout, Within(layout), NEW n \in Nodes
  PROVE  Within([layout EXCEPT ![n] = Snapped(layout[n])])
<1>1. layout[n].x \in Int /\ layout[n].y \in Int
  BY PlaceType
<1>2. /\ InRange(Snap(layout[n].x), MarginX, FarX(n))
      /\ InRange(Snap(layout[n].y), MarginY, FarY(n))
  BY <1>1, SnapInRange, FarType DEF Within
<1>3. Snapped(layout[n]).x = Snap(layout[n].x) /\ Snapped(layout[n]).y = Snap(layout[n].y)
  BY DEF Snapped
<1>4. DOMAIN layout = Nodes
  BY DEF Layout
<1> QED
  BY <1>2, <1>3, <1>4 DEF Within

LEMMA DraggedWithin ==
  ASSUME RoomyWorld, NEW layout \in Layout, Within(layout),
         NEW n \in Nodes, NEW from \in Place, NEW by \in Place
  PROVE  Within([layout EXCEPT ![n] = Dragged(n, from, by)])
<1>1. from.x + by.x \in Int /\ from.y + by.y \in Int
  BY DEF Place
<1>2. MarginX \in Int /\ MarginY \in Int /\ MarginX <= FarX(n) /\ MarginY <= FarY(n)
  BY DEF MarginX, MarginY, RoomyWorld
<1>3. /\ Dragged(n, from, by).x = Limit(from.x + by.x, MarginX, FarX(n))
      /\ Dragged(n, from, by).y = Limit(from.y + by.y, MarginY, FarY(n))
  BY DEF Dragged, FarX, FarY
<1>4. /\ InRange(Limit(from.x + by.x, MarginX, FarX(n)), MarginX, FarX(n))
      /\ InRange(Limit(from.y + by.y, MarginY, FarY(n)), MarginY, FarY(n))
  BY <1>1, <1>2, FarType, LimitInRange
<1>5. DOMAIN layout = Nodes
  BY DEF Layout
<1> QED
  BY <1>3, <1>4, <1>5 DEF Within

LEMMA AllWithinStep ==
  RoomyWorld /\ TypeOK /\ AllWithin /\ [Next]_vars => AllWithin'
<1> SUFFICES ASSUME RoomyWorld, TypeOK, AllWithin, [Next]_vars PROVE AllWithin'
  OBVIOUS
<1>0. Within(Default) /\ Within(SavedPositions)
  BY DEF RoomyWorld, AllWithin, SavedPositions
<1>1. ASSUME NEW t \in Tabs, NEW how \in Openings, Open(t, how) PROVE AllWithin'
  BY <1>1, <1>0 DEF Open, AllWithin, TypeOK
<1>2. ASSUME NEW t \in Tabs, Leave(t) PROVE AllWithin'
  BY <1>2, <1>0 DEF Leave, AllWithin, TypeOK
<1>3. ASSUME NEW t \in Tabs, Rerender(t) PROVE AllWithin'
  BY <1>3, <1>0 DEF Rerender, AllWithin, TypeOK
<1>4. ASSUME NEW t \in Tabs, Fold(t) PROVE AllWithin'
  BY <1>4 DEF Fold, AllWithin
<1>5. ASSUME NEW t \in Tabs, Frame(t) PROVE AllWithin'
  BY <1>5 DEF Frame, tabVars, AllWithin
<1>6. ASSUME NEW t \in Tabs, NEW caller \in Callers, AlreadyInitialized(t, caller)
      PROVE AllWithin'
  BY <1>6 DEF AlreadyInitialized, AllWithin
<1>7. ASSUME NEW t \in Tabs, NEW caller \in Callers, Initialize(t, caller)
      PROVE AllWithin'
  BY <1>7, <1>0 DEF Initialize, AllWithin, TypeOK
<1>8. ASSUME NEW t \in Tabs, NEW p \in Pointers, NEW n \in Nodes, TakeNode(t, p, n)
      PROVE AllWithin'
  BY <1>8 DEF TakeNode, tabVars, AllWithin
<1>9. ASSUME NEW t \in Tabs, NEW n \in Nodes, MoveNode(t, n) PROVE AllWithin'
  <2>1. PICK by \in Deltas :
          pos' = [pos EXCEPT ![t] = [pos[t] EXCEPT ![n] = Dragged(n, drag[t][n], by)]]
    BY <1>9 DEF MoveNode
  <2>2. drag[t][n] \in Place /\ by \in Place /\ pos[t] \in Layout
    BY <1>9, CanvasAssumption DEF MoveNode, TypeOK
  <2> DEFINE layout == [pos[t] EXCEPT ![n] = Dragged(n, drag[t][n], by)]
  <2>3. Within(layout)
    BY <2>2, DraggedWithin DEF AllWithin
  <2>4. pos' = [pos EXCEPT ![t] = layout] /\ UNCHANGED <<copy, storage>>
    BY <1>9, <2>1 DEF MoveNode, tabVars
  <2> HIDE DEF layout
  <2> QED
    BY <2>3, <2>4 DEF AllWithin, TypeOK
<1>10. ASSUME NEW t \in Tabs, NEW p \in Pointers, TakeCanvas(t, p)
      PROVE AllWithin'
  BY <1>10 DEF TakeCanvas, tabVars, AllWithin
<1>11. ASSUME NEW t \in Tabs, NEW p \in Pointers, NEW event \in PointerEnds, Release(t, p, event)
      PROVE AllWithin'
  <2>1. CASE held[t][p] \in Nodes /\ FinishDrag(t, held[t][p])
    <3> DEFINE n == held[t][p]
               layout == [pos[t] EXCEPT ![n] = Snapped(pos[t][n])]
    <3>1. Within(layout)
      BY <2>1, SnappedWithin DEF AllWithin, TypeOK
    <3>2. /\ pos' = [pos EXCEPT ![t] = layout] /\ storage' \in {layout, storage}
          /\ copy' = copy
      BY <1>11, <2>1 DEF Release, FinishDrag, SavePositions, tabVars
    <3> HIDE DEF layout
    <3> QED
      BY <3>1, <3>2 DEF AllWithin, TypeOK
  <2>2. CASE UNCHANGED <<pos, edges, drag, storage>>
    BY <1>11, <2>2 DEF Release, tabVars, AllWithin
  <2> QED
    BY <1>11, <2>1, <2>2 DEF Release
<1>12. ASSUME NEW t \in Tabs, Reset(t) PROVE AllWithin'
  BY <1>12, <1>0 DEF Reset, tabVars, AllWithin, TypeOK
<1>13. CASE UNCHANGED vars
  BY <1>13 DEF vars, AllWithin
<1> QED
  BY <1>1, <1>2, <1>3, <1>4, <1>5, <1>6, <1>7, <1>8, <1>9, <1>10, <1>11, <1>12, <1>13
     DEF Next

LEMMA WithinIsInside ==
  ASSUME TypeOK, AllWithin PROVE InsideTheWorld
<1> SUFFICES ASSUME NEW t \in Tabs, NEW n \in Nodes
             PROVE  /\ MarginX <= pos[t][n].x
                    /\ pos[t][n].x + Size[n].w <= WorldWidth - MarginX + Grid \div 2
                    /\ MarginY <= pos[t][n].y
                    /\ pos[t][n].y + Size[n].h <= WorldHeight - MarginY + Grid \div 2
  BY DEF InsideTheWorld
<1>1. pos[t][n].x \in Int /\ pos[t][n].y \in Int
  BY PlaceType DEF TypeOK
<1>2. /\ InRange(pos[t][n].x, MarginX, FarX(n))
      /\ InRange(pos[t][n].y, MarginY, FarY(n))
  BY DEF AllWithin, Within
<1>3. /\ Size[n].w \in Nat /\ Size[n].h \in Nat
      /\ WorldWidth \in Int /\ WorldHeight \in Int
  BY CanvasAssumption
<1>4. Grid \div 2 = 6
  BY DEF Grid
<1> QED
  BY <1>1, <1>2, <1>3, <1>4 DEF InRange, FarX, FarY, MarginX, MarginY

(* In a world with room for every card between its margins, and for the    *)
(* server's places (RoomyWorld), no card passes the margin at the left and *)
(* top, and none passes the other one by more than half a grid cell        *)
(* (InsideTheWorld): that a place is rounded after it was limited costs    *)
(* half a cell once, and not again with every drag of a layout that comes  *)
(* back from storage or from a kept page.                                  *)
THEOREM CardsStayInside == ASSUME RoomyWorld PROVE Spec => []InsideTheWorld
<1>1. Init => AllWithin
  <2>1. Within(Default)
    BY DEF RoomyWorld
  <2> QED
    BY <2>1 DEF Init, AllWithin
<1>2. TypeOK /\ [Next]_vars => TypeOK'
  BY TypeStep
<1>3. TypeOK /\ AllWithin /\ [Next]_vars => AllWithin'
  BY AllWithinStep
<1>4. TypeOK /\ AllWithin => InsideTheWorld
  BY WithinIsInside
<1> QED
  BY TypeInit, <1>1, <1>2, <1>3, <1>4, PTL DEF Spec

(***************************************************************************)
(* The stored layout, with one tab.                                        *)
(***************************************************************************)
OneTab == \A t, u \in Tabs : t = u
DraggedIsBound == \A t \in Tabs, n \in Nodes : drag[t][n] # None => bound[t] = 1

LEMMA DraggedStep ==
  TypeOK /\ BoundRight /\ DraggedIsBound /\ [Next]_vars => DraggedIsBound'
<1> SUFFICES ASSUME TypeOK, BoundRight, DraggedIsBound, [Next]_vars
             PROVE DraggedIsBound'
  OBVIOUS
<1> USE DEF TypeOK, DraggedIsBound
<1>1. ASSUME NEW t \in Tabs, NEW how \in Openings, Open(t, how)
      PROVE DraggedIsBound'
  BY <1>1 DEF Open
<1>2. ASSUME NEW t \in Tabs, Leave(t) PROVE DraggedIsBound'
  BY <1>2 DEF Leave, NoDrag
<1>3. ASSUME NEW t \in Tabs, Rerender(t) PROVE DraggedIsBound'
  BY <1>3 DEF Rerender
<1>4. ASSUME NEW t \in Tabs, Fold(t) PROVE DraggedIsBound'
  BY <1>4 DEF Fold
<1>5. ASSUME NEW t \in Tabs, Frame(t) PROVE DraggedIsBound'
  BY <1>5 DEF Frame, tabVars
<1>6. ASSUME NEW t \in Tabs, NEW caller \in Callers, AlreadyInitialized(t, caller)
      PROVE DraggedIsBound'
  BY <1>6 DEF AlreadyInitialized
<1>7. ASSUME NEW t \in Tabs, NEW caller \in Callers, Initialize(t, caller)
      PROVE DraggedIsBound'
  <2>1. bound[t] = 0
    BY <1>7 DEF Initialize, BoundRight
  <2> QED
    BY <1>7, <2>1 DEF Initialize
<1>8. ASSUME NEW t \in Tabs, NEW p \in Pointers, NEW n \in Nodes, TakeNode(t, p, n)
      PROVE DraggedIsBound'
  <2>1. bound[t] = 1
    BY <1>8 DEF TakeNode, Usable, BoundRight
  <2> QED
    BY <1>8, <2>1 DEF TakeNode, tabVars
<1>9. ASSUME NEW t \in Tabs, NEW n \in Nodes, MoveNode(t, n) PROVE DraggedIsBound'
  BY <1>9 DEF MoveNode, tabVars
<1>10. ASSUME NEW t \in Tabs, NEW p \in Pointers, TakeCanvas(t, p)
      PROVE DraggedIsBound'
  BY <1>10 DEF TakeCanvas, tabVars
<1>11. ASSUME NEW t \in Tabs, NEW p \in Pointers, NEW event \in PointerEnds, Release(t, p, event)
      PROVE DraggedIsBound'
  <2>1. \A u \in Tabs, n \in Nodes : drag'[u][n] # None => drag[u][n] # None
    <3>1. CASE drag' = [drag EXCEPT ![t][held[t][p]] = None]
      BY <3>1
    <3>2. CASE drag' = drag
      BY <3>2
    <3> QED
      BY <1>11, <3>1, <3>2 DEF Release, FinishDrag
  <2> QED
    BY <1>11, <2>1 DEF Release
<1>12. ASSUME NEW t \in Tabs, Reset(t) PROVE DraggedIsBound'
  BY <1>12 DEF Reset, tabVars
<1>13. CASE UNCHANGED vars
  BY <1>13 DEF vars
<1> QED
  BY <1>1, <1>2, <1>3, <1>4, <1>5, <1>6, <1>7, <1>8, <1>9, <1>10, <1>11, <1>12, <1>13
     DEF Next

(* A layout that has been saved is what is remembered.                     *)
LEMMA SavedIsRemembered ==
  ASSUME NEW layout \in Layout, works, SavePositions(layout)
  PROVE  Remembered' = layout
<1>1. storage' = layout /\ layout # None
  BY CanvasAssumption DEF SavePositions
<1> QED
  BY <1>1 DEF Remembered

LEMMA ShownStep ==
  OneTab /\ TypeOK /\ BoundRight /\ ShownAsSaved /\ [Next]_vars => ShownAsSaved'
<1> SUFFICES ASSUME OneTab, TypeOK, BoundRight, ShownAsSaved, [Next]_vars
             PROVE ShownAsSaved'
  OBVIOUS
<1> USE DEF ShownAsSaved, Intact
<1>a. storage' = storage => Remembered' = Remembered
  BY DEF Remembered
<1>1. ASSUME NEW t \in Tabs, NEW how \in Openings, Open(t, how) PROVE ShownAsSaved'
  BY <1>1, <1>a DEF Open, TypeOK, BoundRight
<1>2. ASSUME NEW t \in Tabs, Leave(t) PROVE ShownAsSaved'
  BY <1>2, <1>a DEF Leave, TypeOK
<1>3. ASSUME NEW t \in Tabs, Rerender(t) PROVE ShownAsSaved'
  BY <1>3, <1>a DEF Rerender, TypeOK
<1>4. ASSUME NEW t \in Tabs, Fold(t) PROVE ShownAsSaved'
  BY <1>4, <1>a DEF Fold, TypeOK
<1>5. ASSUME NEW t \in Tabs, Frame(t) PROVE ShownAsSaved'
  BY <1>5, <1>a DEF Frame, tabVars, TypeOK
<1>6. ASSUME NEW t \in Tabs, NEW caller \in Callers, AlreadyInitialized(t, caller)
      PROVE ShownAsSaved'
  BY <1>6, <1>a DEF AlreadyInitialized, TypeOK
<1>7. ASSUME NEW t \in Tabs, NEW caller \in Callers, Initialize(t, caller)
      PROVE ShownAsSaved'
  <2>1. SavedPositions = Remembered
    BY DEF SavedPositions, Remembered
  <2>2. \A u \in Tabs : u = t
    BY DEF OneTab
  <2> QED
    BY <1>7, <1>a, <2>1, <2>2 DEF Initialize, TypeOK
<1>8. ASSUME NEW t \in Tabs, NEW p \in Pointers, NEW n \in Nodes, TakeNode(t, p, n)
      PROVE ShownAsSaved'
  <2>1. pos[t][n] # None
    BY CanvasAssumption DEF TypeOK, Layout
  <2>2. \A u \in Tabs, m \in Nodes : drag'[u][m] = None => drag[u][m] = None
    BY <1>8, <2>1 DEF TakeNode, TypeOK
  <2> QED
    BY <1>8, <1>a, <2>2 DEF TakeNode, tabVars
<1>9. ASSUME NEW t \in Tabs, NEW n \in Nodes, MoveNode(t, n) PROVE ShownAsSaved'
  <2>1. \A u \in Tabs, m \in Nodes : drag[u][m] = None => pos'[u][m] = pos[u][m]
    BY <1>9 DEF MoveNode, TypeOK, Layout
  <2> QED
    BY <1>9, <1>a, <2>1 DEF MoveNode, tabVars
<1>10. ASSUME NEW t \in Tabs, NEW p \in Pointers, TakeCanvas(t, p)
      PROVE ShownAsSaved'
  BY <1>10, <1>a DEF TakeCanvas, tabVars, TypeOK
<1>11. ASSUME NEW t \in Tabs, NEW p \in Pointers, NEW event \in PointerEnds, Release(t, p, event)
      PROVE ShownAsSaved'
  <2>1. CASE held[t][p] \in Nodes /\ FinishDrag(t, held[t][p])
    <3> DEFINE n == held[t][p]
               layout == [pos[t] EXCEPT ![n] = Snapped(pos[t][n])]
    <3>1. layout \in Layout
      BY <2>1, SnappedType, LayoutExcept DEF TypeOK, Layout
    <3>2. pos' = [pos EXCEPT ![t] = layout] /\ SavePositions(layout)
      BY <2>1 DEF FinishDrag
    <3> HIDE DEF layout
    <3>3. \A u \in Tabs : u = t
      BY DEF OneTab
    <3>4. pos'[t] = layout /\ works' = works
      BY <1>11, <3>2 DEF TypeOK, Release, tabVars
    <3>5. works => Remembered' = layout
      BY <3>1, <3>2, SavedIsRemembered
    <3> QED
      BY <3>3, <3>4, <3>5
  <2>2. CASE UNCHANGED <<pos, edges, drag, storage>>
    BY <1>11, <1>a, <2>2 DEF Release, tabVars
  <2> QED
    BY <1>11, <2>1, <2>2 DEF Release
<1>12. ASSUME NEW t \in Tabs, Reset(t) PROVE ShownAsSaved'
  <2>1. Remembered' = Default
    BY <1>12 DEF Reset, Remembered
  <2>2. \A u \in Tabs : u = t
    BY DEF OneTab
  <2> QED
    BY <1>12, <2>1, <2>2 DEF Reset, tabVars, TypeOK
<1>13. CASE UNCHANGED vars
  BY <1>13, <1>a DEF vars
<1> QED
  BY <1>1, <1>2, <1>3, <1>4, <1>5, <1>6, <1>7, <1>8, <1>9, <1>10, <1>11, <1>12, <1>13
     DEF Next

(* With one tab, what is in no hand is where a reload would put it         *)
(* (ShownAsSaved), for any sequence of drags, resets and updates.          *)
THEOREM SavedAsShown == ASSUME OneTab PROVE Spec => []ShownAsSaved
<1>1. Init => BoundRight /\ ShownAsSaved
  BY DEF Init, BoundRight, ShownAsSaved, Intact
<1>2. TypeOK /\ [Next]_vars => TypeOK'
  BY TypeStep
<1>3. TypeOK /\ BoundRight /\ [Next]_vars => BoundRight'
  BY BoundStep
<1>4. TypeOK /\ BoundRight /\ ShownAsSaved /\ [Next]_vars => ShownAsSaved'
  BY ShownStep
<1> QED
  BY TypeInit, <1>1, <1>2, <1>3, <1>4, PTL DEF Spec

(* The step of OthersStay.                                                 *)
SaveTouchesHeld ==
  (\A t \in Tabs : bound[t] > 0 => marked[t]) /\ storage' # None
    => \A n \in Nodes : Remembered'[n] # Remembered[n]
         => \E t \in Tabs : drag[t][n] # None

LEMMA SaveStep ==
  ASSUME TypeOK, DraggedIsBound, ShownAsSaved, [Next]_vars
  PROVE  SaveTouchesHeld
<1> SUFFICES ASSUME \A t \in Tabs : bound[t] > 0 => marked[t], storage' # None
             PROVE  \A n \in Nodes : Remembered'[n] # Remembered[n]
                      => \E t \in Tabs : drag[t][n] # None
  BY DEF SaveTouchesHeld
<1>1. CASE storage' = storage
  BY <1>1 DEF Remembered
<1>2. CASE storage' # storage
  <2>1. PICK t \in Tabs, p \in Pointers :
          /\ held[t][p] \in Nodes /\ drag[t][held[t][p]] # None
          /\ FinishDrag(t, held[t][p])
    <3>1. PICK t \in Tabs, p \in Pointers, event \in PointerEnds : Release(t, p, event)
      BY <1>2 DEF Next, vars, Open, Leave, Rerender, Fold, Frame, AlreadyInitialized,
                  Initialize, TakeNode, MoveNode, TakeCanvas, Reset, tabVars
    <3> QED
      BY <1>2, <3>1 DEF Release
  <2> DEFINE n == held[t][p]
             layout == [pos[t] EXCEPT ![n] = Snapped(pos[t][n])]
  <2>2. SavePositions(layout) /\ works /\ storage' = layout
    BY <1>2, <2>1 DEF FinishDrag, SavePositions, TypeOK
  <2>3. layout \in Layout
    BY <2>1, SnappedType, LayoutExcept DEF TypeOK, Layout
  <2>4. Remembered' = layout
    BY <2>2, <2>3, SavedIsRemembered
  <2>5. Intact(t)
    BY <2>1 DEF Intact, DraggedIsBound
  <2>6. ASSUME NEW m \in Nodes, drag[t][m] = None PROVE layout[m] = Remembered[m]
    <3>1. pos[t][m] = Remembered[m]
      BY <2>2, <2>5, <2>6 DEF ShownAsSaved
    <3>2. m # n
      BY <2>1, <2>6
    <3> QED
      BY <3>1, <3>2 DEF TypeOK, Layout
  <2> HIDE DEF layout
  <2> QED
    BY <2>4, <2>6
<1> QED
  BY <1>1, <1>2

(* With one tab, a save changes no remembered place but of cards in hand   *)
(* (OthersStay).                                                           *)
THEOREM OthersKeepTheirPlace == ASSUME OneTab PROVE Spec => OthersStay
<1>1. Init => BoundRight /\ ShownAsSaved /\ DraggedIsBound
  BY DEF Init, BoundRight, ShownAsSaved, Intact, DraggedIsBound, NoDrag
<1>2. TypeOK /\ [Next]_vars => TypeOK'
  BY TypeStep
<1>3. TypeOK /\ BoundRight /\ [Next]_vars => BoundRight'
  BY BoundStep
<1>4. TypeOK /\ BoundRight /\ ShownAsSaved /\ [Next]_vars => ShownAsSaved'
  BY ShownStep
<1>5. TypeOK /\ BoundRight /\ DraggedIsBound /\ [Next]_vars => DraggedIsBound'
  BY DraggedStep
<1>6. TypeOK /\ DraggedIsBound /\ ShownAsSaved /\ [Next]_vars => [SaveTouchesHeld]_vars
  BY SaveStep
<1> QED
  BY TypeInit, <1>1, <1>2, <1>3, <1>4, <1>5, <1>6, PTL DEF Spec, OthersStay, SaveTouchesHeld
=================================================================================
