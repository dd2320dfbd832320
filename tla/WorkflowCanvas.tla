----------------------------- MODULE WorkflowCanvas -----------------------------
(***************************************************************************)
(* The drawing of a workflow (resources/js/workflow-visual.js): cards that *)
(* are dragged on a canvas, arrows that follow them, a layout kept in the  *)
(* browser's storage.  A tab shows the canvas, leaves it, and comes back   *)
(* to it; the page's framework (Livewire) puts the element there and may   *)
(* write its HTML anew.  Zoom and scrolling are left out: a card is where  *)
(* it is in the world, and a pointer's way is counted in the world, too.   *)
(***************************************************************************)
EXTENDS Integers

CONSTANTS
  Tabs,           \* browser tabs on the same workflow version
  Nodes,          \* the cards
  Pointers,       \* mouse and fingers of one user
  WorldWidth, WorldHeight,
  Size,           \* Size[n]: width and height of a card
  Default,        \* Default[n]: where the server places it
  Deltas,         \* how far a pointer is from where it went down (bound)
  None

Place == [x: Int, y: Int]
Layout == [Nodes -> Place]
Drawing == [at: Layout, measured: BOOLEAN]

ASSUME CanvasAssumption ==
  /\ WorldWidth \in Int /\ WorldHeight \in Int
  /\ Nodes # {}
  /\ Default \in Layout /\ Size \in [Nodes -> [w: Nat, h: Nat]]
  /\ Deltas \subseteq Place
  /\ "canvas" \notin Nodes
  /\ None \notin Place \cup Layout \cup Drawing \cup Nodes \cup {"canvas"}

VARIABLES
  page,      \* the tab shows a new canvas, one restored by the back button,
             \* or something else
  marked,    \* data-initialized on the canvas element
  bound,     \* how often the element's listeners have been bound
  calls,     \* calls of initializeWorkflowCanvases that will reach it
  folded,    \* the section around the canvas is collapsed: nothing has a size
  pos,       \* style.left and style.top of the cards
  drag,      \* dragStart: the place a dragged card had
  held,      \* what each pointer went down on
  pan,       \* panStart is set
  redraw,    \* drawEdges is called with the next animation frame
  edges,     \* what the arrows were drawn from
  storage,   \* the layout in localStorage
  works,     \* the browser lets the page use its storage
  copy       \* the HTML kept for the back button

vars == <<page, marked, bound, calls, folded, pos, drag, held, pan, redraw,
          edges, storage, works, copy>>
tabVars == <<page, marked, calls, folded, copy, works>>

Copy == [marked: BOOLEAN, pos: Layout, edges: Drawing \cup {None}]
Openings == {"load", "spa", "appear", "back"}
Callers == {"script", "navigated", "added"}
PointerEnds == {"pointerup", "pointercancel"}

(***************************************************************************)
(* Geometry, in pixels.                                                    *)
(***************************************************************************)
Least(a, b) == IF a < b THEN a ELSE b
Greatest(a, b) == IF a < b THEN b ELSE a
UnderMinimum(value, minimum, maximum) == Greatest(minimum, value)  \* mutation of Limit
Limit(value, minimum, maximum) == Least(maximum, Greatest(minimum, value))

Grid == 12
MarginX == 24
MarginY == 48
Snap(v) == ((v + 6) \div Grid) * Grid
Snapped(place) == [x |-> Snap(place.x), y |-> Snap(place.y)]
Dragged(n, from, by) ==
  [x |-> Limit(from.x + by.x, MarginX, WorldWidth - Size[n].w - MarginX),
   y |-> Limit(from.y + by.y, MarginY, WorldHeight - Size[n].h - MarginY)]

Drawn(t, layout) == [at |-> layout, measured |-> ~folded[t]]
UncheckedPositions == storage                          \* mutation of SavedPositions
ForgottenPositions == Default                          \* mutation of SavedPositions
SavedPositions == IF storage = None THEN Default ELSE storage

Shown(t) == page[t] # "other"
Nobody == [p \in Pointers |-> None]
NoDrag == [n \in Nodes |-> None]

(***************************************************************************)
(* The element comes and goes.                                             *)
(***************************************************************************)
Init ==
  /\ page = [t \in Tabs |-> "other"]
  /\ marked = [t \in Tabs |-> FALSE] /\ bound = [t \in Tabs |-> 0]
  /\ calls = [t \in Tabs |-> {}] /\ folded = [t \in Tabs |-> FALSE]
  /\ pos = [t \in Tabs |-> Default] /\ drag = [t \in Tabs |-> NoDrag]
  /\ held = [t \in Tabs |-> Nobody] /\ pan = [t \in Tabs |-> FALSE]
  /\ redraw = [t \in Tabs |-> FALSE] /\ edges = [t \in Tabs |-> None]
  /\ copy = [t \in Tabs |-> None] /\ storage = None /\ works \in BOOLEAN

(* The script itself and the livewire:navigated event look through the     *)
(* document, the MutationObserver through what is added to it.             *)
OnlyOnNavigation(how) ==                               \* mutation of Callings
  IF how = "appear" THEN {} ELSE {"navigated"}
Callings(how) ==
  (IF how = "load" THEN {"script"} ELSE {"added"})
    \cup (IF how = "appear" THEN {} ELSE {"navigated"})

(* The HTML of the server is not initialized, that of a copy is as it was. *)
Open(t, how) ==
  LET html == IF how = "back" THEN copy[t]
              ELSE [marked |-> FALSE, pos |-> Default, edges |-> None]
  IN /\ page[t] = "other"
     /\ how = "back" => copy[t] # None
     /\ page' = [page EXCEPT ![t] = IF how = "back" THEN "restored" ELSE "new"]
     /\ marked' = [marked EXCEPT ![t] = html.marked]
     /\ pos' = [pos EXCEPT ![t] = html.pos]
     /\ edges' = [edges EXCEPT ![t] = html.edges]
     /\ calls' = [calls EXCEPT ![t] = Callings(how)]
     /\ copy' = [copy EXCEPT ![t] = None]
     /\ UNCHANGED <<bound, folded, drag, held, pan, redraw, storage, works>>

Leave(t) ==
  /\ Shown(t)
  /\ copy' = [copy EXCEPT ![t] =
                [marked |-> marked[t], pos |-> pos[t], edges |-> edges[t]]]
  /\ page' = [page EXCEPT ![t] = "other"]
  /\ marked' = [marked EXCEPT ![t] = FALSE] /\ bound' = [bound EXCEPT ![t] = 0]
  /\ calls' = [calls EXCEPT ![t] = {}] /\ folded' = [folded EXCEPT ![t] = FALSE]
  /\ pos' = [pos EXCEPT ![t] = Default] /\ drag' = [drag EXCEPT ![t] = NoDrag]
  /\ held' = [held EXCEPT ![t] = Nobody] /\ pan' = [pan EXCEPT ![t] = FALSE]
  /\ redraw' = [redraw EXCEPT ![t] = FALSE] /\ edges' = [edges EXCEPT ![t] = None]
  /\ UNCHANGED <<storage, works>>

(* A Livewire update writes the server's HTML over the element: attributes *)
(* the script has set are gone, the listeners and their closure stay.      *)
Rerender(t) ==
  /\ Shown(t) /\ calls[t] = {}
  /\ marked' = [marked EXCEPT ![t] = FALSE]
  /\ pos' = [pos EXCEPT ![t] = Default]
  /\ edges' = [edges EXCEPT ![t] = None]
  /\ UNCHANGED <<page, bound, calls, folded, drag, held, pan, redraw,
                 storage, works, copy>>

(***************************************************************************)
(* initializeWorkflowCanvas.                                               *)
(***************************************************************************)
Unmarked(t) == marked' = marked                        \* mutation of Mark
Mark(t) == marked' = [marked EXCEPT ![t] = TRUE]

AlreadyInitialized(t, caller) ==
  /\ caller \in calls[t] /\ marked[t]
  /\ calls' = [calls EXCEPT ![t] = @ \ {caller}]
  /\ UNCHANGED <<page, marked, bound, folded, pos, drag, held, pan, redraw,
                 edges, storage, works, copy>>

Initialize(t, caller) ==
  /\ caller \in calls[t] /\ ~marked[t]
  /\ calls' = [calls EXCEPT ![t] = @ \ {caller}]
  /\ Mark(t)
  /\ bound' = [bound EXCEPT ![t] = @ + 1]
  /\ pos' = [pos EXCEPT ![t] = SavedPositions]
  /\ redraw' = [redraw EXCEPT ![t] = TRUE]
  /\ UNCHANGED <<page, folded, drag, held, pan, edges, storage, works, copy>>

Frame(t) ==
  /\ redraw[t]
  /\ edges' = [edges EXCEPT ![t] = Drawn(t, pos[t])]
  /\ redraw' = [redraw EXCEPT ![t] = FALSE]
  /\ UNCHANGED <<tabVars, bound, pos, drag, held, pan, storage>>

(* The section is collapsed, its content no longer displayed and so of size *)
(* zero, or opened; the ResizeObserver of the inner element is told with   *)
(* the next frame.                                                         *)
NotWatched(t) == redraw[t]                             \* mutation of Resized
Resized(t) == redraw[t] \/ bound[t] > 0
Fold(t) ==
  /\ Shown(t)
  /\ folded' = [folded EXCEPT ![t] = ~@]
  /\ redraw' = [redraw EXCEPT ![t] = Resized(t)]
  /\ UNCHANGED <<page, marked, bound, calls, pos, drag, held, pan, edges,
                 storage, works, copy>>

(***************************************************************************)
(* Pointers.                                                               *)
(***************************************************************************)
Usable(t) == Shown(t) /\ bound[t] > 0 /\ ~folded[t]

TakeNode(t, p, n) ==
  /\ Usable(t) /\ held[t][p] = None
  /\ held' = [held EXCEPT ![t][p] = n]
  /\ drag' = [drag EXCEPT ![t][n] = pos[t][n]]
  /\ UNCHANGED <<tabVars, bound, pos, pan, redraw, edges, storage>>

(* Any pointer over the card moves it while it is dragged.                 *)
MoveNode(t, n) ==
  /\ Usable(t) /\ drag[t][n] # None
  /\ \E by \in Deltas :
       LET layout == [pos[t] EXCEPT ![n] = Dragged(n, drag[t][n], by)]
       IN /\ pos' = [pos EXCEPT ![t] = layout]
          /\ edges' = [edges EXCEPT ![t] = Drawn(t, layout)]
  /\ UNCHANGED <<tabVars, bound, drag, held, pan, redraw, storage>>

TakeCanvas(t, p) ==
  /\ Usable(t) /\ held[t][p] = None
  /\ held' = [held EXCEPT ![t][p] = "canvas"]
  /\ pan' = [pan EXCEPT ![t] = TRUE]
  /\ UNCHANGED <<tabVars, bound, pos, drag, redraw, edges, storage>>

EndsOnUpOnly(event) == event = "pointerup"             \* mutation of Ends
Ends(event) == event \in PointerEnds

SavePositions(layout) == storage' = IF works THEN layout ELSE storage

(* The end of a card's drag: it snaps to the grid, and all cards are saved *)
(* where they are.                                                         *)
SaveBeforeSnap(t, n) ==                                \* mutation of FinishDrag
  LET layout == [pos[t] EXCEPT ![n] = Snapped(pos[t][n])]
  IN /\ pos' = [pos EXCEPT ![t] = layout]
     /\ edges' = [edges EXCEPT ![t] = Drawn(t, layout)]
     /\ drag' = [drag EXCEPT ![t][n] = None]
     /\ SavePositions(pos[t])
FinishDrag(t, n) ==
  LET layout == [pos[t] EXCEPT ![n] = Snapped(pos[t][n])]
  IN /\ pos' = [pos EXCEPT ![t] = layout]
     /\ edges' = [edges EXCEPT ![t] = Drawn(t, layout)]
     /\ drag' = [drag EXCEPT ![t][n] = None]
     /\ SavePositions(layout)

(* A pointer is released or taken away; the event reaches the card first   *)
(* and then the canvas.                                                    *)
Release(t, p, event) ==
  /\ Shown(t) /\ held[t][p] # None
  /\ held' = [held EXCEPT ![t][p] = None]
  /\ IF Ends(event) /\ held[t][p] \in Nodes /\ drag[t][held[t][p]] # None
     THEN FinishDrag(t, held[t][p])
     ELSE UNCHANGED <<pos, edges, drag, storage>>
  /\ pan' = IF Ends(event) THEN [pan EXCEPT ![t] = FALSE] ELSE pan
  /\ UNCHANGED <<tabVars, bound, redraw>>

(***************************************************************************)
(* The toolbar.                                                            *)
(***************************************************************************)
(* Back to the server's arrangement.                                       *)
Reset(t) ==
  /\ Usable(t)
  /\ storage' = None
  /\ pos' = [pos EXCEPT ![t] = Default]
  /\ redraw' = [redraw EXCEPT ![t] = TRUE]
  /\ UNCHANGED <<tabVars, bound, drag, held, pan, edges>>

Next ==
  \E t \in Tabs :
    \/ \E how \in Openings : Open(t, how)
    \/ Leave(t) \/ Rerender(t) \/ Fold(t) \/ Frame(t)
    \/ \E caller \in Callers : AlreadyInitialized(t, caller) \/ Initialize(t, caller)
    \/ \E p \in Pointers, n \in Nodes : TakeNode(t, p, n)
    \/ \E n \in Nodes : MoveNode(t, n)
    \/ \E p \in Pointers : TakeCanvas(t, p)
    \/ \E p \in Pointers, event \in PointerEnds : Release(t, p, event)
    \/ Reset(t)

Spec == Init /\ [][Next]_vars

(* The browser delivers what is pending; nothing is asked of the user.     *)
Deliver(t) ==
  \/ Frame(t)
  \/ \E caller \in Callers : AlreadyInitialized(t, caller) \/ Initialize(t, caller)
FairSpec == Spec /\ \A t \in Tabs : WF_vars(Deliver(t))

(***************************************************************************)
(* Properties.                                                             *)
(***************************************************************************)
(* Every variable has its type: cards are always somewhere.                *)
TypeOK ==
  /\ page \in [Tabs -> {"other", "new", "restored"}]
  /\ marked \in [Tabs -> BOOLEAN] /\ bound \in [Tabs -> Nat]
  /\ calls \in [Tabs -> SUBSET Callers] /\ folded \in [Tabs -> BOOLEAN]
  /\ pos \in [Tabs -> Layout] /\ drag \in [Tabs -> [Nodes -> Place \cup {None}]]
  /\ held \in [Tabs -> [Pointers -> Nodes \cup {"canvas", None}]]
  /\ pan \in [Tabs -> BOOLEAN] /\ redraw \in [Tabs -> BOOLEAN]
  /\ edges \in [Tabs -> Drawing \cup {None}]
  /\ storage \in Layout \cup {None} /\ works \in BOOLEAN
  /\ copy \in [Tabs -> Copy \cup {None}]

(* A canvas whose element is as the script left it, not rewritten.         *)
Intact(t) == bound[t] > 0 /\ marked[t]
Remembered == IF storage = None THEN Default ELSE storage

(* Two or three callers reach every new canvas, and the back button brings *)
(* an initialized one: no element has its listeners bound twice, which     *)
(* would move, snap and save every card twice.                             *)
ListenersOnce == \A t \in Tabs : bound[t] <= 1

(* What is dragged is in somebody's hand: whatever two pointers do on one  *)
(* card or on several, cancelled or not, no card and no canvas sticks to a *)
(* pointer that is gone.                                                   *)
HeldWhileDragged ==
  \A t \in Tabs :
    /\ \A n \in Nodes : drag[t][n] # None => \E p \in Pointers : held[t][p] = n
    /\ pan[t] => \E p \in Pointers : held[t][p] = "canvas"

(* The arrows are drawn for the places the cards have, and from sizes that *)
(* were real, unless a frame that will draw them is due: after a reset,    *)
(* and after the section was collapsed while the script went on.           *)
EdgesFollow ==
  \A t \in Tabs :
    Intact(t) /\ ~redraw[t] => edges[t] = Drawn(t, pos[t])

(* Limiting comes before rounding to the grid: still no card leaves the    *)
(* margin at the left and top, and none passes the other one by more than  *)
(* half a grid cell.                                                       *)
InsideTheWorld ==
  \A t \in Tabs, n \in Nodes :
    /\ MarginX <= pos[t][n].x
    /\ pos[t][n].x + Size[n].w <= WorldWidth - MarginX + Grid \div 2
    /\ MarginY <= pos[t][n].y
    /\ pos[t][n].y + Size[n].h <= WorldHeight - MarginY + Grid \div 2

(* In a browser with one tab on the workflow, a card that is in no hand is *)
(* where a reload would put it: every way to end a drag saves it, a reset  *)
(* forgets it, also in the middle of another drag.                         *)
ShownAsSaved ==
  \A t \in Tabs, n \in Nodes :
    Intact(t) /\ works /\ drag[t][n] = None => pos[t][n] = Remembered[n]

(* Every save writes all cards; nevertheless it changes the remembered     *)
(* place of none but those in hand, as long as no update of the page has   *)
(* put them back without the script's knowledge.                           *)
OthersStay ==
  [][(\A t \in Tabs : bound[t] > 0 => marked[t]) /\ storage' # None
       => \A n \in Nodes : Remembered'[n] # Remembered[n]
            => \E t \in Tabs : drag[t][n] # None]_vars

(* A canvas that appears, by whatever way, comes to life and gets its      *)
(* arrows, storage or no storage (the script's comments: "The canvas       *)
(* remains usable when browser storage is unavailable").                   *)
Ready(t) == bound[t] > 0 /\ (marked[t] => edges[t] # None)
BecomesReady ==
  \A t \in Tabs :
    page[t] = "new" /\ ~marked[t] ~> Ready(t) \/ page[t] = "other"

(* The canvas says "Tarik kartu untuk memindahkan" (drag a card to move    *)
(* it): once the callers have been there, cards can be dragged.            *)
ShownIsDraggable ==
  \A t \in Tabs : Shown(t) /\ calls[t] = {} => bound[t] > 0
=================================================================================
