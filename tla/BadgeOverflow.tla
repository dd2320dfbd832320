----------------------------- MODULE BadgeOverflow -----------------------------
(***************************************************************************)
(* The header filters of the tables (filament-header-filters.js): a select *)
(* with several values shows each as a badge, and the script hides those   *)
(* that find no room behind a badge "+N".  It works on the page from the   *)
(* outside: an animation frame brings all containers up to date;           *)
(* observers of mutations and sizes, navigation and timers ask for frames. *)
(* The selects themselves (Filament) and the page are modelled from how    *)
(* the script uses them.                                                   *)
(***************************************************************************)
EXTENDS Integers, Sequences, FiniteSets

CONSTANTS
  Selects,        \* places of multiple selects in the header
  Values,         \* options that can be selected
  Layouts,        \* window sizes, with the styles that belong to them
  Room,           \* Room[s][l]: clientWidth of the container of s
  Natural,        \* Natural[v][l]: width of the badge of v
  Plus,           \* Plus[n][l]: width of the badge "+n"
  Gap,
  OptionLists,    \* what a search can leave of the options
  OptionsLimit,   \* optionsLimit, 0 for none
  Selections,     \* states a select gets from the server (bound)
  MaxBadges,      \* badges of a select (bound)
  MaxEvents,      \* events from outside (bound)
  None

Least(a, b) == IF a < b THEN a ELSE b
Greatest(a, b) == IF a < b THEN b ELSE a
Set(seq) == {seq[i] : i \in 1..Len(seq)}
Distinct(seq) == \A i, j \in 1..Len(seq) : seq[i] = seq[j] => i = j
(* SelectSeq without its recursion: the k-th of the places that are left.  *)
Without(seq, gone) ==
  LET left == {i \in 1..Len(seq) : seq[i] \notin gone}
      Rank(i) == Cardinality({j \in left : j <= i})
  IN [k \in 1..Cardinality(left) |-> seq[CHOOSE i \in left : Rank(i) = k]]

ASSUME BadgeAssumption ==
  /\ Gap \in Nat /\ OptionsLimit \in Nat /\ MaxBadges \in Nat /\ MaxEvents \in Nat
  /\ Room \in [Selects -> [Layouts -> Nat]]
  /\ Natural \in [Values -> [Layouts -> Nat]]
  /\ Plus \in [1..MaxBadges -> [Layouts -> Nat]]
  /\ Selections \subseteq Seq(Values)
  /\ \A state \in Selections : Distinct(state) /\ Len(state) <= MaxBadges
  /\ OptionLists # {}
  /\ OptionLists \subseteq Seq([group: BOOLEAN, values: Seq(Values)])

VARIABLES
  select,      \* the Filament select at each place, or None
  box,         \* the container of its badges, or None
  layout,      \* the layout of the window
  started,     \* start() has found the document's body
  watched,     \* observedBody is the body of the page
  noted,       \* kinds of mutations the MutationObserver has to report
  scheduled,   \* isScheduled: the next frame runs updateAll
  resized,     \* the ResizeObserver has something to report
  navigated,   \* livewire:navigated is due
  timers,      \* what scheduleAfterNavigation has set
  events       \* events from outside so far

vars == <<select, box, layout, started, watched, noted, scheduled, resized,
          navigated, timers, events>>
pageVars == <<layout, started, watched, navigated, timers>>

Kinds == {"badges", "select", "measurement"}

Measurement == Layouts \cup {None}
Tabs == {"own", "-1"}
Badge == [value: Values, hidden: BOOLEAN, tab: Tabs, kept: Tabs \cup {"no"},
          seen: Measurement]
OverflowBadge == [hidden: BOOLEAN, tab: Tabs, kept: Tabs \cup {"no"},
                  text: Nat, said: Nat, at: Nat, width: Nat,
                  cache: SUBSET (Nat \X Nat \X Layouts)]
Box == [badges: Seq(Badge), over: OverflowBadge \cup {None},
        count: Nat, observed: BOOLEAN]
List == [values: Seq(Values), checked: (SUBSET Values) \cup {None}]
Select == [state: Seq(Values), pending: {"no", "labels", "cleared"},
           enhanced: BOOLEAN, options: OptionLists, list: List]

ASSUME NoneAssumption == None \notin Layouts \cup OverflowBadge \cup Box

(* Styles that change the width of a badge change the container's, too: it *)
(* is by the size of the container that the script notices them.           *)
StylesResize ==
  \A s \in Selects, l, k \in Layouts : Room[s][l] = Room[s][k] => l = k

(* An option that is in no group is one option.                            *)
SingleOptions ==
  \A options \in OptionLists : \A n \in 1..Len(options) :
    ~options[n].group => Len(options[n].values) = 1

(* No value is offered both in a group and in none.                        *)
ValuesOf(options, group) ==
  UNION {Set(options[n].values) : n \in {m \in 1..Len(options) : options[m].group = group}}
OptionsApart ==
  \A options \in OptionLists : ValuesOf(options, TRUE) \cap ValuesOf(options, FALSE) = {}

(***************************************************************************)
(* Mutations of the page; the script's own measuring is one, too.          *)
(***************************************************************************)
Mutated(kinds) == noted' = noted \cup (IF watched THEN kinds ELSE {})
OnlyBadges == "badges" \in noted                       \* mutation of ShouldSchedule
AnyMutation == noted # {}                              \* mutation of ShouldSchedule
ShouldSchedule == "badges" \in noted \/ "select" \in noted

(* A container that changes or goes may have another size, also by what    *)
(* styles make of the class and the width the script puts on it; its room  *)
(* is taken to be the layout's all the same.                               *)
Reflow(b) == resized' \in IF b # None /\ b.observed THEN {resized, TRUE} ELSE {resized}

(***************************************************************************)
(* Hiding and showing a badge, with the tab order of its button.           *)
(***************************************************************************)
RememberedTwice(b) == b.tab                            \* mutation of Remembered
Remembered(b) == IF b.kept = "no" THEN b.tab ELSE b.kept
Conceal(b) == [b EXCEPT !.hidden = TRUE, !.kept = Remembered(b), !.tab = "-1"]
RestoreAlways(b) ==                                    \* mutation of Reveal
  [b EXCEPT !.hidden = FALSE, !.kept = "no", !.tab = b.kept]
Reveal(b) ==
  [b EXCEPT !.hidden = FALSE, !.kept = "no",
            !.tab = IF b.kept = "no" THEN b.tab ELSE b.kept]
SetHidden(b, isHidden) == IF isHidden THEN Conceal(b) ELSE Reveal(b)

FreshBadge(v) ==
  [value |-> v, hidden |-> FALSE, tab |-> "own", kept |-> "no", seen |-> None]
FreshOverflowBadge(at) ==
  [hidden |-> TRUE, tab |-> "own", kept |-> "no", text |-> 0, said |-> 0,
   at |-> at, width |-> 0, cache |-> {}]
FreshBox(state) ==
  [badges |-> [i \in 1..Len(state) |-> FreshBadge(state[i])], over |-> None,
   count |-> 0, observed |-> FALSE]

(***************************************************************************)
(* Measuring, with the caches.                                             *)
(***************************************************************************)
Measure(badges) ==
  [i \in 1..Len(badges) |->
     [badges[i] EXCEPT !.seen = IF badges[i].seen = None THEN layout ELSE badges[i].seen]]

WidthSums(widths) ==
  LET sums[n \in 0..Len(widths)] == IF n = 0 THEN 0 ELSE sums[n - 1] + widths[n]
  IN sums

MeasuredAt(over, count) ==
  LET cached == {l \in Layouts : <<over.text, count, l>> \in over.cache}
  IN IF cached = {} THEN layout ELSE CHOOSE l \in cached : TRUE
OverflowWidth(over, count) == Plus[count][MeasuredAt(over, count)]

Fits(s, badges, over, visible) ==
  LET n == Len(badges)
      items == visible + (IF visible < n THEN 1 ELSE 0)
      sums == WidthSums([i \in 1..n |-> Natural[badges[i].value][badges[i].seen]])
  IN sums[visible] + (IF visible < n THEN OverflowWidth(over, n - visible) ELSE 0)
       + Greatest(0, items - 1) * Gap
     <= Room[s][layout]

(* As many badges as fit, beside the overflow badge if some do not.  A     *)
(* container without width is not on display.                              *)
VisibleCount(s, badges, over) ==
  LET n == Len(badges)
  IN IF Room[s][layout] <= 0 THEN n
     ELSE CHOOSE k \in 0..n :
            /\ k = 0 \/ Fits(s, badges, over, k)
            /\ \A other \in (k + 1)..n : ~Fits(s, badges, over, other)

(* The counts the search has gone through are measured.                    *)
Measured(over, overflow) ==
  [over EXCEPT !.cache = @ \cup {<<over.text, n, MeasuredAt(over, n)>> : n \in 1..overflow}]
Labelled(over, overflow) == [over EXCEPT !.text = overflow, !.said = overflow]

(***************************************************************************)
(* updateContainer.                                                        *)
(***************************************************************************)
EnsureOverflowBadge(b) ==
  IF b.over = None THEN FreshOverflowBadge(Len(b.badges)) ELSE b.over
NoOverflow(over) == [SetHidden(over, TRUE) EXCEPT !.said = 0, !.width = 0]
Overflow(over, visible, overflow) ==
  [SetHidden(Labelled(over, overflow), FALSE) EXCEPT
     !.width = Plus[overflow][layout], !.at = visible]
SetAllHidden(badges, visible) ==
  [i \in 1..Len(badges) |-> SetHidden(badges[i], i > visible)]

(* The first search, and the overflow badge it leaves for the second one.  *)
FirstOverflow(s, b) ==
  Len(b.badges) - VisibleCount(s, Measure(b.badges), EnsureOverflowBadge(b))
Relabelled(s, b) ==
  LET over == Measured(EnsureOverflowBadge(b), FirstOverflow(s, b))
  IN IF FirstOverflow(s, b) = 0 THEN over ELSE Labelled(over, FirstOverflow(s, b))

UpdateContainer(s, b) ==
  LET n == Len(b.badges)
      badges == Measure(b.badges)
      over == Relabelled(s, b)
      visible == VisibleCount(s, badges, over)
      measured == Measured(over, n - visible)
  IN IF n <= 1
     THEN [b EXCEPT !.badges = SetAllHidden(b.badges, n), !.count = 0,
                    !.over = NoOverflow(EnsureOverflowBadge(b))]
     ELSE [b EXCEPT !.badges = SetAllHidden(badges, visible), !.count = n - visible,
                    !.over = IF visible = n THEN NoOverflow(measured)
                             ELSE Overflow(measured, visible, n - visible)]

(* What the observer sees of it: the overflow badge appended, moved, or    *)
(* with another text, and the clones that are measured.                    *)
Writes(s, b) ==
  LET old == EnsureOverflowBadge(b)
      new == UpdateContainer(s, b)
  IN (IF \/ b.over = None
         \/ old.at # new.over.at
         \/ Len(b.badges) > 1 /\ Relabelled(s, b).text # old.text
         \/ new.over.text # old.text
      THEN {"badges"} ELSE {})
     \cup (IF \/ new.over.width > 0 \/ new.over.cache # old.cache
              \/ \E i \in 1..Len(b.badges) : b.badges[i].seen # new.badges[i].seen
           THEN {"measurement"} ELSE {})

(***************************************************************************)
(* The list of options: groups and single options up to the limit.  The    *)
(* first single option makes a list of its own, which takes all the later  *)
(* ones; a group goes to the end.  The select's own list leaves the        *)
(* selected ones out; the enhanced one checks them.                        *)
(***************************************************************************)
WholeGroup(values, remainingSlots) == values           \* mutation of Slice
Slice(values, remainingSlots) ==
  SubSeq(values, 1, Least(remainingSlots, Len(values)))
Nothing == [before |-> <<>>, ungrouped |-> <<>>, after |-> <<>>]
CountOf(r) == Len(r.before) + Len(r.ungrouped) + Len(r.after)
Appended(r, isGroup, values) ==
  IF ~isGroup THEN [r EXCEPT !.ungrouped = @ \o values]
  ELSE IF r.ungrouped = <<>> THEN [r EXCEPT !.before = @ \o values]
  ELSE [r EXCEPT !.after = @ \o values]
RenderedOptions(options, limit) ==
  LET rendered[n \in 0..Len(options)] ==
        IF n = 0 THEN Nothing
        ELSE LET r == rendered[n - 1]
                 option == options[n]
             IN IF limit > 0 /\ CountOf(r) >= limit THEN r
                ELSE Appended(r, option.group,
                              IF limit > 0 /\ option.group
                              THEN Slice(option.values, limit - CountOf(r))
                              ELSE option.values)
      all == rendered[Len(options)]
  IN all.before \o all.ungrouped \o all.after

EnhancedList(options, state) ==
  [values |-> RenderedOptions(options, OptionsLimit), checked |-> Set(state)]
PlainList(options, state) ==
  LET left == [n \in 1..Len(options) |->
                 [options[n] EXCEPT !.values = Without(@, Set(state))]]
  IN [values |-> RenderedOptions(left, OptionsLimit), checked |-> None]
Listed(x) ==
  [x EXCEPT !.list = IF x.enhanced THEN EnhancedList(x.options, x.state)
                     ELSE PlainList(x.options, x.state)]
Enhance(x) ==
  IF x.enhanced THEN x
  ELSE [x EXCEPT !.enhanced = TRUE, !.list = EnhancedList(x.options, x.state)]

(***************************************************************************)
(* The script.                                                             *)
(***************************************************************************)
Init ==
  /\ select = [s \in Selects |-> None] /\ box = [s \in Selects |-> None]
  /\ layout \in Layouts
  /\ started \in BOOLEAN /\ watched = started
  /\ noted = {} /\ scheduled = TRUE /\ resized = FALSE
  /\ navigated = FALSE /\ timers = {} /\ events = 0

Start ==
  /\ ~started
  /\ started' = TRUE /\ watched' = TRUE
  /\ UNCHANGED <<select, box, layout, noted, scheduled, resized, navigated,
                 timers, events>>

ObserveBody == watched' = TRUE

(* The frame.  Before the document is there, its body may be or not.       *)
UpdateAll ==
  LET shown == {s \in Selects : box[s] # None}
      plain == {s \in Selects : select[s] # None /\ ~select[s].enhanced}
      kinds == (UNION {Writes(s, box[s]) : s \in shown})
                 \cup (IF plain = {} THEN {} ELSE {"select"})
      appears == \E s \in shown : ~box[s].observed /\ Room[s][layout] > 0
  IN /\ scheduled /\ scheduled' = FALSE
     /\ IF started THEN ObserveBody ELSE watched' \in {watched, TRUE}
     /\ select' = [s \in Selects |-> IF s \in plain THEN Enhance(select[s]) ELSE select[s]]
     /\ box' = [s \in Selects |->
                  IF s \in shown
                  THEN [UpdateContainer(s, box[s]) EXCEPT !.observed = started]
                  ELSE None]
     /\ noted' = noted \cup (IF watched' THEN kinds ELSE {})
     /\ resized' \in IF started /\ appears THEN {TRUE}
                     ELSE IF "badges" \in kinds THEN {resized, TRUE} ELSE {resized}
  /\ UNCHANGED <<layout, started, navigated, timers, events>>

(* The callbacks of the MutationObserver and of the ResizeObserver.        *)
MutationsReported ==
  /\ noted # {}
  /\ noted' = {} /\ scheduled' = (scheduled \/ ShouldSchedule)
  /\ UNCHANGED <<select, box, pageVars, resized, events>>

KeepCaches(b) == b                                     \* mutation of ClearCaches
ClearCaches(b) ==
  [b EXCEPT !.badges = [i \in 1..Len(b.badges) |-> [b.badges[i] EXCEPT !.seen = None]],
            !.over = IF b.over = None THEN None ELSE [b.over EXCEPT !.cache = {}]]
SizeReported ==
  /\ resized
  /\ resized' = FALSE /\ scheduled' = TRUE
  /\ box' = [s \in Selects |-> IF box[s] = None THEN None ELSE ClearCaches(box[s])]
  /\ UNCHANGED <<select, pageVars, noted, events>>

ScheduleAfterNavigation ==
  /\ navigated /\ started
  /\ ObserveBody /\ scheduled' = TRUE
  /\ timers' = {"frame", "timeout"} /\ navigated' = FALSE
  /\ UNCHANGED <<select, box, layout, started, noted, resized, events>>

TimerFires(timer) ==
  /\ timer \in timers
  /\ timers' = timers \ {timer} /\ scheduled' = TRUE
  /\ UNCHANGED <<select, box, layout, started, watched, noted, resized,
                 navigated, events>>

(***************************************************************************)
(* The selects and the page.                                               *)
(***************************************************************************)
Event == events < MaxEvents /\ events' = events + 1
BoxOf(state) == IF state = <<>> THEN None ELSE FreshBox(state)

(* updateSelectedDisplay of a select that has become x: badges at once, or *)
(* after the labels that are not known yet have been asked for.            *)
UpdateSelectedDisplay(s, x, shownUntilThen, asking) ==
  \/ /\ box' = [box EXCEPT ![s] = BoxOf(x.state)]
     /\ select' = [select EXCEPT ![s] = [x EXCEPT !.pending = "no"]]
  \/ /\ x.state # <<>>
     /\ box' = [box EXCEPT ![s] = shownUntilThen]
     /\ select' = [select EXCEPT ![s] = [x EXCEPT !.pending = asking]]

(* A select appears, also one in the place of another; its component's     *)
(* file is loaded once the page is there.                                  *)
Create(s, state, options) ==
  /\ Event /\ started
  /\ UpdateSelectedDisplay(s, [state |-> state, pending |-> "no", enhanced |-> FALSE,
                               options |-> options, list |-> PlainList(options, state)],
                           None, "labels")
  /\ Mutated({"select"}) /\ Reflow(box[s])
  /\ UNCHANGED <<pageVars, scheduled>>

(* The labels have been answered.                                          *)
Display(s) ==
  /\ select[s] # None /\ select[s].pending # "no"
  /\ box' = [box EXCEPT ![s] = FreshBox(select[s].state)]
  /\ select' = [select EXCEPT ![s].pending = "no"]
  /\ scheduled' = (scheduled \/ select[s].pending = "cleared")
  /\ Mutated({"badges"}) /\ Reflow(box[s])
  /\ UNCHANGED <<pageVars, events>>

ServerChange(s, state) ==
  /\ Event /\ select[s] # None /\ select[s].state # state
  /\ UpdateSelectedDisplay(s, Listed([select[s] EXCEPT !.state = state]), box[s], "labels")
  /\ Mutated({"select"}) /\ Reflow(box[s])
  /\ UNCHANGED <<pageVars, scheduled>>

Search(s, options) ==
  /\ Event /\ select[s] # None /\ select[s].options # options
  /\ select' = [select EXCEPT ![s] = Listed([@ EXCEPT !.options = options])]
  /\ Mutated({"select"})
  /\ UNCHANGED <<box, pageVars, scheduled, resized>>

(* selectOption, from the list or by the button of a badge: in the         *)
(* container itself, unless it is not there or this is its last child.     *)
Seen(b) == IF b = None THEN {} ELSE {x.value : x \in {x \in Set(b.badges) : ~x.hidden}}
Shown(b) == IF b = None THEN {} ELSE {x.value : x \in Set(b.badges)}
Children(b) == Len(b.badges) + (IF b.over = None THEN 0 ELSE 1)

WithoutBadge(b, v) ==
  LET i == CHOOSE i \in 1..Len(b.badges) :
             /\ b.badges[i].value = v
             /\ \A j \in 1..(i - 1) : b.badges[j].value # v
      over == IF b.over = None THEN None
              ELSE [b.over EXCEPT !.at = IF i <= b.over.at THEN b.over.at - 1 ELSE b.over.at]
  IN [b EXCEPT !.badges = SubSeq(b.badges, 1, i - 1) \o SubSeq(b.badges, i + 1, Len(b.badges)),
               !.over = over]
WithBadge(b, v) == [b EXCEPT !.badges = Append(@, FreshBadge(v))]

Toggle(s, v) ==
  /\ Event /\ select[s] # None
  /\ v \in Set(select[s].list.values) \cup Seen(box[s])
  /\ LET state == select[s].state
         less == Listed([select[s] EXCEPT !.state = Without(state, {v})])
         more == Listed([select[s] EXCEPT !.state = Append(state, v)])
     IN \/ /\ v \in Set(state) /\ v \in Shown(box[s]) /\ Children(box[s]) > 1
           /\ box' = [box EXCEPT ![s] = WithoutBadge(@, v)]
           /\ select' = [select EXCEPT ![s] = less]
        \/ /\ v \in Set(state) /\ (v \in Shown(box[s]) => Children(box[s]) = 1)
           /\ UpdateSelectedDisplay(s, less, box[s], "labels")
        \/ /\ v \notin Set(state) /\ Len(state) < MaxBadges /\ box[s] # None
           /\ Len(box[s].badges) < MaxBadges
           /\ box' = [box EXCEPT ![s] = WithBadge(@, v)]
           /\ select' = [select EXCEPT ![s] = more]
        \/ /\ v \notin Set(state) /\ Len(state) < MaxBadges /\ box[s] = None
           /\ UpdateSelectedDisplay(s, more, box[s], "labels")
  /\ Mutated({"badges", "select"}) /\ Reflow(box[s])
  /\ UNCHANGED <<pageVars, scheduled>>

(* The button on the overflow badge: removeOverflowSelections.             *)
EveryBadge(b) == Shown(b)                              \* mutation of HiddenOverflowValues
HiddenOverflowValues(b) == {x.value : x \in {x \in Set(b.badges) : x.hidden}}
ForgotDisplay(s, x) ==                                 \* mutation of DisplayCleared
  /\ select' = [select EXCEPT ![s] = x] /\ scheduled' = TRUE /\ UNCHANGED box
DisplayCleared(s, x) ==
  /\ UpdateSelectedDisplay(s, x, box[s], "cleared")
  /\ scheduled' = (scheduled \/ select'[s].pending = "no")
RemoveOverflowSelections(s) ==
  /\ Event /\ select[s] # None /\ box[s] # None
  /\ box[s].over # None /\ ~box[s].over.hidden
  /\ HiddenOverflowValues(box[s]) \cap Set(select[s].state) # {}
  /\ LET state == Without(select[s].state, HiddenOverflowValues(box[s]))
     IN DisplayCleared(s, Listed([select[s] EXCEPT !.state = state]))
  /\ Mutated({"badges", "select"}) /\ Reflow(box[s])
  /\ UNCHANGED pageVars

ResizeWindow(l) ==
  /\ Event /\ layout' = l /\ l # layout
  /\ resized' = (resized \/ \E s \in Selects : /\ box[s] # None /\ box[s].observed
                                               /\ Room[s][l] # Room[s][layout])
  /\ UNCHANGED <<select, box, started, watched, noted, scheduled, navigated, timers>>

(* Another page, with a body of its own and later selects of its own.      *)
Navigate ==
  /\ Event /\ started
  /\ select' = [s \in Selects |-> None] /\ box' = [s \in Selects |-> None]
  /\ watched' = FALSE /\ navigated' = TRUE
  /\ resized' \in {resized, TRUE}
  /\ UNCHANGED <<layout, started, noted, scheduled, timers>>

(* The livewire hook morph.updated.                                        *)
Morphed ==
  /\ Event /\ started /\ scheduled' = TRUE
  /\ UNCHANGED <<select, box, pageVars, noted, resized>>

Callback ==
  \/ Start \/ UpdateAll \/ MutationsReported \/ SizeReported
  \/ ScheduleAfterNavigation
  \/ \E timer \in {"frame", "timeout"} : TimerFires(timer)
  \/ \E s \in Selects : Display(s)

Environment ==
  \/ \E s \in Selects, state \in Selections, options \in OptionLists :
       Create(s, state, options)
  \/ \E s \in Selects :
       \/ \E state \in Selections : ServerChange(s, state)
       \/ \E options \in OptionLists : Search(s, options)
       \/ \E v \in Values : Toggle(s, v)
       \/ RemoveOverflowSelections(s)
  \/ \E l \in Layouts : ResizeWindow(l)
  \/ Navigate \/ Morphed

Next == Callback \/ Environment
Spec == Init /\ [][Next]_vars

(* The browser runs what is due in a page that is on display, and requests *)
(* for labels are answered; nobody has to use the page.  Only UpdateAll     *)
(* takes the mark of a scheduled frame away.                               *)
FrameRuns == scheduled /\ scheduled' = FALSE
FairSpec ==
  /\ Spec /\ WF_scheduled(FrameRuns) /\ WF_vars(Start) /\ WF_vars(MutationsReported)
  /\ WF_vars(SizeReported) /\ WF_vars(ScheduleAfterNavigation)
  /\ \A timer \in {"frame", "timeout"} : WF_vars(TimerFires(timer))
  /\ \A s \in Selects : WF_vars(Display(s))

(***************************************************************************)
(* Properties.                                                             *)
(***************************************************************************)
(* Every variable has its type.                                            *)
TypeOK ==
  /\ select \in [Selects -> Select \cup {None}]
  /\ box \in [Selects -> Box \cup {None}]
  /\ layout \in Layouts
  /\ started \in BOOLEAN /\ watched \in BOOLEAN /\ noted \subseteq Kinds
  /\ scheduled \in BOOLEAN
  /\ resized \in BOOLEAN /\ navigated \in BOOLEAN
  /\ timers \subseteq {"frame", "timeout"} /\ events \in 0..MaxEvents

(* Nothing is on its way that would make the script look at the page.      *)
Quiet ==
  /\ started /\ noted = {} /\ ~scheduled /\ ~resized /\ ~navigated /\ timers = {}
  /\ \A s \in Selects : select[s] # None => select[s].pending = "no"

(* The keyboard reaches the buttons of the badges that are seen, and only  *)
(* those: however often a badge is hidden again and shown again, its       *)
(* button gets back the place in the tab order that it had of its own.     *)
FocusFollowsSight ==
  \A s \in Selects : box[s] # None =>
    /\ \A b \in Set(box[s].badges) : b.tab = IF b.hidden THEN "-1" ELSE "own"
    /\ box[s].over # None =>
         box[s].over.tab = IF box[s].over.hidden THEN "-1" ELSE "own"

(* The badges of a select are those of its state, in order, unless labels  *)
(* are being asked for: also when overlapping changes of the server, of    *)
(* the list and of the overflow badge's button replace or edit them.       *)
DisplayedIsSelected ==
  \A s \in Selects :
    select[s] # None /\ select[s].pending = "no" =>
      IF box[s] = None THEN select[s].state = <<>>
      ELSE select[s].state = [i \in 1..Len(box[s].badges) |-> box[s].badges[i].value]

(* What updateContainer is for ("show +N only when badges run out of       *)
(* space"), by the widths of today's layout.                               *)
Need(b, visible) ==
  LET n == Len(b.badges)
      sums == WidthSums([i \in 1..n |-> Natural[b.badges[i].value][layout]])
      plus == IF visible = n THEN 0 ELSE Plus[n - visible][layout]
      gaps == IF visible = n THEN Greatest(0, n - 1) ELSE visible
  IN sums[visible] + plus + gaps * Gap
HiddenOf(b) == {i \in 1..Len(b.badges) : b.badges[i].hidden}
Arranged(s, b) ==
  LET n == Len(b.badges)
      visible == Len(b.badges) - b.count
      roomFor(k) == Need(b, k) <= Room[s][layout]
  IN /\ b.over # None
     /\ HiddenOf(b) = (visible + 1)..n
     /\ b.over.hidden <=> visible = n
     /\ n > 1 /\ Room[s][layout] > 0 =>
          /\ roomFor(visible) \/ visible = 0
          /\ \A k \in (visible + 1)..n : ~roomFor(k)
     /\ n <= 1 \/ Room[s][layout] = 0 => visible = n
     /\ visible < n => /\ b.over.at = visible
                       /\ b.over.text = n - visible /\ b.over.said = n - visible
                       /\ b.over.width = Plus[n - visible][layout]

(* When nothing is on its way, every container is arranged: no mutation,   *)
(* no change of size and no navigation has been missed, and no width of    *)
(* another layout has been used.                                           *)
SettledIsArranged ==
  Quiet => \A s \in Selects : box[s] # None => Arranged(s, box[s])

(* And every select's list shows the options with the selected ones        *)
(* checked, also of a select that has taken the place of another one.      *)
SettledListIsChecked ==
  Quiet => \A s \in Selects : select[s] # None =>
             select[s].list.checked = Set(select[s].state)

(* The list has the first options up to the limit, none lost, doubled or   *)
(* beyond it, where a group is cut, empty or met after the limit: those in *)
(* groups in their order, and those in none in theirs.                     *)
FirstOptions(options) ==
  LET all[n \in 0..Len(options)] ==
        IF n = 0 THEN <<>> ELSE all[n - 1] \o options[n].values
      flat == all[Len(options)]
  IN IF OptionsLimit = 0 THEN flat ELSE SubSeq(flat, 1, Least(OptionsLimit, Len(flat)))
ListedUpToLimit ==
  \A s \in Selects :
    select[s] # None /\ select[s].enhanced =>
      \A group \in BOOLEAN :
        Without(select[s].list.values, ValuesOf(select[s].options, group)) =
          Without(FirstOptions(select[s].options), ValuesOf(select[s].options, group))

(* The button takes from the selection what is hidden, and nothing that is *)
(* seen: at any time, unless the badges wait for labels.  And it says      *)
(* "Remove N hidden selections": once the page is settled, N are removed.  *)
ClearsWhatItSays ==
  [][\A s \in Selects :
       RemoveOverflowSelections(s) =>
         /\ select[s].pending = "no" => Set(select'[s].state) = Seen(box[s])
         /\ Quiet => Len(select'[s].state) = Len(select[s].state) - box[s].over.said]_vars

(* The script comes to rest: what it writes and measures makes it look     *)
(* again, but not for ever.                                                *)
ComesToRest == <>[]Quiet
=================================================================================
