# Procurement: a verification project

This directory holds TLA+ models of the procurement application in this
repository (Laravel, PHP, PostgreSQL, and two scripts of its own in the
browser), the TLC configurations that check them and theorems about them that
TLAPS checks.  The code is the reference: every
definition is translated from the lines `PROJECT.json` ("map") gives for it.

Paths below are relative to the repository; `S/` is `app/Services/`.

## 1. The system

A field office writes a **purchase request**, procurement reviews it and hands
it off to a **workflow**, approvers decide the tasks of an **approval
instance**, and the last approval reserves money on a **budget**.  After that
come quotations, purchase orders, receiving, distribution, invoices and
payments.  On the server everything is a call of a web request (or a queued or
scheduled job) on one relational database; there is no other shared state.  In
the browser two scripts work on the pages Filament and Livewire make: one draws
a **workflow** as cards that can be dragged, one keeps the **badges of the
header filters** on one line.  They share the document, the browser's storage
and the event loop with code they do not control.

| component | state | operations | correct if |
|---|---|---|---|
| Request drafting and submission (`S/ProcurementRequestDraftSaver.php`, `-Submitter.php`) | request row, items, number | save, submit, delete | a request is numbered once; what is under approval is not edited |
| Procurement review (`S/ProcurementReviewService.php`) | request status and items | forward, edit, return, hand off | one approval at a time; status and approval agree |
| Cancellation (`S/PurchaseRequestCancellationService.php`) | request status | cancel | never after a hand-off or an outcome |
| Instance creation (`S/ApprovalInstanceCreator.php`) | instance, task rows | create | one active instance, first applicable step pending, the others queued |
| Approval decisions (`S/ApprovalActionService.php`) | task, instance and request rows | approve, reject, return, cancel | steps in order, none left out, outcome final, nothing stuck |
| SLA and escalation (`S/ApprovalTaskLifecycleService.php`) | task rows | expire, escalate, warn | an expired task is replaced, once; decisions stay |
| Budget reservations (`S/BudgetReservationService.php`) | reservation rows | reserve, release, cancel, revise, commit | nothing is booked that is not there; committed amounts are fixed |
| Database transactions (`app/Support/DomainTransaction.php`) | - | one attempt, all or nothing | - |
| Workflow resolution, stages, preview (`S/WorkflowResolver.php`, ...) | none (reads configuration) | resolve, preview | pure; the approvers are those of the request that is approved |
| Workflow configuration (`app/Models/WorkflowVersion.php`, ...) | versions | activate, retire | at most one active version per workflow |
| Receiving (`S/ReceivingService.php`) | receipts | record, correct | never more than ordered; never below what was passed on |
| Distribution (`S/DistributionService.php`) | distributions, pilgrims' receipts | record, complete | never more than received in the office |
| Invoices and payments (`S/InvoiceMatchingService.php`, `S/InvoicePaymentService.php`) | invoices, payments | record, approve, pay | payments never exceed the invoice |
| Sample shipments (`S/SampleShipmentService.php`, `...ReceiptService.php`) | shipments | send, receive, ... | two offices agree on the state |
| Quotations (`S/QuotationComparisonService.php`) | quotations, recommendations | compare, recommend | a recommendation matches what was compared |
| Feature modules (`S/FeatureModuleService.php`) | switches, a cache | toggle, read | a switch takes effect |
| Workflow canvas (`resources/js/workflow-visual.js`) | element attributes, closure variables, `localStorage` | initialize, drag, release, reset, frames | bound once; nothing sticks to a pointer; arrows follow; what is shown is what is stored |
| Header filter badges (`public/js/leek/filament-header-filters/filament-header-filters.js`) | hidden badges, tab order, cached widths, a scheduled frame, observers | update all, clear the hidden ones, schedule | comes to rest; then shows what fits, and the button does what it says |
| Attachments, access context, sign-in, validation, timelines, catalogue data, user interface, notifications | see `PROJECT.json` | | not modelled, with the reason there |

**How they interact.**  The submitter (for a category with a workflow of its
own) and the hand-off call the creator inside their transaction; the creator
writes the task rows from a resolved workflow and sets the request's status to
the key of the first step.  A decision writes its task, the instance and the
request in one transaction and, when the request is approved, calls the budget
service in it, so that a refused reservation undoes the decision.  The SLA job
changes task rows next to all this without any transaction.  An administrator
edits workflows and budgets through forms that know nothing of the rows in use.

The browser's scripts call nothing on the server.  The canvas is initialized by
whoever sees it first (the script, `livewire:navigated`, a MutationObserver) and
stores its layout under the workflow version.  The badge script replaces
`renderOptions` of Filament's selects, hides badges they have made, and its
clear button changes their selection as a click would.

**What is hard.**  Calls overlap.  Many checks are made on models that were
loaded before the transaction that acts on them; some services lock the row and
check again, some do not.  Locks are row locks, taken in different orders by
different operations; PostgreSQL (README.md:17,30) breaks a deadlock by
aborting one transaction, and `DomainTransaction::run` does not retry.  The
tests run on SQLite (phpunit.xml:27), one call after the other, so none of this
is reached by a test.  In
the browser one thing happens at a time, but in an order nobody chose: an
animation frame after an observer's callback or before it, navigation or a
Livewire update between two, an answer of the server after the user went on, a
second finger in the middle of a drag.  Neither script has a test.  The hazards
are listed one by one, at their lines, in `PROJECT.json`; section 6 names those
that were left out of the list.

## 2. Modules

| module | what it is |
|---|---|
| `ApprovalOutcome` | abstract: steps are passed in order, the last one approves, a refusal ends it |
| `ApprovalRun` | one approval instance: `decide`, statement by statement, and the SLA run |
| `MCApprovalRun` | its workflows and users for TLC |
| `ApprovalRun_proofs` | theorems about it: its own order, outcome and locks |
| `ApprovalRunSteps_proofs` | an approved request went through every step |
| `ApprovalRunOutcome_proofs` | it implements `ApprovalOutcome`, and nobody is stranded |
| `ApprovalRunSla_proofs` | what holds of it while SLA runs are active |
| `BudgetPool` | abstract: money is booked on active budgets and only while it is there |
| `BudgetLedger` | the five reservation operations with their locks, and the administrator's edits |
| `MCBudgetLedger`, `BudgetLedger_proofs` | its instance for TLC, its theorems |
| `PurchaseRequestFlow` | abstract: the life of a request as its users see it |
| `PurchaseRequest` | one request between requester, reviewers and approvers |
| `MCPurchaseRequest`, `PurchaseRequest_proofs` | its instances for TLC, its theorems |
| `WorkflowCanvas` | the canvas in its browser tabs: opening, binding, dragging, storing |
| `MCWorkflowCanvas`, `WorkflowCanvas_proofs` | its instance for TLC, its theorems |
| `BadgeOverflow` | the badge script, the selects and the page around it |
| `MCBadgeOverflow`, `BadgeOverflow_proofs` | its instance for TLC, its theorems |

The systems of the server meet at narrow places: `PurchaseRequest` takes the decisions
on an instance as single steps (`Approve`, `Close`), and `ApprovalRun` shows
that, and when, this is what the code's transactions amount to
(`ImplementsOutcome`); `ApprovalRun` takes the reservation as an accept or a
refusal (`ReserveRefused`), and `BudgetLedger` shows what that answer rests on.

### ApprovalRun

`info`, `status`, `decision`, `late` are the columns of the task rows
(`approval_instance_steps`), a row being a number in `1..MaxTasks`; `inst` and
`pr` are the statuses of the instance and of the request.  While a request is
being approved its status is the key of a step; the model keeps it as the step's
order together with the row an escalated row replaces.

`tx[p]` is the database transaction of a session in `decide`:

| action | code (`S/ApprovalActionService.php`) |
|---|---|
| `Begin` | the checks before the transaction (88-115) |
| `LockStep`, `Refuse` | `lockForUpdate` of the task row, the re-read of instance, request and rows, the checks again (117-143) |
| `Record` | the decision, and what `groupCompleted` or `closeAsTerminal` reads (145-164, 212-240, 328) |
| `Skip` | one row of that list written `skipped` (219-233) |
| `Advance`, `Open` | `advance`: the rows read again, the next step's rows opened one by one (242-285) |
| `CommitWaiting`, `CommitAdvance`, `CommitClosed`, `CommitApproved` | the last writes and the commit |
| `ReserveRefused` | the reservation throws: everything is undone (373-377) |
| `DeadlockAbort` | PostgreSQL ends a transaction that waits in a circle |

READ COMMITTED is modelled as it is: `Seen(p, t)` is what a statement of `p`
reads (its own writes, else the committed row), a write to a row waits until no
other transaction has written it (`FreeFor`), and nothing is read again when the
wait ends, because Eloquent's `save` writes by primary key.  The writes to the
instance and the request are always the last statements of a transaction, so
they happen in the commit; the instance's in-memory copy (`seenInst`, `seenPr`)
decides whether Eloquent issues them at all.

`sweep[s]` is an SLA run (`S/ApprovalTaskLifecycleService.php`:103-247):
`SlaBegin` lists the overdue tasks, `SlaExpire` writes one `expired`,
`SlaEscalate` inserts its replacement, each write committed by itself;
`SlaAbort` is the worker's death or an exception between two of them.

### BudgetLedger

`budget` and `row` are the rows of `budgets` and `budget_reservations`, `tx` the
transaction of a session.  `reserve` locks the budget and then the reservation;
`release`, `cancel`, `revise` and `commit` lock the reservation and then the
budget (`WantsBudget`, `WantsRow`).  `Read` is the sum of the reservations,
`Commit` the decision and the write.  `Edit` is the administrator's form.  The
application itself only calls `reserve`; the other operations are public,
tested, and modelled as they are.  A sum is counted as the number of units the
reservations hold, so that it is defined without recursion and can be proved
about.

### PurchaseRequest

`status`, `content`, `numbers` are the request's; `approval` its instances, each
with the content its workflow was resolved for and the stage it is at.  A
content stands for what decides the workflow (total, category, cost centre),
`PlanOf` for the resolved stage keys.  A call is a `Call`, in which the service
or policy looks at the copy it was given, and a transaction: `Save`, `Submit`,
`Delete`, `Cancel`, `Forward`, `HandOff`, `Return`, `Edit`, or `Refuse`.  The
copy's content is kept because `HandOff` resolves the workflow before it locks
(`S/ProcurementReviewService.php`:198).

### WorkflowCanvas

One record per tab.  `page` is what the tab shows, `marked` the attribute
`data-initialized`, `bound` how often the listeners are on the element, `calls`
the callers of `initializeWorkflowCanvases` still to come; `pos` is
`style.left/top` of the cards, `drag` the closure's `dragStart`, `pan` its
`panStart`, `held` what each pointer went down on, `edges` what the arrows were
last drawn from, `storage` the layout in `localStorage` and `copy` the HTML
Livewire keeps for the back button.

| action | code (`resources/js/workflow-visual.js`) |
|---|---|
| `Open`, `Callings` | the element appears; the script, the navigation event and the observer |
| `AlreadyInitialized`, `Initialize` | the guard and the body of `initializeWorkflowCanvas`, with the restored layout |
| `TakeNode`, `MoveNode`, `Release`, `FinishDrag` | the pointer handlers of a card: limit, draw, snap, save |
| `TakeCanvas` | the pointer handlers of the canvas |
| `Reset`, `Frame`, `Fold` | the toolbar's reset, `requestAnimationFrame`, the ResizeObserver |
| `Leave`, `Rerender` | what Livewire does to the element |

Zoom and scrolling are left out; a card is where it is in the world.

### BadgeOverflow

`select` is what the script uses of Filament's select (selection, whether
`renderOptions` has been replaced, the list made last, whether labels are being
asked for), `box` the container of its badges: each badge with its being hidden,
the `tabindex` of its button, the one kept for later and the layout it was
measured in; the overflow badge with its label, its accessible name, its place,
its width and its cache.  A width is `Natural[v][l]`, a function of the badge
and the layout it was measured in; so a stale width is a stale `l`.

| action | code (`filament-header-filters.js`) |
|---|---|
| `UpdateAll` | one frame: `updateAll`, with `enhanceSelect` and `updateContainer` of everything on the page, and the mutations these cause |
| `UpdateContainer`, `VisibleCount`, `Fits` | the two searches with measuring and relabelling between them |
| `MutationsReported`, `SizeReported` | the callbacks of the two observers, with `clearMeasurementCache` |
| `Start`, `ScheduleAfterNavigation`, `TimerFires`, `Morphed` | `start`, the navigation's frame and timeout, the Livewire hook |
| `RemoveOverflowSelections`, `DisplayCleared` | the clear button, with the late badges if labels must be asked for |
| `Create`, `Display`, `ServerChange`, `Search`, `Toggle`, `Navigate`, `ResizeWindow` | the select, the page and the window: external, modelled from how the script uses them |

`Writes` says which mutations a frame makes and so what the script makes itself
look at again; `Reflow` leaves open whether a change of badges changes the
container's size.  `Without` is `filter`, written with ranks so that it needs no
recursion and can be proved about.

## 3. Runs

All the passing runs are exhaustive at their bounds.  Four more runs, in
section 4, end with a counterexample.

| run | question | distinct states |
|---|---|---|
| `ApprovalRun_concurrent` | three approvers at once, every mode, refusals, budget refusals, deadlocks | 80,297 |
| `ApprovalRun_answered` | do answered approvals end, and as the abstract approval does? | 5,902 |
| `ApprovalRun_sla` | two approvers and two overlapping SLA runs that may die | 1,333,775 |
| `BudgetLedger_contended` | two sessions, two requests, one budget, an administrator | 177,690 |
| `PurchaseRequest_concurrent` | three overlapping calls and the approvers | 335,118 |
| `PurchaseRequest_alone` | one call at a time, three approvals in a row | 2,165 |
| `WorkflowCanvas_handled` | two cards, two pointers, one tab that comes and goes | 251,872 |
| `BadgeOverflow_settled` | one select of four values, four layouts, four events from outside | 364,249 |

What they show:

- *Approvers only* (`ApprovalRun_concurrent`): the request and its instance end
  together (`RequestMirrorsInstance`), an outcome is final although `isActive`
  is read without a lock (`TerminalIsFinal`), steps are worked on in order
  (`OnlyTheFirstStepIsPending`), and an approved request has the approvals its steps ask for
  (`ApprovedByEveryStep`).  This is not the row lock's merit alone: it holds
  because whoever ends an instance or opens a step must first write, hence
  wait for, every open row.
- *One row per step, or any-of groups* (`ApprovalRun_answered`): the instance is
  never stranded, it ends if its tasks are answered, and the transactions
  implement `ApprovalOutcome`.
- *SLA runs* (`ApprovalRun_sla`): they overwrite committed decisions, reopen
  steps and leave tasks without a replacement (section 4).  What holds all the
  same, with approvers and overlapping, dying runs at once: no step is begun
  before its turn (`NothingIsOvertaken`), a task has no more replacements than
  there are runs, so one if they do not overlap (`ReplacedPerRun`), and an
  approver's decision is not made a second time (`DecidedOnce`).
  `ApprovalRunSla_proofs` shows these for any number of both, and what holds
  besides for runs that do not die, or for one approver at a time.
- *Budgets*: what a transaction decides on is current when it writes although
  it reads the sum without locking it (`DecidesOnCurrent`), committed amounts
  stay (`CommittedIsFixed`), the service implements `BudgetPool`, and only
  calls that lock in opposite orders deadlock.
- *Requests*: with stage keys of their own, status and active instance agree
  (`AtItsStage`), there is one of them, the number is given once, an outcome
  stands.  One call at a time, what is approved is what the workflow was
  resolved for, and the services implement `PurchaseRequestFlow`.
- *Canvas*: however the callers, navigation, Livewire updates and two pointers
  interleave, listeners are bound once (`ListenersOnce`), nothing stays with a
  pointer that is gone (`HeldWhileDragged`), and no card passes the left or top
  margin, nor the other ones by more than half a grid cell (`InsideTheWorld`).
  On a canvas no Livewire update has rewritten (`Intact`), the arrows are drawn
  for the places the cards have or will be with the next frame (`EdgesFollow`), a
  card in no hand is where a reload would put it (`ShownAsSaved`), and saving all
  cards changes only the dragged one (`OthersStay`): an update puts back the
  server's places, and the next drag saves those.  A new canvas becomes usable,
  with storage or without (`BecomesReady`).
- *Badges*: the script comes to rest although what it writes makes it look
  again (`ComesToRest`); at rest every container shows as many badges as fit
  by today's widths, and tells the right number (`SettledIsArranged`), every
  list checks its selection (`SettledListIsChecked`).  At any time the tab order
  follows what is seen (`FocusFollowsSight`).  Unless labels are being asked for,
  the badges are those of the selection (`DisplayedIsSelected`) and the clear
  button leaves exactly the selections that are seen, at rest also as many as it
  says (`ClearsWhatItSays`).  A list has the first options up to the limit,
  none lost, doubled or beyond it (`ListedUpToLimit`); where single options and
  groups are mixed the script moves the later single options up to the first
  (lines 363, 391-400), so that the property compares those in groups and those
  in none apart.

### Bounds

- *Workflows* (`MCEveryPlan`): one, two and three rows per instance, each mode
  alone, in first and in last position, a step that does not apply, groups with
  several rows of all three modes.  Two rows are the smallest group, two steps
  the shortest order; with three sessions two
  can block each other while a third overtakes them.  `MaxTasks` is 3 or 4.
- *SLA*: `MaxTasks` = 6.  Of two steps with a deadline each, both may become
  overdue and be escalated by both runs (two rows and four replacements); of the
  workflows with three rows, one with a deadline in a group or first in order,
  one task may.  `RoomFor` lets a deadline pass only while every run could still escalate
  every late task within `MaxTasks` rows, so that no run is stopped by the bound.
  A replacement is escalated again only as far as the rows allow.
- *Budgets*: one budget (operations on different budgets share nothing but the
  order of locks, which the theorem covers), amounts 1 and 2, allocations 1 and
  3: both, one or none of two reservations fit, and a revision may or may not.
- *Requests*: three contents (one and two stages, and a category with a workflow
  of its own), two or three instances, up to three calls under way.
  `Instances` bounds how many approvals one request goes through: three allow
  two returns.
- *Canvas*: two cards, one on the grid and one not, two pointers, a world hardly
  wider than half a grid cell beyond a card, so that both limits and the
  rounding beyond one are reached; two distances a pointer may have gone.  One
  tab: two would be two browsers with one storage (section 6).
- *Badges*: four values, with widths such that three fit in no window, two
  beside "+1" in the wide one, two in the narrow one by its own widths and one
  by those of the wide one, none in the tiny one, and a folded one has no width.
  `MaxEvents` = 4 events from outside between which everything of the script
  may happen: a selection, a change of layout, a change of the selection before
  the size is reported, and navigation or a click on the clear button.  Two
  option lists, `OptionsLimit` = 3: single options before and behind a group
  and an empty one, where the last does not fit; and an empty group, a single
  option and a group that is cut.  One
  select: selects share the frame and the observers only, and the theorems are
  about any number.
- *Symmetry* is used in runs without liveness properties only, on sessions and
  other model values no constant distinguishes.
- `CHECK_DEADLOCK FALSE`: an approval ends, and so does a request once its
  instances are used up; the badge run stops when its events are used up and the
  script is at rest.  The budget and canvas runs check deadlock.

### Fairness

`FairSpec` is used for `EventuallyDecided`, and by the run that also checks
`ImplementsOutcome`, which needs no fairness and is proved without.  Weak
fairness of `Serve(p)`: a transaction that has begun goes on, because it runs
inside one web request and a row lock is only held until a commit or an abort.
Weak fairness of `Sla(s)`: the job runs to its end.  Strong fairness of
`Answer(t)`: somebody who may decide a task does so at some time; without an
answer nothing can end.  The code does not retry a deadlock victim, the user
does; that the same approvals may deadlock with each other for ever cannot be
excluded, so `EventuallyDecided` allows exactly this.

In the browser, fairness is what the event loop gives a page on display.
`WorkflowCanvas` assumes that frames and the pending callers run (`Deliver`),
`BadgeOverflow` that a scheduled frame runs (`FrameRuns`; only `UpdateAll` takes
the mark away), that observers report, that `DOMContentLoaded`, the navigation
event and timers come, and that the server answers a request for labels.
Nobody has to use the page.

## 4. Disagreements between code and documentation

Each of these runs ends with a counterexample to what a document or a message
of the program says.

| run | what happens |
|---|---|
| `ApprovalRun_stuck_parallel_all` | Two approvers of a `parallel_all` step decide in overlapping transactions.  Each sees the other's task still pending (`S/ApprovalActionService.php`:235), neither advances: everybody has approved and the request stays where it is.  The user guide (`docs/PROCUREMENT-FEATURE-USER-GUIDE.md`:694) says it is approved then.  `WorkflowResolver` makes one row for a step; a group of several comes from a list of `approvers` given to the creator (`S/ApprovalInstanceCreator.php`:91,144). |
| `ApprovalRun_stuck_escalation` | A `parallel_all` task expires and is escalated.  The expired row stays in the group, which can therefore never be complete (236); the next step never opens (user guide, 693).  This needs no overlap at all. |
| `ApprovalRun_skipped_step` | An SLA run writes `expired` over an approval committed since it listed the task (`S/ApprovalTaskLifecycleService.php`:142) and inserts a replacement in a step already passed.  Approved at the moment the next step's own task is expired and not yet replaced, it leaves no open row, and the request is approved without that step (user guide, 693). |
| `PurchaseRequest_returned_in_approval` | The seeded standard workflow calls its first stage `procurement_review` (`database/seeders/StandardWorkflowSeeder.php`:50), which is also a review status: a request under approval can be returned and resubmitted while its tasks remain open. |

Also seen while modelling, and not kept as runs:

- The user guide says that a hand-off makes the request's status "Pending
  Approval" (`docs/PROCUREMENT-FEATURE-USER-GUIDE.md`:660).  The code sets the
  key of the first applicable step (`S/ProcurementReviewService.php`:229-235);
  `pending_approval` is the fallback for a workflow without such a step, which
  the creator refuses (`S/ApprovalInstanceCreator.php`:34).  `PurchaseRequest` models the code:
  `AtItsStage` says that the status is the key of the active stage, never
  `pending_approval` unless a stage is called so.  Every hand-off contradicts the
  sentence, which needs no run to be seen.
- With two approvers and an SLA run a rejected request can change its outcome
  (the replacement row is inserted after `closeAsTerminal` has listed the open
  rows); two overlapping SLA runs can make two replacements of one task; a
  worker that dies between expiring a task and replacing it loses the task, as
  later runs look at pending tasks only.
- A group of several `sequential` rows can strand like `parallel_all`.
- The draft saver checks the copy it was given and neither locks nor re-reads
  the request (`S/ProcurementRequestDraftSaver.php`:65): a save that overlaps
  with the submission rewrites the items of an approved request.  An edit
  between preview and lock of a hand-off gives a request to the approvers of its
  earlier content.
- A canvas that comes back with the back button has the attribute
  `data-initialized` in the HTML Livewire kept (the panel is an SPA,
  `app/Providers/Filament/AdminPanelProvider.php`:118), so it is taken for
  initialized and gets no listeners: it says "Tarik kartu untuk memindahkan"
  (drag a card to move it), and no card moves.  `ShownIsDraggable` states the
  contrary; as an invariant of `WorkflowCanvas_handled`
  TLC finds it violated in five steps.

`ReplacedPerRun` and `ApprovedAsResolved`, and the theorem
`ExpiredIsReplacedByEveryRun`, state how far replacements and resolved contents
hold: with one SLA run a task has one replacement, runs that do not die lose
none, and one call at a time edits nothing that is under approval.

## 5. Proofs

The theorems hold for every value of the constants that satisfies the modules'
named assumptions (`UsersAssumption`, `PlansAssumption`, `SwitchesAssumption`,
`LedgerAssumption`, `RequestAssumption`, `CanvasAssumption`,
`BadgeAssumption`, `NoneAssumption`): any workflows, users, budgets, requests,
contents, cards, selects, widths and layouts, and any number of sessions,
pointers and events.  `PROJECT.json` lists them.

**ApprovalRun_proofs.**  `TypeCorrect` holds with any number of SLA runs.  Its
only difficulty is that `First`, `FirstOrder` and `NewTask` choose something
that exists; the lemmas `LeastExists`, `FirstIsMember`, `FirstOrderIsNat` and
`NewTaskIsFree` say so, from the well-foundedness of the natural numbers.

`MirroredWithoutSla`, `InOrderWithoutSla` and `FinalWithoutSla` assume
`Sweepers = {}`, as they must: with SLA runs each of them can fail (section
4).  The inductive invariant is `Unswept`:

- no row is locked by two transactions, and the row a transaction decides is
  still pending (`LocksDisjoint`, `DecidesPending`) - so of two decisions on
  one task the second finds it decided;
- a closing transaction has listed or written every open row, an approving one
  has written every open row (`ClosesEveryRow`, `ApprovesTheLast`) - so when it
  commits nobody else can be under way, since everybody under way has locked
  an open row.  This is what makes the unlocked read of the instance's status
  harmless, and it is not inductive without the first two;
- a transaction that opens a step has written every pending row, and opens all
  the queued rows of the lowest order (`OpensNextStep`); with `StepsInOrder`
  this keeps the steps in order, and its opening rows cannot be taken by anybody
  else (`OpensAlone`);
- an open row has no decision (`OpenIsUndecided`), and an ended instance no
  transaction (`OverIsOver`).

`StepKeeps` and `CommitKeeps` reduce every action to what it does to the record
of its own transaction or to the rows; there is one lemma for each action.

**ApprovalRunSteps_proofs.**  `EveryStepWithoutSla` follows the commit that
approves: it leaves behind only rows that earlier commits closed, and each of
them closed rows of its own step alone.  `EveryStep` adds to `Unswept` that a
closed row was approved, or skipped in favour of an approved one of its
`parallel_any` step (`ClosedForAReason`); that the `parallel_all` steps before
one that has been opened are complete (`EarlierComplete`); that no row after a
pending one is closed (`NoneClosedAhead`); and that a transaction under way
does what its reads allow (`AllJustified`).  It assumes `OneModePerStep`: the
rows of one step have the mode of their workflow step, of which a version has
one for each sequence
(`database/migrations/2026_08_31_084850_create_workflow_configuration_tables.php`:50).

**ApprovalRunOutcome_proofs.**  `DecisionsImplementOutcome` shows the refinement
of `ApprovalOutcome`, and `NobodyIsStranded` that an active instance has a task
somebody can decide.  Both need `OnlyAnyIsShared`: only a `parallel_any` step has
several rows, which is what `WorkflowResolver` makes; the runs
`ApprovalRun_stuck_parallel_all` and `ApprovalRun_stuck_escalation` show what
happens otherwise.  The invariant `Passing` says that a step with an approval has
no open row (`PassedIsClosed`), and that a transaction on its way to bring this
about has listed every row it shares the step with (`Passes`).  So the commit of
an approval passes one step, and no commit passes it twice; `Asking` adds that
an active instance always has a pending row.
`EveryRowHasADecider` says that a row can be decided by somebody besides the
requester.  TLC evaluates the three assumptions for the workflows of every run
(`MCApprovalRun`; `OnlyAnyIsShared` for those the properties are checked with).

**ApprovalRunSla_proofs.**  `DecidedOnceAlways` has no assumption: with any
number of approvers and SLA runs, dying ones included, no decision is ever
replaced, although an SLA run writes rows it listed long before.  What an SLA
run can do to a row is bounded by the invariant `Swept`:

- a row is *begun* once it has been pending, and an SLA run only ever lists,
  expires and escalates begun rows (`ListsBegun`).  A begun row never becomes
  queued or pending again, so it is decided once or not at all;
- every queued row belongs to a later step than every begun one
  (`NothingIsOvertaken`, the theorem `NothingIsOvertakenBesideSla`), also after a replacement row has been inserted, because the replacement has
  the step of the row it replaces;
- a transaction that opens a step is undisturbed (`OpenerUndisturbed`): whoever
  else has got beyond its checks holds a pending row of an earlier step, which
  the opener would have seen, or waits for the opener's own row;
- what a transaction has skipped or lists is begun unless it closes everything
  (`Sound`), and a row that is open or not there has no decision (`Undecided`).

`ReplacedOnceByEveryRun` assumes that the SLA runs which may overlap are finitely
many, and lets each of them die and start again.  `Replacing` relates what a run
still has to visit to the replacements there are, counted over the runs
(`Replacers`): a row that is listed has no more replacements than runs that have
been past it, as a row that was expired is no longer pending, never becomes so
again and is not listed again.  `ExpiredIsReplacedByEveryRun` assumes
`~SweepsMayFail` and allows any number of runs; it rests on the lemma that rows
never vanish (`RowsPersist`) and on the run's own place in its loop.
`FinalForOneApprover` and `MirroredForOneApprover` assume `OneDecider` and allow
any number of SLA runs, dying ones included (`Alone`: an SLA run never writes the
instance or the request's outcome, and nobody else can end the instance between
the approver's check and commit).  Each assumption is needed: section 4 tells
what happens with a second approver or a run that dies.

**BudgetLedger_proofs.**  The inductive invariant `IInv` says who holds which
lock in which phase (`Disciplined`), that nobody else does (`Exclusive`), and
that the copies and the sum of a transaction are current (`DecidesOnCurrent`).
The sum is current because every writer of a reservation of the budget holds
the budget's lock too.  From it follow `CommittedAmounts`, the refinement
`ServiceImplementsPool` (initial states, and every step a step of the pool or a
stutter), and `DeadlocksNeedOppositeOrders`.

**PurchaseRequest_proofs.**  `Ordered` adds to the types that no instance is
active in a draft and that an active instance is at one of its stages
(`Untouched`, `Waiting`); from it `OneApproval` and `OneNumber` follow for every
workflow.  `RequestAtItsStage` and `OutcomesStand` assume `OwnStages`, that no
stage key is a review status; the run `PurchaseRequest_returned_in_approval`
shows that the assumption is needed and that the seeded workflow breaks it.

`ApprovedForItsContent` and `ServicesImplementFlow` (the refinement of
`PurchaseRequestFlow`) assume `OneSession` besides: calls follow one another,
while approvers may still decide between the read and the transaction of a call.
Then the content a call has read is still the request's in its transaction, and
a request that is being saved or deleted is still a correctable one
(`CopyIsCurrent`); an active instance was resolved with the content the request
has (`ActiveAsResolved`).  With two sessions an edit can fall between another
call's read and its transaction (section 4).

**WorkflowCanvas_proofs.**  `BoundOnce` is not inductive by itself: `BoundRight`
adds that an unmarked element with callers on their way has no listeners yet,
and that a tab that shows something else has neither.  `ArrowsFollow` rests on
it; `NothingSticks` on the types only.  `CardsStayInside` assumes `RoomyWorld`
(every card with its margins fits into the world, and the server's own places
are inside), and allows half a grid cell beyond the far margins, as rounding
does; its invariant `AllWithin` says of every layout, shown, kept or stored, that a
coordinate beyond the limit is on the grid and beyond by half a cell at most,
which is what makes saving and dragging again harmless.  `SavedAsShown` and
`OthersKeepTheirPlace` assume `OneTab`: with two tabs on one version the last
save wins.

**BadgeOverflow_proofs.**  First what the algorithms do: `WithoutIs` (filter,
by counting ranks), `VisibleIs` (the search's answer exists and is the largest
count that fits), `UpdateIs` and `UpdateArranges`: from a container whose cached
widths are today's (`Current`) `updateContainer` leaves an arranged one, the
second search, whose overflow badge has another label, included.  Then what the
actions do: `EditIs` for everything a select or its user does, `StepIs` for the
rest.  The invariants, for any number of selects and any interleaving:

- `Watching`: a body that is not observed is one of a navigation still to be
  reported;
- `AllAttended`: a hidden badge keeps its own tab order and a shown one has it
  (gives `TabOrderFollowsSight`);
- `AllMatch`: the badges are the selection, unless labels are asked for (gives
  `BadgesAreTheSelection`);
- `Caches`: a container that no observer watches has nothing cached, and one that
  is watched has today's widths or its change of size is still to be reported;
- `EnhancedWhenSettled`, `ArrangedWhenSettled`: once no frame is scheduled and no
  mutation is on its way that would schedule one, every select has been enhanced
  and every container is watched and, unless a size is to be reported,
  arranged (give `NoListIsMissed` and `NoContainerIsMissed`).

`ClearingKeepsItsWord` combines the last three: in an arranged container the
hidden badges are the last ones, the selection has no duplicates, so that
filtering their values leaves exactly those seen; that it leaves those whenever
no labels are asked for needs `AllMatch` only (`ClearingSeen`).  `NoContainerIsMissed` and
`ClearingKeepsItsWord` assume `StylesResize`: styles that change the width of a
badge change the room of the container as well.  The script relies on it, as it
clears its caches only when a container's size changes; a font that arrives late
breaks it.

`ListsStopAtTheLimit` is about `RenderedOptions`, the loop with its counter, the
list it makes for single options, its group that is cut in the middle and its
early return.  Both the loop and the
reference, the first options of the list laid out flat, are recursive functions over the
number of options, and a recursive function is a CHOOSE of some function that
satisfies its equations: `Iterates` says what these are, `StepByStep` that there
is a function that does, one step longer each time (by induction over the set of
those lengths that have one, `UpToTheLast`), `SliceIs`, `FurtherIs`, `RenderedIs`
and `FlatIs` give the values.  `FurtherIsFirst` is then one turn of the loop over the flat list: the
options taken so far are the first ones up to the limit, whether the group
fits, is cut, or is not reached any more.  `RenderedUpToLimit` goes through all of the turns with it
and `TurnParts`: what is rendered before, in and
behind the list of single options are the groups' options and the single ones of
those first options (`PartsOf`).  It assumes `SingleOptions`, an entry without a group is one option
(`filament-header-filters.js`:371), since the loop counts it as one, and
`OptionsApart`, no value is offered both in a group and in none, as the property
tells the two kinds by their values.
`BadgeTypes` takes from the same section that a list is made of values.

**Assumptions.**  Besides the modules' own, the theorems name: `Sweepers = {}`,
`OneModePerStep`, `OnlyAnyIsShared`, `EveryRowHasADecider`,
`IsFiniteSet(Sweepers)`, `~SweepsMayFail`, `OneDecider` (approvals); `OwnStages`, `OneSession` (requests);
`RoomyWorld`, `OneTab` (canvas); `StylesResize`, `SingleOptions`,
`OptionsApart` (badges).

**Only model-checked.**  Liveness (`EventuallyDecided`, `BecomesReady`,
`ComesToRest`) is out of the prover's reach.  Every other property of a passing
run is stated by a theorem.

## 6. What is not modelled

`PROJECT.json` gives the reason for each component.  In short: authorisation is
an input (who may act for whom), notifications, warnings and audit rows change
nothing a decision reads, workflow resolution is a pure computation whose
result is the constant `Plans` or `PlanOf`, and the amounts, numbers and texts
of a request are abstracted to what the workflow depends on.  Restricting
foreign keys (a request with reservations cannot be deleted) are left out:
a draft has none.

Inside a decision, three checks are left out because they only refuse calls that
have changed nothing yet, or undo them as a refused reservation does: the budget
check before an approval, feature switches turned off between two checks of one
call (`S/ApprovalActionService.php`:352,356), and `allow_self_approval`, which no
step of the models sets.

In the browser: zoom and scrolling of the canvas; what stylesheets make of the
class and the width variable the badge script puts on a container (its room
depends on the layout alone, though its size may be reported again, `Reflow`); two tabs that share one
storage (the theorems assume one); fonts and themes that change widths only;
the placeholder of an emptied select; whether a dropdown without options opens.
The files under `public/js/filament/` are the minified components of Filament,
`public/js/app/workflow-visual.js` is a copy of the canvas script that was
modelled.

Some hazards are real and not in the list of `PROJECT.json`, which keeps the
ones nearest to the models: the choice of a reservation row of any status
(`S/BudgetReservationService.php`:397), deleting a draft from a stale copy
(`app/Filament/Resources/PurchaseRequests/Tables/PurchaseRequestsTable.php`:292),
the automation action that writes any status
(`app/Flow/Nodes/Actions/UpdatePurchaseRequestStatusAction.php`:51), corrections
of receipts against what was passed on (`S/ReceivingService.php`:90,93), lock
orders of distributions (`S/DistributionService.php`:547), overlapping payments
of an invoice (`S/InvoicePaymentService.php`:56), the shipments between two
offices, versions of a recommendation, attachments of a deleted request, the
request number after 9999, the cache of the feature switches, a storage that
refuses to save, and the browser matters of the paragraph before.

Three services cannot run as they stand at this commit: receiving, invoice
matching and sample shipments query a model class `PurchaseOrderItem` the
repository does not contain, `InvoiceMatchingService::record` (line 60) calls a
method `check` it does not have, and `recommend` locks rows in a query for a
maximum (`S/QuotationComparisonService.php`:313), which PostgreSQL refuses.

## 7. Plan

In this order:

1. `Stock`: receiving composed with distribution.  Received minus superseded
   receipts against distributed quantities of an office; the order of locks
   batch, items, receipts, other batches; corrections below what has been
   distributed.  Abstract: a store that never gives out what it does not have.
2. `InvoicePayments`: payments under the invoice's lock, against `BudgetPool`'s
   pattern.
3. `WorkflowVersions`: activation without a lock; at most one active version.
4. `SampleShipments`: the two offices' state machine and its locks.
5. `FeatureStates`: switches and the cache that is filled after it was forgotten.
6. `Quotations`: versions of a recommendation against later changes.
7. `WorkflowResolution`: the choice of binding, version and approvers as
   operators, checked against a reference definition.

The two scripts in the browser came before these, as they are the parts nothing
else tests.  Next in them: two tabs on one layout with the promise that can be
kept there, and zoom with the conversion between screen and world.

Proofs next: `RequestMirrorsInstance` and `OnlyTheFirstStepIsPending` beside SLA
runs as far as they hold, that each approval of a `PurchaseRequest` goes through
`ApprovalOutcome`, and the invariants of `Stock` and `InvoicePayments`.
