SPECIFICATION Spec
CONSTANTS
  ann = ann bob = bob cyn = cyn rik = rik nobody = nobody
  p1 = p1 p2 = p2 p3 = p3 s1 = s1 s2 = s2
  Users <- MCUsers
  Requester = rik
  NoUser = nobody
  ActsFor <- MCActsFor
  Fallback <- MCNoFallback
  Plans <- MCEveryPlan
  Deciders = {p1, p2, p3}
  Sweepers = {}
  MaxTasks = 4
  CostCentred = TRUE
  SweepsMayFail = FALSE
SYMMETRY Symmetric
INVARIANT TypeOK
INVARIANT RequestMirrorsInstance
INVARIANT ApprovedByEveryStep
INVARIANT OnlyTheFirstStepIsPending
PROPERTY TerminalIsFinal
CHECK_DEADLOCK FALSE
