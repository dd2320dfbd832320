SPECIFICATION Spec
CONSTANTS
  ann = ann bob = bob cyn = cyn rik = rik nobody = nobody
  p1 = p1 p2 = p2 p3 = p3 s1 = s1 s2 = s2
  Users <- MCUsers
  Requester = rik
  NoUser = nobody
  ActsFor <- MCActsFor
  Fallback <- MCFallback
  Plans <- MCTimedPlans
  Deciders = {p1, p2}
  Sweepers = {s1, s2}
  MaxTasks = 6
  CostCentred = FALSE
  SweepsMayFail = TRUE
SYMMETRY Symmetric
INVARIANT NothingIsOvertaken
INVARIANT ReplacedPerRun
PROPERTY DecidedOnce
CHECK_DEADLOCK FALSE
