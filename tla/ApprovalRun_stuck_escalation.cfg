SPECIFICATION Spec
CONSTANTS
  ann = ann bob = bob cyn = cyn rik = rik nobody = nobody
  p1 = p1 p2 = p2 p3 = p3 s1 = s1 s2 = s2
  Users <- MCUsers
  Requester = rik
  NoUser = nobody
  ActsFor <- MCActsFor
  Fallback <- MCFallback
  Plans <- MCEscalatedPlans
  Deciders = {p1}
  Sweepers = {s1}
  MaxTasks = 3
  CostCentred = FALSE
  SweepsMayFail = FALSE
INVARIANT NextStepOpens
CHECK_DEADLOCK FALSE
