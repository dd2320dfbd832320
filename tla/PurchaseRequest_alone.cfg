SPECIFICATION Spec
CONSTANTS
  small = small
  large = large
  travel = travel
  p1 = p1
  p2 = p2
  p3 = p3
  i1 = i1
  i2 = i2
  i3 = i3
  Contents <- MCContents
  Direct = {travel}
  PlanOf <- MCOwnStages
  Sessions = {p1}
  Instances = {i1, i2, i3}
SYMMETRY Symmetric
CHECK_DEADLOCK FALSE
INVARIANTS
  ApprovedAsResolved
PROPERTIES
  ImplementsFlow
