SPECIFICATION Spec
CONSTANTS
  b1 = b1
  r1 = r1
  r2 = r2
  p1 = p1
  p2 = p2
  Budgets = {b1}
  Requests = {r1, r2}
  Sessions = {p1, p2}
  BudgetsOf <- MCOneBudget
  MaxAmount = 2
  Allocations <- MCAllocations
SYMMETRY Symmetric
INVARIANTS
  TypeOK
  DecidesOnCurrent
  OnlyOppositeOrdersDeadlock
PROPERTIES
  CommittedIsFixed
  ImplementsPool
