---------------------------- MODULE MCWorkflowCanvas ----------------------------
(* A small instance of WorkflowCanvas for TLC: a world hardly wider than half a  *)
(* grid cell, whose far limit is rounded beyond it; one card is on the grid, one *)
(* is not.                                                                       *)
EXTENDS WorkflowCanvas

CONSTANTS a, b, f1, f2, t1

MCSize == [n \in Nodes |-> [w |-> 40, h |-> 40]]
MCDefault ==
  [n \in Nodes |-> IF n = a THEN [x |-> 30, y |-> 48] ELSE [x |-> 36, y |-> 48]]
MCDeltas == {[x |-> -7, y |-> 0], [x |-> 100, y |-> 100]}
=================================================================================
