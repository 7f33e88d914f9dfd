--------------------------- MODULE MCA2aAdapter ---------------------------
(* Three task IDs over a map of two, so that the map is full at times.     *)
EXTENDS A2aAdapter

CONSTANTS k1, k2, k3

MCTasks == {k1, k2, k3}
============================================================================
