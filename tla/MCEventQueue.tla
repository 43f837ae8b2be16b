--------------------------- MODULE MCEventQueue ---------------------------
(* Four events, three of them with the same priority: a bin may hold three *)
(* of them, and bins of the same time follow each other.                   *)
EXTENDS EventQueue, TLC

CONSTANTS a, b, c, d
MCEvents == {a, b, c, d}
MCPriority == [e \in {a, b, c, d} |-> IF e = d THEN 1 ELSE 0]
\* Only events of equal priority are interchangeable.
MCSymmetry == Permutations({a, b, c})
=============================================================================
