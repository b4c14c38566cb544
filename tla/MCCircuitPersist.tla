--------------------------- MODULE MCCircuitPersist --------------------------
(* Small instances of CircuitPersist.tla. *)
EXTENDS CircuitPersist

CONSTANTS p1, p2, p3, w1, w2, f1, f2, f3

MCVersions == [p \in Providers |-> IF p = p1 THEN 2 ELSE 1]
==============================================================================
