--------------------------- MODULE MCCircuitBreaker --------------------------
(* Small instances of CircuitBreaker.tla. *)
EXTENDS CircuitBreaker, TLC

CONSTANTS p1, p2, c1, c2

Short == [failure_threshold |-> 2, open_duration_secs |-> 1]
Long  == [failure_threshold |-> 1, open_duration_secs |-> 2]

MCConfigs == {Short, Long}

CallSymmetry == Permutations(Calls)
==============================================================================
