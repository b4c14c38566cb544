----------------------------- MODULE MCFailover -----------------------------
(* Small instances of Failover.tla.                                          *)
EXTENDS Failover, TLC

CONSTANTS p1, p2, p3, r1, r2

Symmetry == Permutations(Requests)

MCCfg == [failure_threshold |-> 2, open_duration_secs |-> 2]

Plain(places, repairs) ==
    [count |-> FALSE, neutral |-> FALSE, strict |-> FALSE, places |-> places,
     repairs |-> repairs]

\* A Codex request that continues an answer, a Claude count_tokens request, and a
\* background request that lists models.
Mixed == {Plain(2, {"previous"}), [Plain(1, {"bearer"}) EXCEPT !.count = TRUE],
          [Plain(1, {}) EXCEPT !.neutral = TRUE, !.strict = TRUE]}

Candidates == {<<p1, p2>>}
===========================================================================
