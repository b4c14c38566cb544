---------------------------- MODULE CircuitHealth ----------------------------
(* The health record the gateway keeps for one provider, and what each         *)
(* operation of the circuit breaker does to it while the health lock is held   *)
(* (src-tauri/src/shared/circuit_breaker.rs and circuit_breaker/types.rs).     *)
(* Pure operators: CircuitBreaker.tla gives them their interleavings, and      *)
(* Failover.tla runs the request loop over them.                               *)
(*                                                                             *)
(* Times are whole seconds.  A failure timestamp is a record [at, n], n being   *)
(* the number of its push onto the list: two failures of one second count      *)
(* twice, and the list keeps the order of its pushes, which is not that of the *)
(* clock when a call comes late.                                               *)
(* The trigger error code, shown in notices only, is left out.                 *)
EXTENDS Integers, FiniteSets

CONSTANTS
    FailureWindowSecs,    \* a failure counts for this long
    MaxFailureTimestamps, \* cap on the stored failures
    HalfOpenRequired,     \* successes that close a half-open circuit
    None                  \* the absent Option

ASSUME WindowAssumption == FailureWindowSecs \in Nat \ {0}
ASSUME CapAssumption    == MaxFailureTimestamps \in Nat \ {0}
ASSUME HalfOpenAssumption == HalfOpenRequired \in Nat \ {0}

State     == {"Closed", "Open", "HalfOpen"}
MaybeTime == Nat \cup {None}
Failure   == [at : Nat, n : Nat]
Failures  == {F \in SUBSET Failure : IsFiniteSet(F)}
Successes == 0 .. HalfOpenRequired - 1

\* ProviderHealth, and the part of it that is persisted.
Health ==
    [state : State, failures : Failures, half_open_success_count : Successes,
     open_until : MaybeTime, cooldown_until : MaybeTime, updated_at : Nat]
Row ==
    [state : State, failures : Failures, half_open_success_count : Successes,
     open_until : MaybeTime, updated_at : Nat]

ASSUME NoneAssumption == None \notin Int /\ None \notin Health /\ None \notin Row

Config == [failure_threshold : Nat \ {0}, open_duration_secs : Nat \ {0}]

ClosedHealth(now) ==
    [state |-> "Closed", failures |-> {}, half_open_success_count |-> 0,
     open_until |-> None, cooldown_until |-> None, updated_at |-> now]

IsInert(h) ==
    /\ h.state = "Closed"
    /\ h.failures = {}
    /\ h.half_open_success_count = 0
    /\ h.open_until = None
    /\ h.cooldown_until = None

(* ------------------------- the failure window ----------------------------- *)

Cutoff(now) == IF now > FailureWindowSecs THEN now - FailureWindowSecs ELSE 0

Recent_KeepsEdge(failures, now) == {f \in failures : f.at >= Cutoff(now)} \* mutant
Recent(failures, now) == {f \in failures : f.at > Cutoff(now)}

\* Drops what left the window, then the first pushed beyond the cap.
Prune(failures, now) ==
    {f \in Recent(failures, now) :
        Cardinality({g \in Recent(failures, now) : g.n > f.n})
            < MaxFailureTimestamps}

\* The number of the last push.
Pushes(failures) == Cardinality(UNION {1 .. f.n : f \in failures})

NewFailure(failures, now) == [at |-> now, n |-> Pushes(failures) + 1]

PushFailure(failures, now) ==
    Prune(failures \cup {NewFailure(failures, now)}, now)

(* ----------------------- what each operation does ------------------------- *)

\* should_allow: cooldown expiry, then pruning, then expiry of the open state.
ClearCooldown(h, now) ==
    IF h.cooldown_until # None /\ now >= h.cooldown_until
    THEN [h EXCEPT !.cooldown_until = None] ELSE h

PruneClosed(h, now) ==
    IF h.state = "Closed" /\ Prune(h.failures, now) # h.failures
    THEN [h EXCEPT !.failures = Prune(h.failures, now), !.updated_at = now]
    ELSE h

OpenExpired_Never(h, now) == h.state = "Open" /\ h.open_until = None \* mutant
OpenExpired(h, now) ==
    h.state = "Open" /\ (h.open_until = None \/ now >= h.open_until)

ExpireOpen_KeepsPeriod(h, now) == \* mutant
    IF OpenExpired(h, now)
    THEN [h EXCEPT !.state = "HalfOpen", !.half_open_success_count = 0,
                   !.updated_at = now]
    ELSE h

ExpireOpen(h, now) ==
    IF OpenExpired(h, now)
    THEN [h EXCEPT !.state = "HalfOpen", !.half_open_success_count = 0,
                   !.open_until = None, !.updated_at = now]
    ELSE h

Checked(h, now) == ExpireOpen(PruneClosed(ClearCooldown(h, now), now), now)

\* A gate check persists what it pruned, expired or is about to remove.
CheckPersists(h, now) ==
    Checked(h, now) # ClearCooldown(h, now) \/ IsInert(Checked(h, now))

Allows(h, now) ==
    h.state # "Open" /\ (h.cooldown_until = None \/ now >= h.cooldown_until)

\* record_success.
SuccessCloses_OneMore(h) == \* mutant
    h.state = "HalfOpen" /\ h.half_open_success_count + 1 > HalfOpenRequired
SuccessCloses_First(h) == h.state = "HalfOpen" \* mutant
SuccessCloses(h) ==
    h.state = "HalfOpen" /\ h.half_open_success_count + 1 >= HalfOpenRequired

Succeeded(h, now) ==
    CASE h.state = "Closed" /\ h.failures = {} ->
            [h EXCEPT !.cooldown_until = None]
      [] h.state = "Closed" /\ h.failures # {} ->
            [h EXCEPT !.cooldown_until = None, !.failures = {}, !.updated_at = now]
      [] SuccessCloses(h) ->
            [h EXCEPT !.state = "Closed", !.failures = {},
                      !.half_open_success_count = 0,
                      !.cooldown_until = None, !.updated_at = now]
      [] h.state = "HalfOpen" /\ ~SuccessCloses(h) ->
            [h EXCEPT !.half_open_success_count = @ + 1, !.updated_at = now]
      [] h.state = "Open" -> h

\* record_failure.
Opened(h, now, cfg) ==
    [h EXCEPT !.state = "Open", !.half_open_success_count = 0,
              !.failures = PushFailure(@, now),
              !.open_until = now + cfg.open_duration_secs, !.updated_at = now]

FailureOpens(h, now, cfg) ==
    \/ h.state = "HalfOpen"
    \/ /\ h.state = "Closed"
       /\ Cardinality(Recent(PushFailure(h.failures, now), now))
             >= cfg.failure_threshold

Failed(h, now, cfg) ==
    CASE h.state = "Open" -> h
      [] h.state # "Open" /\ FailureOpens(h, now, cfg) -> Opened(h, now, cfg)
      [] OTHER -> [h EXCEPT !.failures = PushFailure(@, now), !.updated_at = now]

\* trigger_cooldown: the longer of the running and the new cooldown.
CooledDown_Overwrites(h, now, secs) == \* mutant
    [h EXCEPT !.cooldown_until = now + secs, !.updated_at = now]

CooledDown(h, now, secs) ==
    [h EXCEPT !.cooldown_until =
                  IF @ # None /\ @ > now + secs THEN @ ELSE now + secs,
              !.updated_at = now]

\* update_config: the open period is recomputed from the last change.
Rescheduled_FromDeadline(h, cfg) == \* mutant
    IF h.state = "Open"
    THEN [h EXCEPT !.open_until = @ + cfg.open_duration_secs]
    ELSE h

Rescheduled(h, cfg) ==
    IF h.state = "Open"
    THEN [h EXCEPT !.open_until = h.updated_at + cfg.open_duration_secs]
    ELSE h

(* ----------------------------- persistence -------------------------------- *)

RowOf(h) ==
    [state |-> h.state, failures |-> h.failures,
     half_open_success_count |-> h.half_open_success_count,
     open_until |-> h.open_until, updated_at |-> h.updated_at]

\* What CircuitBreaker::new makes of a stored row; the cooldown is not stored.
Reloaded(row) ==
    [state |-> row.state, failures |-> row.failures,
     half_open_success_count |-> row.half_open_success_count,
     open_until |-> row.open_until, cooldown_until |-> None,
     updated_at |-> row.updated_at]

\* insert_batch_once keeps no row of an inert closed circuit.
Stored(row) == IF IsInert(Reloaded(row)) THEN None ELSE row

==============================================================================
