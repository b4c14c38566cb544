------------------------ MODULE CircuitBreaker_proofs ------------------------
(* What CircuitBreaker.tla keeps for every number of providers and calls, any   *)
(* clock and any configuration.                                                 *)
EXTENDS CircuitBreaker, FiniteSetTheorems, TLAPS

\* Pruning and pushing keep a finite set of failures (types.rs:143).
LEMMA PruneFailures ==
    ASSUME NEW F \in Failures, NEW t \in Nat
    PROVE  Prune(F, t) \in Failures /\ Prune(F, t) \subseteq Recent(F, t)
  <1>1. Prune(F, t) \subseteq F BY DEF Prune, Recent
  <1>2. IsFiniteSet(Prune(F, t)) BY <1>1, FS_Subset DEF Failures
  <1> QED BY <1>1, <1>2 DEF Failures, Prune

LEMMA NewFailureType ==
    ASSUME NEW F \in Failures, NEW t \in Nat
    PROVE  NewFailure(F, t) \in Failure
  <1> DEFINE S == {1 .. f.n : f \in F}
  <1>1. IsFiniteSet(F) /\ \A f \in F : f.n \in Nat BY DEF Failures, Failure
  <1>2. IsFiniteSet(S)
    <2> DEFINE I == [f \in F |-> 1 .. f.n]
    <2>1. I \in Surjection(F, S) BY DEF Surjection
    <2> HIDE DEF I, S
    <2> QED BY <1>1, <2>1, FS_Surjection
  <1>3. \A I \in S : IsFiniteSet(I) BY <1>1, FS_Interval
  <1>4. IsFiniteSet(UNION S) BY <1>2, <1>3, FS_UNION
  <1>5. Pushes(F) \in Nat BY <1>4, FS_CardinalityType DEF Pushes
  <1> QED BY <1>5 DEF NewFailure, Failure

LEMMA AddedFailures ==
    ASSUME NEW F \in Failures, NEW G \in Failures, NEW t \in Nat
    PROVE  G \cup {NewFailure(F, t)} \in Failures
  <1>1. NewFailure(F, t) \in Failure BY NewFailureType
  <1>2. IsFiniteSet(G \cup {NewFailure(F, t)}) BY FS_AddElement DEF Failures
  <1> QED BY <1>1, <1>2 DEF Failures

LEMMA PushFailures ==
    ASSUME NEW F \in Failures, NEW t \in Nat
    PROVE  /\ PushFailure(F, t) \in Failures
           /\ PushFailure(F, t) \subseteq F \cup {NewFailure(F, t)}
  <1> DEFINE G == F \cup {NewFailure(F, t)}
  <1>1. G \in Failures BY AddedFailures
  <1>2. Prune(G, t) \in Failures /\ Prune(G, t) \subseteq Recent(G, t)
    BY <1>1, PruneFailures
  <1> QED BY <1>2 DEF PushFailure, Recent

\* The inductive invariant.  Besides the types: every health record, row on its
\* way and stored row is shaped, was changed at a past time, and is open for no
\* longer than the settings allow; the failures of a provider are ones its
\* history knows; a half-open circuit has counted what its history counted.
Good(r, t) ==
    /\ Shaped(r)
    /\ r.updated_at <= t
    /\ r.open_until # None => r.open_until <= t + MaxOpenSecs

GoodCall(s, t) ==
    /\ s.pc = "locked" => s.at <= t
    /\ s.pc = "persist" => \A item \in s.items : Good(item.row, t)

AllGood ==
    /\ \A p \in Providers : health[p] # None => Good(health[p], now)
    /\ \A p \in Providers : db[p] # None => Good(db[p], now)
    /\ \A item \in way : Good(item.row, now)
    /\ \A c \in Calls : GoodCall(call[c], now)

LogCovers ==
    \A p \in Providers : health[p] # None => health[p].failures \subseteq log[p]

StreakCounts ==
    \A p \in Providers : health[p] # None /\ health[p].state = "HalfOpen"
        => streak[p] = health[p].half_open_success_count

IInv == TypeOK /\ AllGood /\ LogCovers /\ StreakCounts

(* --------------------- the operations on one record ----------------------- *)

\* should_allow on one record (circuit_breaker.rs:206-260).
LEMMA CheckedHealth ==
    ASSUME NEW h \in Health, NEW at \in Nat, NEW t \in Nat, at <= t, Good(h, t)
    PROVE  LET k == Checked(h, at) IN
           /\ k \in Health /\ Good(k, t)
           /\ k.failures \subseteq h.failures
           /\ k.state = IF OpenExpired(h, at) THEN "HalfOpen" ELSE h.state
           /\ k.half_open_success_count = IF OpenExpired(h, at) THEN 0
                                          ELSE h.half_open_success_count
           /\ k.cooldown_until = ClearCooldown(h, at).cooldown_until
  <1> DEFINE a == ClearCooldown(h, at)
             b == PruneClosed(a, at)
  <1>0. 0 \in Successes BY HalfOpenAssumption DEF Successes
  <1>1. /\ a \in Health /\ Good(a, t) /\ a.failures = h.failures
        /\ a.state = h.state /\ a.open_until = h.open_until
        /\ a.half_open_success_count = h.half_open_success_count
    BY DEF ClearCooldown, Health, MaybeTime, Good, Shaped
  <1>2. Prune(h.failures, at) \in Failures /\ Prune(h.failures, at) \subseteq h.failures
    BY PruneFailures DEF Health, Recent
  <1>3. /\ b \in Health /\ Good(b, t) /\ b.failures \subseteq h.failures
        /\ b.state = h.state /\ b.open_until = h.open_until
        /\ b.half_open_success_count = h.half_open_success_count
        /\ b.cooldown_until = a.cooldown_until
    BY <1>1, <1>2 DEF PruneClosed, Health, Good, Shaped
  <1> HIDE DEF a, b
  <1>4. OpenExpired(b, at) <=> OpenExpired(h, at) BY <1>3 DEF OpenExpired
  <1>5. Checked(h, at) = ExpireOpen(b, at) BY DEF Checked, a, b
  <1>6. CASE OpenExpired(h, at)
    BY <1>0, <1>3, <1>4, <1>5, <1>6 DEF ExpireOpen, Health, MaybeTime, Good, Shaped, State, a
  <1>7. CASE ~OpenExpired(h, at)
    BY <1>3, <1>4, <1>5, <1>7 DEF ExpireOpen, a
  <1> QED BY <1>6, <1>7

\* record_success on one record (circuit_breaker.rs:297-333).
LEMMA SucceededHealth ==
    ASSUME NEW h \in Health, NEW at \in Nat, NEW t \in Nat, at <= t, Good(h, t)
    PROVE  LET k == Succeeded(h, at) IN
           /\ k \in Health /\ Good(k, t)
           /\ k.failures \subseteq h.failures
           /\ k.state = "Closed" => k.failures = {}
           /\ k.state = "Open" <=> h.state = "Open"
           /\ k.state = "HalfOpen" =>
                 /\ h.state = "HalfOpen"
                 /\ k.half_open_success_count = h.half_open_success_count + 1
           /\ h.state = "HalfOpen" /\ k.state = "Closed" => SuccessCloses(h)
  <1>0. 0 \in Successes /\ {} \in Failures
    BY HalfOpenAssumption, FS_EmptySet DEF Successes, Failures
  <1>1. CASE h.state = "Closed"
    BY <1>0, <1>1 DEF Succeeded, SuccessCloses, Health, MaybeTime, Good, Shaped, State
  <1>2. CASE SuccessCloses(h)
    BY <1>0, <1>2 DEF Succeeded, SuccessCloses, Health, MaybeTime, Good, Shaped, State
  <1>3. CASE h.state = "HalfOpen" /\ ~SuccessCloses(h)
    <2>1. h.half_open_success_count + 1 \in Successes
      BY <1>3, HalfOpenAssumption DEF SuccessCloses, Health, Successes
    <2>2. Succeeded(h, at) = [h EXCEPT
            !.half_open_success_count = h.half_open_success_count + 1,
            !.updated_at = at]
      BY <1>3 DEF Succeeded, SuccessCloses
    <2> QED BY <1>3, <2>1, <2>2 DEF Health, Good, Shaped
  <1>4. CASE h.state = "Open"
    BY <1>4 DEF Succeeded, SuccessCloses
  <1> QED BY <1>1, <1>2, <1>3, <1>4 DEF Health, State

\* record_failure on one record (circuit_breaker.rs:379-422).
LEMMA FailedHealth ==
    ASSUME NEW h \in Health, NEW at \in Nat, NEW t \in Nat, at <= t, Good(h, t),
           NEW cfg \in Configs
    PROVE  LET k == Failed(h, at, cfg) IN
           /\ k \in Health /\ Good(k, t)
           /\ k.failures \subseteq h.failures \cup {NewFailure(h.failures, at)}
           /\ h.state = "Open" => k = h
           /\ k.state = "Closed" => h.state = "Closed"
           /\ k.state # "HalfOpen"
           /\ h.state = "Closed" /\ k.state = "Open" => FailureOpens(h, at, cfg)
           /\ k.cooldown_until = h.cooldown_until
  <1> DEFINE F == PushFailure(h.failures, at)
  <1>0. /\ 0 \in Successes
        /\ cfg.open_duration_secs \in Nat /\ cfg.open_duration_secs <= MaxOpenSecs
        /\ MaxOpenSecs \in Nat
    BY HalfOpenAssumption, ConfigsAssumption DEF Successes, Config
  <1>1. F \in Failures /\ F \subseteq h.failures \cup {NewFailure(h.failures, at)}
    BY PushFailures DEF Health
  <1>2. at + cfg.open_duration_secs \in Nat /\ at + cfg.open_duration_secs <= t + MaxOpenSecs
    BY <1>0
  <1>3. CASE h.state = "Open"
    BY <1>3 DEF Failed
  <1>4. CASE h.state # "Open" /\ FailureOpens(h, at, cfg)
    <2>1. Failed(h, at, cfg) = Opened(h, at, cfg) BY <1>4 DEF Failed
    <2>2. Opened(h, at, cfg) =
            [h EXCEPT !.state = "Open", !.half_open_success_count = 0, !.failures = F,
                      !.open_until = at + cfg.open_duration_secs, !.updated_at = at]
      BY DEF Opened
    <2> DEFINE u == at + cfg.open_duration_secs
    <2>3. u \in MaybeTime /\ u # None /\ u <= t + MaxOpenSecs
      BY <1>2, NoneAssumption DEF MaybeTime
    <2> HIDE DEF F, u
    <2>4. Opened(h, at, cfg) \in Health
      BY <1>0, <1>1, <2>2, <2>3 DEF Health, State, u
    <2>5. Good(Opened(h, at, cfg), t)
      BY <2>2, <2>3 DEF Good, Shaped, Health, u
    <2> QED BY <1>1, <1>4, <2>1, <2>2, <2>4, <2>5 DEF Health
  <1>5. CASE h.state # "Open" /\ ~FailureOpens(h, at, cfg)
    <2>1. Failed(h, at, cfg) = [h EXCEPT !.failures = F, !.updated_at = at]
      BY <1>5 DEF Failed
    <2>2. h.state = "Closed" BY <1>5 DEF FailureOpens, Health, State
    <2> HIDE DEF F
    <2> QED BY <1>1, <1>5, <2>1, <2>2 DEF Health, Good, Shaped
  <1> QED BY <1>3, <1>4, <1>5

LEMMA ClosedHealthGood ==
    ASSUME NEW at \in Nat, NEW t \in Nat, at <= t
    PROVE  ClosedHealth(at) \in Health /\ Good(ClosedHealth(at), t)
  <1>1. 0 \in Successes /\ {} \in Failures
    BY HalfOpenAssumption, FS_EmptySet DEF Successes, Failures
  <1> QED BY <1>1 DEF ClosedHealth, Health, MaybeTime, Good, Shaped, State

\* trigger_cooldown on one record (circuit_breaker.rs:484-489).
LEMMA CooledDownHealth ==
    ASSUME NEW h \in Health, NEW at \in Nat, NEW t \in Nat, at <= t, Good(h, t),
           NEW secs \in Nat
    PROVE  LET k == CooledDown(h, at, secs) IN
           /\ k \in Health /\ Good(k, t)
           /\ k.failures = h.failures /\ k.state = h.state
           /\ k.half_open_success_count = h.half_open_success_count
           /\ k.cooldown_until \in Nat
           /\ h.cooldown_until # None => k.cooldown_until >= h.cooldown_until
  <1> DEFINE u == IF h.cooldown_until # None /\ h.cooldown_until > at + secs
                  THEN h.cooldown_until ELSE at + secs
  <1>0. h.cooldown_until = None \/ h.cooldown_until \in Nat
    BY DEF Health, MaybeTime
  <1>1. u \in Nat /\ (h.cooldown_until # None => u >= h.cooldown_until)
    BY <1>0
  <1>2. CooledDown(h, at, secs) = [h EXCEPT !.cooldown_until = u, !.updated_at = at]
    BY DEF CooledDown
  <1> HIDE DEF u
  <1> DEFINE k == CooledDown(h, at, secs)
  <1>3. k \in Health BY <1>1, <1>2 DEF Health, MaybeTime
  <1>4. /\ k.state = h.state /\ k.failures = h.failures
        /\ k.half_open_success_count = h.half_open_success_count
        /\ k.open_until = h.open_until /\ k.cooldown_until = u /\ k.updated_at = at
    BY <1>2 DEF Health
  <1> HIDE DEF k
  <1>5. Good(k, t) BY <1>4 DEF Good, Shaped
  <1> QED BY <1>1, <1>3, <1>4, <1>5 DEF k

\* The rescheduling of update_config (circuit_breaker.rs:160-165).
LEMMA RescheduledHealth ==
    ASSUME NEW h \in Health, NEW t \in Nat, Good(h, t), NEW cfg \in Configs
    PROVE  LET k == Rescheduled(h, cfg) IN
           /\ k \in Health /\ Good(k, t)
           /\ k.failures = h.failures /\ k.state = h.state
           /\ k.half_open_success_count = h.half_open_success_count
           /\ k.cooldown_until = h.cooldown_until
  <1>1. /\ cfg.open_duration_secs \in Nat /\ cfg.open_duration_secs <= MaxOpenSecs
        /\ MaxOpenSecs \in Nat
    BY ConfigsAssumption DEF Config
  <1> QED BY <1>1, NoneAssumption DEF Rescheduled, Health, MaybeTime, Good, Shaped

LEMMA RowOfGood ==
    ASSUME NEW h \in Health, NEW t \in Nat, Good(h, t)
    PROVE  RowOf(h) \in Row /\ Good(RowOf(h), t)
  BY DEF RowOf, Row, Health, Good, Shaped

LEMMA ReloadedGood ==
    ASSUME NEW r \in Row, NEW t \in Nat, Good(r, t)
    PROVE  Reloaded(r) \in Health /\ Good(Reloaded(r), t)
  BY DEF Reloaded, Row, Health, MaybeTime, Good, Shaped

(* ------------------------- the inductive step ----------------------------- *)

\* What a call may do to its provider under the lock without harm.
LEMMA SectionStep ==
    ASSUME IInv, NEW c \in Calls, NEW p \in Providers,
           NEW k \in Health \cup {None}, NEW items \in SUBSET Item,
           NEW L \in Failures, NEW n \in Nat,
           k # None => /\ Good(k, now)
                       /\ k.failures \subseteq L
                       /\ k.state = "HalfOpen" => n = k.half_open_success_count,
           \A item \in items : Good(item.row, now),
           health' = [health EXCEPT ![p] = k], Unlock(c, items),
           log' = [log EXCEPT ![p] = L], streak' = [streak EXCEPT ![p] = n],
           UNCHANGED <<now, config, way, db, restarts>>
    PROVE  IInv'
  <1> USE DEF IInv
  <1>1. TypeOK'
    <2>1. call' \in [Calls -> CallState]
      BY DEF TypeOK, Unlock, CallState
    <2> QED BY <2>1 DEF TypeOK
  <1>2. AllGood'
    <2>1. \A q \in Providers : health'[q] # None => Good(health'[q], now)
      BY DEF TypeOK, AllGood
    <2>2. \A d \in Calls : GoodCall(call'[d], now)
      BY DEF TypeOK, AllGood, Unlock, GoodCall, Idle
    <2> QED BY <2>1, <2>2 DEF AllGood, Good, GoodCall, Shaped
  <1>3. LogCovers'
    BY DEF TypeOK, LogCovers
  <1>4. StreakCounts'
    BY DEF TypeOK, StreakCounts
  <1> QED BY <1>1, <1>2, <1>3, <1>4

LEMMA UnlockStep ==
    ASSUME IInv, NEW c \in Calls, Unlock(c, {}),
           UNCHANGED <<now, config, health, way, db, restarts, log, streak>>
    PROVE  IInv'
  <1>1. TypeOK' BY DEF IInv, TypeOK, Unlock, CallState
  <1>2. AllGood'
    BY DEF IInv, TypeOK, AllGood, Unlock, Good, GoodCall, Shaped, Idle
  <1> QED BY <1>1, <1>2 DEF IInv, LogCovers, StreakCounts

\* What the record of a call under the lock says.
LEMMA LockedCall ==
    ASSUME IInv, NEW c \in Calls, call[c].pc = "locked"
    PROVE  /\ call[c].provider \in Providers /\ call[c].cfg \in Configs
           /\ call[c].at \in Nat /\ call[c].at <= now /\ now \in Nat
           /\ health[call[c].provider] \in Health \cup {None}
           /\ log[call[c].provider] \in Failures
           /\ streak[call[c].provider] \in Nat
  <1>1. call[c] \in CallState BY DEF IInv, TypeOK
  <1>2. call[c] \in [pc : {"locked"}, op : Ops, provider : Providers, at : Nat,
                     cfg : Configs]
    BY <1>1 DEF CallState, Idle
  <1>3. call[c].at <= now BY DEF IInv, AllGood, GoodCall
  <1> QED BY <1>2, <1>3 DEF IInv, TypeOK

LEMMA ItemOfGood ==
    ASSUME NEW p \in Providers, NEW h \in Health, NEW t \in Nat, Good(h, t)
    PROVE  ItemOf(p, h) \in Item /\ Good(ItemOf(p, h).row, t)
  BY RowOfGood DEF ItemOf, Item

LEMMA ShouldAllowStep ==
    ASSUME IInv, NEW c \in Calls, ShouldAllow(c)
    PROVE  IInv'
  <1> DEFINE p == call[c].provider
             h == health[p]
             at == call[c].at
             k == Checked(h, at)
  <1>1. /\ p \in Providers /\ at \in Nat /\ at <= now /\ now \in Nat
        /\ h \in Health \cup {None} /\ log[p] \in Failures /\ streak[p] \in Nat
    BY LockedCall DEF ShouldAllow, InSection
  <1>2. CASE h = None
    BY <1>2, UnlockStep DEF ShouldAllow
  <1>3. CASE h # None
    <2> DEFINE after == IF IsInert(k) THEN None ELSE k
               items == IF CheckPersists(h, at) THEN {ItemOf(p, k)} ELSE {}
               n == IF OpenExpired(h, at) THEN 0 ELSE streak[p]
    <2>1. h \in Health /\ Good(h, now) BY <1>1, <1>3 DEF IInv, AllGood
    <2>2. /\ k \in Health /\ Good(k, now) /\ k.failures \subseteq h.failures
          /\ k.state = IF OpenExpired(h, at) THEN "HalfOpen" ELSE h.state
          /\ k.half_open_success_count = IF OpenExpired(h, at) THEN 0
                                         ELSE h.half_open_success_count
      BY <1>1, <2>1, CheckedHealth
    <2>3. items \in SUBSET Item /\ \A item \in items : Good(item.row, now)
      BY <1>1, <2>2, ItemOfGood
    <2>4. h.failures \subseteq log[p]
      BY <1>1, <1>3 DEF IInv, LogCovers
    <2>5. k.state = "HalfOpen" => n = k.half_open_success_count
      BY <1>1, <1>3, <2>2 DEF IInv, StreakCounts
    <2>6. /\ health' = [health EXCEPT ![p] = after] /\ Unlock(c, items)
          /\ log' = [log EXCEPT ![p] = log[p]] /\ streak' = [streak EXCEPT ![p] = n]
          /\ UNCHANGED <<now, config, way, db, restarts>>
      BY <1>3 DEF ShouldAllow, IInv, TypeOK
    <2>7. n \in Nat /\ after \in Health \cup {None} BY <1>1, <2>2
    <2> HIDE DEF p, h, at, k, items, n
    <2> QED BY <1>1, <2>2, <2>3, <2>4, <2>5, <2>6, <2>7, SectionStep
  <1> QED BY <1>2, <1>3

LEMMA RecordSuccessStep ==
    ASSUME IInv, NEW c \in Calls, RecordSuccess(c)
    PROVE  IInv'
  <1> DEFINE p == call[c].provider
             h == health[p]
             at == call[c].at
             k == Succeeded(h, at)
  <1>1. /\ p \in Providers /\ at \in Nat /\ at <= now /\ now \in Nat
        /\ h \in Health \cup {None} /\ log[p] \in Failures /\ streak[p] \in Nat
    BY LockedCall DEF RecordSuccess, InSection
  <1>2. CASE h = None
    BY <1>2, UnlockStep DEF RecordSuccess
  <1>3. CASE h # None
    <2> DEFINE items == IF h.state = "HalfOpen" \/ k.failures # h.failures
                        THEN {ItemOf(p, k)} ELSE {}
               L == IF k.state = "Closed" THEN {} ELSE log[p]
               n == IF h.state = "HalfOpen" THEN streak[p] + 1 ELSE streak[p]
    <2>1. h \in Health /\ Good(h, now) BY <1>1, <1>3 DEF IInv, AllGood
    <2>2. /\ k \in Health /\ Good(k, now) /\ k.failures \subseteq h.failures
          /\ k.state = "Closed" => k.failures = {}
          /\ k.state = "HalfOpen" =>
                /\ h.state = "HalfOpen"
                /\ k.half_open_success_count = h.half_open_success_count + 1
      BY <1>1, <2>1, SucceededHealth
    <2>3. items \in SUBSET Item /\ \A item \in items : Good(item.row, now)
      BY <1>1, <2>2, ItemOfGood
    <2>4. h.failures \subseteq log[p]
      BY <1>1, <1>3 DEF IInv, LogCovers
    <2>5. k.failures \subseteq L /\ L \in Failures
      BY <1>1, <2>2, <2>4, FS_EmptySet DEF Failures
    <2>6. k.state = "HalfOpen" => n = k.half_open_success_count
      BY <1>1, <1>3, <2>2 DEF IInv, StreakCounts
    <2>7. /\ health' = [health EXCEPT ![p] = k] /\ Unlock(c, items)
          /\ log' = [log EXCEPT ![p] = L] /\ streak' = [streak EXCEPT ![p] = n]
          /\ UNCHANGED <<now, config, way, db, restarts>>
      BY <1>3 DEF RecordSuccess, IInv, TypeOK
    <2>8. n \in Nat BY <1>1
    <2> HIDE DEF p, h, at, k, items, L, n
    <2> QED BY <1>1, <2>2, <2>3, <2>5, <2>6, <2>7, <2>8, SectionStep
  <1> QED BY <1>2, <1>3

\* The record a failure or a cooldown starts from.
LEMMA EntryOrClosed ==
    ASSUME IInv, NEW c \in Calls, call[c].pc = "locked"
    PROVE  LET h == IF health[call[c].provider] = None THEN ClosedHealth(call[c].at)
                    ELSE health[call[c].provider]
           IN h \in Health /\ Good(h, now) /\ h.failures \subseteq log[call[c].provider]
  <1>1. CASE health[call[c].provider] = None
    <2>1. ClosedHealth(call[c].at) \in Health /\ Good(ClosedHealth(call[c].at), now)
      BY LockedCall, ClosedHealthGood
    <2> QED BY <1>1, <2>1 DEF ClosedHealth
  <1>2. CASE health[call[c].provider] # None
    BY <1>2, LockedCall DEF IInv, AllGood, LogCovers
  <1> QED BY <1>1, <1>2

LEMMA RecordFailureStep ==
    ASSUME IInv, NEW c \in Calls, RecordFailure(c)
    PROVE  IInv'
  <1> DEFINE p == call[c].provider
             at == call[c].at
             h == IF health[p] = None THEN ClosedHealth(at) ELSE health[p]
             k == Failed(h, at, call[c].cfg)
             items == IF h.state = "Open" THEN {} ELSE {ItemOf(p, k)}
             L == IF h.state = "Open" THEN log[p]
                  ELSE log[p] \cup {NewFailure(h.failures, at)}
             n == IF h.state = "Open" THEN streak[p] ELSE 0
  <1>1. /\ p \in Providers /\ at \in Nat /\ at <= now /\ now \in Nat
        /\ call[c].cfg \in Configs /\ log[p] \in Failures /\ streak[p] \in Nat
    BY LockedCall DEF RecordFailure, InSection
  <1>2. h \in Health /\ Good(h, now) /\ h.failures \subseteq log[p]
    BY EntryOrClosed DEF RecordFailure, InSection
  <1>3. /\ k \in Health /\ Good(k, now)
        /\ k.failures \subseteq h.failures \cup {NewFailure(h.failures, at)}
        /\ h.state = "Open" => k = h
        /\ k.state # "HalfOpen"
    BY <1>1, <1>2, FailedHealth
  <1>4. items \in SUBSET Item /\ \A item \in items : Good(item.row, now)
    BY <1>1, <1>3, ItemOfGood
  <1>5. log[p] \cup {NewFailure(h.failures, at)} \in Failures
    BY <1>1, <1>2, AddedFailures DEF Health
  <1>6. k.failures \subseteq L /\ L \in Failures
    BY <1>1, <1>2, <1>3, <1>5
  <1>7. /\ health' = [health EXCEPT ![p] = k] /\ Unlock(c, items)
        /\ log' = [log EXCEPT ![p] = L] /\ streak' = [streak EXCEPT ![p] = n]
        /\ UNCHANGED <<now, config, way, db, restarts>>
    BY DEF RecordFailure
  <1>8. n \in Nat BY <1>1
  <1> HIDE DEF p, h, at, k, items, L, n
  <1> QED BY <1>1, <1>3, <1>4, <1>6, <1>7, <1>8, SectionStep

LEMMA TriggerCooldownStep ==
    ASSUME IInv, NEW c \in Calls, NEW secs \in CooldownSecs, TriggerCooldown(c, secs)
    PROVE  IInv'
  <1> DEFINE p == call[c].provider
             at == call[c].at
             h == IF health[p] = None THEN ClosedHealth(at) ELSE health[p]
             k == CooledDown(h, at, secs)
  <1>1. /\ p \in Providers /\ at \in Nat /\ at <= now /\ now \in Nat
        /\ log[p] \in Failures /\ streak[p] \in Nat
    BY LockedCall DEF TriggerCooldown, InSection
  <1>2. h \in Health /\ Good(h, now) /\ h.failures \subseteq log[p]
    BY EntryOrClosed DEF TriggerCooldown, InSection
  <1>3. secs \in Nat BY CooldownAssumption
  <1>4. /\ k \in Health /\ Good(k, now) /\ k.failures = h.failures
        /\ k.state = h.state /\ k.half_open_success_count = h.half_open_success_count
    <2> HIDE DEF h, at
    <2> QED BY <1>1, <1>2, <1>3, CooledDownHealth
  <1>5. k.state = "HalfOpen" => streak[p] = k.half_open_success_count
    BY <1>1, <1>4 DEF IInv, StreakCounts, ClosedHealth
  <1>6. /\ health' = [health EXCEPT ![p] = k] /\ Unlock(c, {})
        /\ log' = [log EXCEPT ![p] = log[p]]
        /\ streak' = [streak EXCEPT ![p] = streak[p]]
        /\ UNCHANGED <<now, config, way, db, restarts>>
    BY DEF TriggerCooldown, IInv, TypeOK
  <1> HIDE DEF p, h, at, k
  <1> QED BY <1>1, <1>2, <1>4, <1>5, <1>6, SectionStep

LEMMA ResetStep ==
    ASSUME IInv, NEW c \in Calls, Reset(c)
    PROVE  IInv'
  <1> DEFINE p == call[c].provider
             k == ClosedHealth(call[c].at)
             items == IF health[p] = None THEN {} ELSE {ItemOf(p, k)}
             L == IF health[p] = None THEN log[p] ELSE {}
  <1>1. /\ p \in Providers /\ call[c].at \in Nat /\ call[c].at <= now /\ now \in Nat
        /\ log[p] \in Failures
    BY LockedCall DEF Reset, InSection
  <1>2. k \in Health /\ Good(k, now) BY <1>1, ClosedHealthGood
  <1>3. items \in SUBSET Item /\ \A item \in items : Good(item.row, now)
    BY <1>1, <1>2, ItemOfGood
  <1>4. L \in Failures BY <1>1, FS_EmptySet DEF Failures
  <1>5. /\ health' = [health EXCEPT ![p] = None] /\ Unlock(c, items)
        /\ log' = [log EXCEPT ![p] = L] /\ streak' = [streak EXCEPT ![p] = 0]
        /\ UNCHANGED <<now, config, way, db, restarts>>
    BY DEF Reset
  <1> HIDE DEF p, k, items, L
  <1> QED BY <1>1, <1>3, <1>4, <1>5, SectionStep

LEMMA ConfigureStep ==
    ASSUME IInv, NEW c \in Calls, Configure(c)
    PROVE  IInv'
  <1>1. call[c] \in CallState BY DEF IInv, TypeOK
  <1>2. call[c] \in [pc : {"configure"}, cfg : Configs, old : Nat]
    BY <1>1 DEF Configure, CallState, Idle
  <1>3. TypeOK' BY <1>2 DEF Configure, IInv, TypeOK, CallState
  <1>4. \A d \in Calls : GoodCall(call'[d], now)
    BY DEF Configure, IInv, TypeOK, AllGood, GoodCall, Idle
  <1>5. AllGood' BY <1>4 DEF Configure, IInv, AllGood, Good, GoodCall, Shaped
  <1> QED BY <1>3, <1>5 DEF Configure, IInv, LogCovers, StreakCounts

LEMMA RescheduleStep ==
    ASSUME IInv, NEW c \in Calls, Reschedule(c)
    PROVE  IInv'
  <1> DEFINE cfg == call[c].cfg
             items == {ItemOf(p, health'[p]) : p \in {q \in Providers : IsOpen(q)}}
  <1>1. call[c] \in CallState BY DEF IInv, TypeOK
  <1>2. cfg \in Configs
    <2>1. call[c] \in [pc : {"reschedule"}, cfg : Configs]
      BY <1>1 DEF Reschedule, CallState, Idle
    <2> QED BY <2>1
  <1>3. now \in Nat BY DEF IInv, TypeOK
  <1>4. \A p \in Providers : IsOpen(p) =>
            /\ health[p] \in Health /\ Good(health[p], now)
            /\ health'[p] = Rescheduled(health[p], cfg)
    BY DEF Reschedule, IInv, TypeOK, AllGood, IsOpen
  <1>5. \A p \in Providers : IsOpen(p) =>
            /\ health'[p] \in Health /\ Good(health'[p], now)
            /\ health'[p].failures = health[p].failures
            /\ health'[p].state = "Open"
    BY <1>2, <1>3, <1>4, RescheduledHealth DEF IsOpen
  <1>6. \A p \in Providers : ~IsOpen(p) => health'[p] = health[p]
    BY DEF Reschedule
  <1>7. \A i \in items : i \in Item /\ Good(i.row, now)
    BY <1>3, <1>5, ItemOfGood
  <1>8. call' = [call EXCEPT ![c] = IF items = {} THEN Idle
                                    ELSE [pc |-> "persist", items |-> items]]
    BY DEF Reschedule, Unlock
  <1>9. health' \in [Providers -> Health \cup {None}]
    <2>1. health' = [p \in Providers |-> health'[p]] BY DEF Reschedule
    <2>2. \A p \in Providers : health'[p] \in Health \cup {None}
      BY <1>5, <1>6 DEF IInv, TypeOK
    <2> QED BY <2>1, <2>2
  <1>10. UNCHANGED <<now, config, way, db, restarts, log, streak>> BY DEF Reschedule
  <1> HIDE DEF cfg, items
  <1>11. TypeOK'
    BY <1>7, <1>8, <1>9, <1>10 DEF IInv, TypeOK, CallState
  <1>12. \A d \in Calls : GoodCall(call'[d], now)
    BY <1>7, <1>8 DEF IInv, TypeOK, AllGood, GoodCall, Idle
  <1>13. \A p \in Providers : health'[p] # None => Good(health'[p], now)
    BY <1>5, <1>6 DEF IInv, AllGood
  <1>14. AllGood'
    BY <1>10, <1>12, <1>13 DEF IInv, AllGood, Good, GoodCall, Shaped
  <1>15. LogCovers' BY <1>5, <1>6, <1>10 DEF IInv, LogCovers, IsOpen
  <1>16. StreakCounts' BY <1>5, <1>6, <1>10 DEF IInv, StreakCounts
  <1> QED BY <1>11, <1>14, <1>15, <1>16 DEF IInv

LEMMA PersistStep ==
    ASSUME IInv, NEW c \in Calls, Persist(c)
    PROVE  IInv'
  <1>1. call[c] \in CallState BY DEF IInv, TypeOK
  <1>2. call[c] \in [pc : {"persist"}, items : SUBSET Item]
    BY <1>1 DEF Persist, CallState, Idle
  <1>3. PICK item \in call[c].items :
            /\ way' \in SUBSET (way \cup {item})
            /\ Unlock(c, call[c].items \ {item})
    BY DEF Persist
  <1>4. item \in Item /\ Good(item.row, now)
    BY <1>2 DEF IInv, AllGood, GoodCall, Persist
  <1>5. UNCHANGED <<now, config, health, db, restarts, log, streak>> BY DEF Persist
  <1>6. TypeOK'
    BY <1>2, <1>3, <1>4, <1>5 DEF IInv, TypeOK, Unlock, CallState
  <1>7. \A d \in Calls : GoodCall(call'[d], now)
    BY <1>3, <1>2 DEF IInv, TypeOK, AllGood, GoodCall, Unlock, Idle
  <1>8. \A i \in way' : Good(i.row, now)
    BY <1>3, <1>4 DEF IInv, AllGood
  <1>9. AllGood'
    BY <1>5, <1>7, <1>8 DEF IInv, AllGood, Good, GoodCall, Shaped
  <1> QED BY <1>5, <1>6, <1>9 DEF IInv, LogCovers, StreakCounts

LEMMA WriteStep ==
    ASSUME IInv, NEW item \in way, Write(item)
    PROVE  IInv'
  <1>1. item \in Item /\ Good(item.row, now) BY DEF IInv, TypeOK, AllGood
  <1>2. Stored(item.row) \in Row \cup {None}
        /\ (Stored(item.row) # None => Good(Stored(item.row), now))
    BY <1>1 DEF Stored, Item
  <1>3. /\ db' = [db EXCEPT ![item.provider] = Stored(item.row)]
        /\ way' \subseteq way
        /\ UNCHANGED <<now, config, health, call, restarts, log, streak>>
    BY DEF Write
  <1>4. TypeOK' BY <1>1, <1>2, <1>3 DEF IInv, TypeOK, Item
  <1>5. \A p \in Providers : db'[p] # None => Good(db'[p], now)
    BY <1>1, <1>2, <1>3 DEF IInv, TypeOK, AllGood
  <1>6. AllGood'
    BY <1>3, <1>5 DEF IInv, AllGood, Good, GoodCall, Shaped
  <1> QED BY <1>3, <1>4, <1>6 DEF IInv, LogCovers, StreakCounts

LEMMA TickStep ==
    ASSUME IInv, Tick
    PROVE  IInv'
  <1>1. TypeOK' BY DEF IInv, TypeOK, Tick
  <1>2. ASSUME NEW r, r.updated_at \in Nat, r.open_until \in MaybeTime, Good(r, now)
        PROVE  Good(r, now')
    BY <1>2, ConfigsAssumption DEF Good, Tick, IInv, TypeOK, MaybeTime
  <1>3. \A p \in Providers : health[p] # None => Good(health[p], now')
    BY <1>2 DEF IInv, TypeOK, AllGood, Health
  <1>4. \A p \in Providers : db[p] # None => Good(db[p], now')
    BY <1>2 DEF IInv, TypeOK, AllGood, Row
  <1>5. ASSUME NEW c \in Calls PROVE GoodCall(call[c], now')
    <2>1. call[c] \in CallState BY DEF IInv, TypeOK
    <2>2. CASE call[c].pc = "locked"
      BY <2>2, LockedCall DEF GoodCall, Tick
    <2>3. CASE call[c].pc = "persist"
      <3>1. call[c] \in [pc : {"persist"}, items : SUBSET Item]
        BY <2>1, <2>3 DEF CallState, Idle
      <3>2. \A item \in call[c].items : item.row \in Row /\ Good(item.row, now)
        BY <2>3, <3>1 DEF IInv, AllGood, GoodCall, Item
      <3> QED BY <1>2, <2>3, <3>2 DEF GoodCall, Row
    <2>4. CASE call[c].pc \notin {"locked", "persist"}
      BY <2>4 DEF GoodCall
    <2> QED BY <2>2, <2>3, <2>4
  <1>6. \A item \in way : Good(item.row, now')
    BY <1>2 DEF IInv, TypeOK, AllGood, Item, Row
  <1>7. AllGood' BY <1>3, <1>4, <1>5, <1>6 DEF AllGood, Tick, Good, GoodCall, Shaped
  <1> QED BY <1>1, <1>7 DEF IInv, Tick, LogCovers, StreakCounts

LEMMA RestartStep ==
    ASSUME IInv, Restart
    PROVE  IInv'
  <1>1. now \in Nat BY DEF IInv, TypeOK
  <1>2. ASSUME NEW p \in Providers, db[p] # None
        PROVE  /\ db[p] \in Row /\ Good(db[p], now)
               /\ Reloaded(db[p]) \in Health /\ Good(Reloaded(db[p]), now)
    BY <1>1, <1>2, ReloadedGood DEF IInv, TypeOK, AllGood
  <1>3. \A p \in Providers : health'[p] \in Health \cup {None}
                             /\ (health'[p] # None => Good(health'[p], now))
    BY <1>2 DEF Restart
  <1>4. TypeOK'
    <2>1. health' \in [Providers -> Health \cup {None}] BY <1>2 DEF Restart
    <2>2. log' \in [Providers -> Failures]
      BY <1>2, FS_EmptySet DEF Restart, Failures, Row
    <2>3. streak' \in [Providers -> Nat]
      BY <1>2 DEF Restart, Row, Successes
    <2> QED BY <2>1, <2>2, <2>3 DEF IInv, TypeOK, Restart, CallState
  <1>5. AllGood'
    BY <1>2, <1>3 DEF Restart, IInv, AllGood, Good, GoodCall, Shaped, Idle
  <1>6. LogCovers' /\ StreakCounts'
    BY <1>2 DEF Restart, LogCovers, StreakCounts, Reloaded
  <1> QED BY <1>4, <1>5, <1>6 DEF IInv

LEMMA BeginStep ==
    ASSUME IInv, NEW c \in Calls,
           \/ \E op \in Ops, p \in Providers : Begin(c, op, p)
           \/ \E cfg \in Configs : BeginUpdate(c, cfg)
    PROVE  IInv'
  <1>1. UNCHANGED <<now, config, health, way, db, restarts, log, streak>>
    BY DEF Begin, BeginUpdate
  <1>2. config.open_duration_secs \in Nat
    BY ConfigsAssumption DEF IInv, TypeOK, Config
  <1>3. TypeOK'
    BY <1>1, <1>2 DEF IInv, TypeOK, Begin, BeginUpdate, CallState
  <1>4. \A d \in Calls : GoodCall(call'[d], now)
    BY DEF IInv, TypeOK, AllGood, GoodCall, Begin, BeginUpdate
  <1>5. AllGood' BY <1>1, <1>4 DEF IInv, AllGood, Good, GoodCall, Shaped
  <1> QED BY <1>1, <1>3, <1>5 DEF IInv, LogCovers, StreakCounts

LEMMA InitInv == Init => IInv
  BY FS_EmptySet, WindowAssumption
  DEF Init, IInv, TypeOK, AllGood, GoodCall, LogCovers, StreakCounts, CallState,
      Idle, Failures

LEMMA StutterInv ==
    ASSUME IInv, UNCHANGED vars
    PROVE  IInv'
  BY DEF IInv, vars, TypeOK, AllGood, Good, Shaped, GoodCall, LogCovers, StreakCounts

LEMMA NextInv == IInv /\ [Next]_vars => IInv'
  <1> SUFFICES ASSUME IInv, [Next]_vars PROVE IInv'
    OBVIOUS
  <1>1. ASSUME NEW c \in Calls, Section(c) PROVE IInv'
    BY <1>1, ShouldAllowStep, RecordSuccessStep, RecordFailureStep, ResetStep,
       TriggerCooldownStep, ConfigureStep, RescheduleStep DEF Section
  <1> QED BY <1>1, BeginStep, PersistStep, WriteStep, TickStep, RestartStep, StutterInv DEF Next

(* ----------------------- what a step may never do ------------------------- *)

StepIsSafe(p) == OpeningIsEarned(p) /\ ClosingIsEarned(p) /\ CooldownHolds(p)

\* A step that leaves a provider's record alone breaks nothing.
LEMMA UntouchedSafe ==
    ASSUME IInv, NEW p \in Providers, health'[p] = health[p]
    PROVE  StepIsSafe(p)
  BY DEF IInv, TypeOK, StepIsSafe, OpeningIsEarned, ClosingIsEarned, CooldownHolds,
         ClosedNow, IsOpen, Health, MaybeTime

LEMMA ShouldAllowSafe ==
    ASSUME IInv, NEW c \in Calls, ShouldAllow(c), NEW p \in Providers
    PROVE  StepIsSafe(p)
  <1> DEFINE h == health[p]
             at == call[c].at
             k == Checked(h, at)
  <1>1. CASE health'[p] = health[p]
    BY <1>1, UntouchedSafe
  <1>2. CASE health'[p] # health[p]
    <2>1. /\ p = call[c].provider /\ h # None
          /\ health'[p] = IF IsInert(k) THEN None ELSE k
      BY <1>2 DEF ShouldAllow, IInv, TypeOK
    <2>2. /\ at \in Nat /\ at <= now /\ now \in Nat /\ h \in Health /\ Good(h, now)
      BY <2>1, LockedCall DEF ShouldAllow, InSection, IInv, AllGood
    <2>3. /\ k \in Health
          /\ k.state = IF OpenExpired(h, at) THEN "HalfOpen" ELSE h.state
          /\ k.cooldown_until = ClearCooldown(h, at).cooldown_until
      BY <2>2, CheckedHealth
    <2>4. h.state = "Open" => k.state # "Closed" /\ ~IsInert(k)
      BY <2>3 DEF IsInert
    <2>5. h.state = "HalfOpen" => k.state = "HalfOpen" /\ ~IsInert(k)
      BY <2>3 DEF IsInert, OpenExpired
    <2>6. h.state = "Closed" => k.state = "Closed"
      BY <2>3 DEF OpenExpired
    <2>7. h.cooldown_until # None /\ now < h.cooldown_until
             => k.cooldown_until = h.cooldown_until /\ ~IsInert(k)
      BY <2>2, <2>3 DEF ClearCooldown, IsInert, Health, MaybeTime
    <2>8. h.state \in State BY <2>2 DEF Health
    <2>9. h.cooldown_until # None => h.cooldown_until \in Nat
      BY <2>2 DEF Health, MaybeTime
    <2> HIDE DEF k, at
    <2>10. OpeningIsEarned(p)
      BY <2>1, <2>6 DEF OpeningIsEarned, ClosedNow, IsOpen
    <2>11. ClosingIsEarned(p)
      BY <2>1, <2>3, <2>4, <2>5, <2>8, NoneAssumption
      DEF ClosingIsEarned, ClosedNow, State
    <2>12. CooldownHolds(p)
      BY <2>1, <2>3, <2>7, <2>9, NoneAssumption DEF CooldownHolds, Health
    <2> QED BY <2>10, <2>11, <2>12 DEF StepIsSafe
  <1> QED BY <1>1, <1>2

LEMMA RecordSuccessSafe ==
    ASSUME IInv, NEW c \in Calls, RecordSuccess(c), NEW p \in Providers
    PROVE  StepIsSafe(p)
  <1> DEFINE h == health[p]
             k == Succeeded(h, call[c].at)
  <1>1. CASE health'[p] = health[p]
    BY <1>1, UntouchedSafe
  <1>2. CASE health'[p] # health[p]
    <2>1. /\ p = call[c].provider /\ h # None /\ health'[p] = k
          /\ streak'[p] = IF h.state = "HalfOpen" THEN streak[p] + 1 ELSE streak[p]
      BY <1>2 DEF RecordSuccess, IInv, TypeOK
    <2>2. /\ call[c].at \in Nat /\ call[c].at <= now /\ now \in Nat
          /\ h \in Health /\ Good(h, now)
      BY <2>1, LockedCall DEF RecordSuccess, InSection, IInv, AllGood
    <2>3. /\ k \in Health
          /\ k.state = "Open" <=> h.state = "Open"
          /\ h.state = "HalfOpen" /\ k.state = "Closed" => SuccessCloses(h)
      BY <2>2, SucceededHealth
    <2>4. SuccessOf(p)
      <3>1. call'[c].pc # "locked"
        BY DEF RecordSuccess, Unlock, IInv, TypeOK, Idle
      <3> QED BY <2>1, <3>1 DEF RecordSuccess, SuccessOf, Finishes
    <2>5. SuccessCloses(h) => streak'[p] >= HalfOpenRequired
      BY <2>1 DEF SuccessCloses, IInv, StreakCounts
    <2>6. h.state \in State BY <2>2 DEF Health
    <2> HIDE DEF k
    <2>7. OpeningIsEarned(p)
      BY <2>1, <2>3 DEF OpeningIsEarned, ClosedNow, IsOpen
    <2>8. ClosingIsEarned(p)
      BY <2>1, <2>3, <2>5, <2>6, NoneAssumption DEF ClosingIsEarned, ClosedNow, State, Health
    <2>9. CooldownHolds(p)
      BY <2>4 DEF CooldownHolds
    <2> QED BY <2>7, <2>8, <2>9 DEF StepIsSafe
  <1> QED BY <1>1, <1>2

LEMMA RecordFailureSafe ==
    ASSUME IInv, NEW c \in Calls, RecordFailure(c), NEW p \in Providers
    PROVE  StepIsSafe(p)
  <1> DEFINE at == call[c].at
             cfg == call[c].cfg
             h == IF health[p] = None THEN ClosedHealth(at) ELSE health[p]
             k == Failed(h, at, cfg)
  <1>1. CASE health'[p] = health[p]
    BY <1>1, UntouchedSafe
  <1>2. CASE health'[p] # health[p]
    <2>1. /\ p = call[c].provider /\ health'[p] = k
          /\ log'[p] = IF h.state = "Open" THEN log[p]
                       ELSE log[p] \cup {NewFailure(h.failures, at)}
      BY <1>2 DEF RecordFailure, IInv, TypeOK
    <2>2. /\ at \in Nat /\ at <= now /\ now \in Nat /\ cfg \in Configs
          /\ log[p] \in Failures
      BY <2>1, LockedCall DEF RecordFailure, InSection
    <2>3. h \in Health /\ Good(h, now) /\ h.failures \subseteq log[p]
      BY <2>1, EntryOrClosed DEF RecordFailure, InSection
    <2>4. /\ k \in Health
          /\ k.state = "Closed" => h.state = "Closed"
          /\ h.state = "Closed" /\ k.state = "Open" => FailureOpens(h, at, cfg)
          /\ k.cooldown_until = h.cooldown_until
      BY <2>2, <2>3, FailedHealth
    <2>5. ASSUME ClosedNow(p), IsOpen(p)'
          PROVE  Cardinality({f \in log'[p] : f.at > Cutoff(at)}) >= cfg.failure_threshold
      <3> DEFINE R == Recent(PushFailure(h.failures, at), at)
                 S == {f \in log'[p] : f.at > Cutoff(at)}
      <3>1. h.state = "Closed" BY <2>5 DEF ClosedNow, ClosedHealth
      <3>2. k.state = "Open" BY <2>1, <2>5 DEF IsOpen
      <3>3. Cardinality(R) >= cfg.failure_threshold
        BY <2>4, <3>1, <3>2 DEF FailureOpens
      <3>4. PushFailure(h.failures, at) \subseteq h.failures \cup {NewFailure(h.failures, at)}
        BY <2>2, <2>3, PushFailures DEF Health
      <3>5. R \subseteq S
        BY <2>1, <2>3, <3>1, <3>4 DEF Recent
      <3>6. IsFiniteSet(S)
        <4>1. log[p] \cup {NewFailure(h.failures, at)} \in Failures
          BY <2>2, <2>3, AddedFailures DEF Health
        <4>2. IsFiniteSet(log'[p]) BY <2>1, <3>1, <4>1 DEF Failures
        <4> QED BY <4>2, FS_Subset
      <3>7. Cardinality(R) <= Cardinality(S) /\ Cardinality(S) \in Nat
            /\ Cardinality(R) \in Nat
        BY <3>5, <3>6, FS_Subset, FS_CardinalityType
      <3>8. cfg.failure_threshold \in Nat
        BY <2>2, ConfigsAssumption DEF Config
      <3> QED BY <3>3, <3>7, <3>8
    <2>6. OpeningIsEarned(p)
      BY <2>1, <2>5 DEF OpeningIsEarned, RecordFailure
    <2>7. ClosingIsEarned(p)
      BY <2>1, <2>4, NoneAssumption DEF ClosingIsEarned, ClosedNow, ClosedHealth
    <2>8. CooldownHolds(p)
      BY <2>1, <2>4, NoneAssumption DEF CooldownHolds, Health, MaybeTime
    <2> QED BY <2>6, <2>7, <2>8 DEF StepIsSafe
  <1> QED BY <1>1, <1>2

LEMMA TriggerCooldownSafe ==
    ASSUME IInv, NEW c \in Calls, NEW secs \in CooldownSecs, TriggerCooldown(c, secs),
           NEW p \in Providers
    PROVE  StepIsSafe(p)
  <1> DEFINE at == call[c].at
             h == IF health[p] = None THEN ClosedHealth(at) ELSE health[p]
             k == CooledDown(h, at, secs)
  <1>1. CASE health'[p] = health[p]
    BY <1>1, UntouchedSafe
  <1>2. CASE health'[p] # health[p]
    <2>1. p = call[c].provider /\ health'[p] = k
      BY <1>2 DEF TriggerCooldown, IInv, TypeOK
    <2>2. at \in Nat /\ at <= now /\ now \in Nat /\ secs \in Nat
      BY <2>1, LockedCall, CooldownAssumption DEF TriggerCooldown, InSection
    <2>3. h \in Health /\ Good(h, now)
      BY <2>1, EntryOrClosed DEF TriggerCooldown, InSection
    <2> HIDE DEF at, h
    <2>4. /\ k \in Health /\ k.state = h.state /\ k.cooldown_until \in Nat
          /\ h.cooldown_until # None => k.cooldown_until >= h.cooldown_until
      BY <2>2, <2>3, CooledDownHealth
    <2> HIDE DEF k
    <2>5. OpeningIsEarned(p) /\ ClosingIsEarned(p)
      BY <2>1, <2>4, NoneAssumption
      DEF OpeningIsEarned, ClosingIsEarned, ClosedNow, IsOpen, ClosedHealth, h
    <2>6. CooldownHolds(p)
      BY <2>1, <2>4, NoneAssumption DEF CooldownHolds, h
    <2> QED BY <2>5, <2>6 DEF StepIsSafe
  <1> QED BY <1>1, <1>2

LEMMA ResetSafe ==
    ASSUME IInv, NEW c \in Calls, Reset(c), NEW p \in Providers
    PROVE  StepIsSafe(p)
  <1>1. CASE health'[p] = health[p]
    BY <1>1, UntouchedSafe
  <1>2. CASE health'[p] # health[p]
    <2>1. p = call[c].provider /\ health'[p] = None
      BY <1>2 DEF Reset, IInv, TypeOK
    <2>2. call'[c].pc # "locked" BY DEF Reset, Unlock, IInv, TypeOK, Idle
    <2>3. ResetOf(p) BY <2>1, <2>2 DEF Reset, ResetOf, Finishes
    <2> QED BY <2>1, <2>3
        DEF StepIsSafe, OpeningIsEarned, ClosingIsEarned, CooldownHolds, IsOpen
  <1> QED BY <1>1, <1>2

LEMMA RescheduleSafe ==
    ASSUME IInv, NEW c \in Calls, Reschedule(c), NEW p \in Providers
    PROVE  StepIsSafe(p)
  <1>1. CASE health'[p] = health[p]
    BY <1>1, UntouchedSafe
  <1>2. CASE health'[p] # health[p]
    <2>1. IsOpen(p) /\ health'[p] = Rescheduled(health[p], call[c].cfg)
      BY <1>2 DEF Reschedule
    <2>2. /\ health[p] \in Health /\ Good(health[p], now) /\ now \in Nat
      BY <2>1 DEF IInv, TypeOK, AllGood, IsOpen
    <2>3. call[c].cfg \in Configs
      <3>1. call[c] \in CallState BY DEF IInv, TypeOK
      <3>2. call[c] \in [pc : {"reschedule"}, cfg : Configs]
        BY <3>1 DEF Reschedule, CallState, Idle
      <3> QED BY <3>2
    <2>4. /\ health'[p] \in Health /\ health'[p].state = health[p].state
          /\ health'[p].cooldown_until = health[p].cooldown_until
      BY <2>1, <2>2, <2>3, RescheduledHealth
    <2> QED BY <2>1, <2>2, <2>4, NoneAssumption
        DEF StepIsSafe, OpeningIsEarned, ClosingIsEarned, CooldownHolds, IsOpen,
            ClosedNow, Health, MaybeTime
  <1> QED BY <1>1, <1>2

LEMMA NextSafe ==
    ASSUME IInv, [Next]_vars, NEW p \in Providers
    PROVE  StepIsSafe(p)
  <1>1. ASSUME NEW c \in Calls, NEW op \in Ops, NEW q \in Providers, Begin(c, op, q)
        PROVE  StepIsSafe(p)
    BY <1>1, UntouchedSafe DEF Begin
  <1>2. ASSUME NEW c \in Calls, NEW cfg \in Configs, BeginUpdate(c, cfg)
        PROVE  StepIsSafe(p)
    BY <1>2, UntouchedSafe DEF BeginUpdate
  <1>3. ASSUME NEW c \in Calls, Section(c)
        PROVE  StepIsSafe(p)
    <2>1. CASE Configure(c)
      BY <2>1, UntouchedSafe DEF Configure
    <2> QED BY <1>3, <2>1, ShouldAllowSafe, RecordSuccessSafe, RecordFailureSafe,
               ResetSafe, TriggerCooldownSafe, RescheduleSafe DEF Section
  <1>4. ASSUME NEW c \in Calls, Persist(c)
        PROVE  StepIsSafe(p)
    BY <1>4, UntouchedSafe DEF Persist
  <1>5. CASE Tick \/ \E item \in way : Write(item)
    BY <1>5, UntouchedSafe DEF Tick, Write
  <1>6. CASE Restart
    <2>1. restarts' # restarts BY <1>6 DEF Restart, IInv, TypeOK
    <2> QED BY <2>1 DEF StepIsSafe, OpeningIsEarned, ClosingIsEarned, CooldownHolds
  <1>7. CASE UNCHANGED vars BY <1>7, UntouchedSafe DEF vars
  <1> QED BY <1>1, <1>2, <1>3, <1>4, <1>5, <1>6, <1>7 DEF Next

(* ------------------------------ theorems ---------------------------------- *)

\* The inductive invariant holds in every reachable state.
THEOREM Invariant == Spec => []IInv
  <1>1. Init => IInv BY InitInv
  <1>2. IInv /\ [Next]_vars => IInv' BY NextInv
  <1> QED BY <1>1, <1>2, PTL DEF Spec

\* The variables of the breaker keep their types (types.rs:102).
THEOREM TypeCorrect == Spec => []TypeOK
  <1>1. IInv => TypeOK BY DEF IInv
  <1> QED BY <1>1, Invariant, PTL

\* Every health record, stored row and row on its way carries the data of its
\* state and of no other (circuit_breaker.rs:238, :317, :388).
THEOREM ShapeCorrect == Spec => []CircuitShape
  <1>1. IInv => CircuitShape
    BY DEF IInv, AllGood, GoodCall, Good, CircuitShape
  <1> QED BY <1>1, Invariant, PTL

\* An open circuit is open for at most the longest open period the settings
\* accept (circuit_breaker.rs:389, :404, :163).
THEOREM LockoutIsBounded == Spec => []LockoutBounded
  <1>1. IInv => LockoutBounded
    BY DEF IInv, AllGood, Good, Shaped, LockoutBounded, IsOpen
  <1> QED BY <1>1, Invariant, PTL

\* A circuit opens only on a threshold of recent failures (circuit_breaker.rs:386).
THEOREM OpeningCorrect == Spec => OpensOnRecentFailures
  <1>1. IInv /\ [Next]_vars => \A p \in Providers : OpeningIsEarned(p)
    BY NextSafe DEF StepIsSafe
  <1> QED BY <1>1, Invariant, PTL DEF Spec, OpensOnRecentFailures

\* A circuit closes only after its probation (types.rs:11, circuit_breaker.rs:311).
THEOREM ClosingCorrect == Spec => ClosesOnlyAfterProbation
  <1>1. IInv /\ [Next]_vars => \A p \in Providers : ClosingIsEarned(p)
    BY NextSafe DEF StepIsSafe
  <1> QED BY <1>1, Invariant, PTL DEF Spec, ClosesOnlyAfterProbation

\* No cooldown is cut short (circuit_breaker.rs:216, :485).
THEOREM CooldownCorrect == Spec => CooldownKept
  <1>1. IInv /\ [Next]_vars => \A p \in Providers : CooldownHolds(p)
    BY NextSafe DEF StepIsSafe
  <1> QED BY <1>1, Invariant, PTL DEF Spec, CooldownKept

==============================================================================
