---------------------------- MODULE CircuitBreaker ---------------------------
(* The shared circuit breaker of the gateway: request tasks and UI commands    *)
(* ("calls") use one in-memory health map.  Every operation of circuit_breaker *)
(* .rs runs in three parts that other calls interleave with: it reads the      *)
(* configuration (and its caller read the clock), it changes the health map    *)
(* under the health lock, and after unlocking it hands the changed rows to the *)
(* persistence writer.  From there to the database is a way on which rows may   *)
(* overtake one another and be lost: channel, backlog and writer, which         *)
(* CircuitPersist.tla models one by one.                                       *)
(*                                                                             *)
(* log and streak are history: they are read by properties only.               *)
EXTENDS CircuitHealth

CONSTANTS
    Providers, Calls,
    Configs,      \* configurations a user may set
    MaxOpenSecs,  \* the longest open period the settings accept
    CooldownSecs, \* cooldowns the failover loop asks for
    MaxTime,      \* bound: the clock stops here
    LastFailure,  \* bound: no failure, cooldown or reconfiguration starts later
    MaxOnTheWay,  \* bound: rows on their way to the database
    MaxRestarts   \* bound on restarts of the gateway

ASSUME ConfigsAssumption ==
    /\ Configs \subseteq Config /\ Configs # {}
    /\ MaxOpenSecs \in Nat
    /\ \A cfg \in Configs : cfg.open_duration_secs <= MaxOpenSecs
ASSUME CooldownAssumption == CooldownSecs \subseteq Nat \ {0}
ASSUME CallAssumption     == None \notin Calls

VARIABLES
    now,      \* wall clock
    config,   \* CircuitBreaker.config
    health,   \* CircuitBreaker.health: provider -> Health, or None (no entry)
    call,     \* the operation each call is in
    way,      \* rows handed over and not yet written: a set of Items
    db,       \* provider -> stored Row, or None (no row)
    restarts,
    log,      \* failures since the provider last succeeded or was reset
    streak    \* successes since the circuit last became half-open

vars == <<now, config, health, call, way, db, restarts, log, streak>>

Ops == {"should_allow", "record_success", "record_failure", "trigger_cooldown",
        "reset"}
Item == [provider : Providers, row : Row]

Idle == [pc |-> "idle"]
CallState ==
    {Idle}
    \cup [pc : {"locked"}, op : Ops, provider : Providers, at : Nat, cfg : Configs]
    \cup [pc : {"configure"}, cfg : Configs, old : Nat]
    \cup [pc : {"reschedule"}, cfg : Configs]
    \cup [pc : {"persist"}, items : SUBSET Item]

TypeOK ==
    /\ now \in Nat
    /\ config \in Configs
    /\ health \in [Providers -> Health \cup {None}]
    /\ call \in [Calls -> CallState]
    /\ way \in SUBSET Item
    /\ db \in [Providers -> Row \cup {None}]
    /\ restarts \in Nat
    /\ log \in [Providers -> Failures]
    /\ streak \in [Providers -> Nat]

Init ==
    /\ now = FailureWindowSecs
    /\ config \in Configs
    /\ health = [p \in Providers |-> None]
    /\ call = [c \in Calls |-> Idle]
    /\ way = {}
    /\ db = [p \in Providers |-> None]
    /\ restarts = 0
    /\ log = [p \in Providers |-> {}]
    /\ streak = [p \in Providers |-> 0]

(* ------------------------- an operation begins ---------------------------- *)

\* update_config and reset run under the lock of the gateway state.
CommandUnderWay ==
    \E c \in Calls : \/ call[c].pc \in {"configure", "reschedule"}
                      \/ (call[c].pc = "locked" /\ call[c].op = "reset")

\* The caller reads the clock, the operation clones the configuration.
Begin(c, op, p) ==
    /\ call[c] = Idle
    /\ op = "reset" => ~CommandUnderWay
    /\ op \in {"record_failure", "trigger_cooldown"} => now <= LastFailure
    /\ call' = [call EXCEPT ![c] = [pc |-> "locked", op |-> op, provider |-> p,
                                    at |-> now, cfg |-> config]]
    /\ UNCHANGED <<now, config, health, way, db, restarts, log, streak>>

\* update_config first reads the open period in force.
BeginUpdate(c, cfg) ==
    /\ call[c] = Idle
    /\ ~CommandUnderWay
    /\ now <= LastFailure
    /\ call' = [call EXCEPT ![c] = [pc |-> "configure", cfg |-> cfg,
                                    old |-> config.open_duration_secs]]
    /\ UNCHANGED <<now, config, health, way, db, restarts, log, streak>>

(* --------------------- under the health lock ------------------------------ *)

InSection(c, op) == call[c].pc = "locked" /\ call[c].op = op

\* The call leaves the lock, with the rows it still has to persist.
Unlock(c, items) ==
    call' = [call EXCEPT ![c] = IF items = {} THEN Idle
                                ELSE [pc |-> "persist", items |-> items]]

ItemOf(p, h) == [provider |-> p, row |-> RowOf(h)]

ShouldAllow(c) ==
    /\ InSection(c, "should_allow")
    /\ LET p == call[c].provider
           h == health[p]
           checked == Checked(h, call[c].at)
       IN IF h = None
          THEN Unlock(c, {}) /\ UNCHANGED <<health, log, streak>>
          ELSE /\ health' = [health EXCEPT ![p] = IF IsInert(checked) THEN None
                                                  ELSE checked]
               /\ Unlock(c, IF CheckPersists(h, call[c].at)
                            THEN {ItemOf(p, checked)} ELSE {})
               /\ streak' = [streak EXCEPT ![p] = IF OpenExpired(h, call[c].at)
                                                  THEN 0 ELSE @]
               /\ UNCHANGED log
    /\ UNCHANGED <<now, config, way, db, restarts>>

RecordSuccess(c) ==
    /\ InSection(c, "record_success")
    /\ LET p == call[c].provider
           h == health[p]
           after == Succeeded(h, call[c].at)
       IN IF h = None
          THEN Unlock(c, {}) /\ UNCHANGED <<health, log, streak>>
          ELSE /\ health' = [health EXCEPT ![p] = after]
               /\ Unlock(c, IF h.state = "HalfOpen" \/ after.failures # h.failures
                            THEN {ItemOf(p, after)} ELSE {})
               /\ log' = [log EXCEPT ![p] = IF after.state = "Closed" THEN {}
                                            ELSE @]
               /\ streak' = [streak EXCEPT ![p] = IF h.state = "HalfOpen"
                                                  THEN @ + 1 ELSE @]
    /\ UNCHANGED <<now, config, way, db, restarts>>

RecordFailure(c) ==
    /\ InSection(c, "record_failure")
    /\ LET p == call[c].provider
           at == call[c].at
           h == IF health[p] = None THEN ClosedHealth(at) ELSE health[p]
           after == Failed(h, at, call[c].cfg)
       IN /\ health' = [health EXCEPT ![p] = after]
          /\ Unlock(c, IF h.state = "Open" THEN {} ELSE {ItemOf(p, after)})
          /\ log' = [log EXCEPT ![p] = IF h.state = "Open" THEN @
                                       ELSE @ \cup {NewFailure(h.failures, at)}]
          /\ streak' = [streak EXCEPT ![p] = IF h.state = "Open" THEN @ ELSE 0]
    /\ UNCHANGED <<now, config, way, db, restarts>>

\* Never persisted.
TriggerCooldown(c, secs) ==
    /\ InSection(c, "trigger_cooldown")
    /\ LET p == call[c].provider
           at == call[c].at
           h == IF health[p] = None THEN ClosedHealth(at) ELSE health[p]
       IN health' = [health EXCEPT ![p] = CooledDown(h, at, secs)]
    /\ Unlock(c, {})
    /\ UNCHANGED <<now, config, way, db, restarts, log, streak>>

Reset(c) ==
    /\ InSection(c, "reset")
    /\ LET p == call[c].provider
       IN /\ health' = [health EXCEPT ![p] = None]
          /\ Unlock(c, IF health[p] = None THEN {}
                       ELSE {ItemOf(p, ClosedHealth(call[c].at))})
          /\ log' = [log EXCEPT ![p] = IF health[p] = None THEN @ ELSE {}]
          /\ streak' = [streak EXCEPT ![p] = 0]
    /\ UNCHANGED <<now, config, way, db, restarts>>

\* update_config: the new configuration is in force before the open circuits
\* are rescheduled, and they are only when the open period changed.
Configure(c) ==
    /\ call[c].pc = "configure"
    /\ config' = call[c].cfg
    /\ call' = [call EXCEPT ![c] =
                   IF call[c].old = call[c].cfg.open_duration_secs THEN Idle
                   ELSE [pc |-> "reschedule", cfg |-> call[c].cfg]]
    /\ UNCHANGED <<now, health, way, db, restarts, log, streak>>

IsOpen(p) == health[p] # None /\ health[p].state = "Open"

Reschedule(c) ==
    /\ call[c].pc = "reschedule"
    /\ health' = [p \in Providers |-> IF IsOpen(p)
                                      THEN Rescheduled(health[p], call[c].cfg)
                                      ELSE health[p]]
    /\ Unlock(c, {ItemOf(p, health'[p]) : p \in {q \in Providers : IsOpen(q)}})
    /\ UNCHANGED <<now, config, way, db, restarts, log, streak>>

(* ------------------------- after the unlock ------------------------------- *)

\* try_persist: the row joins those on their way.  Any of them may be dropped:
\* the item of a closed channel, what a full backlog evicts or a newer state of
\* the same provider replaces there, a batch the database refused.
Persist(c) ==
    /\ call[c].pc = "persist"
    /\ \E item \in call[c].items :
          /\ \E kept \in SUBSET (way \cup {item}) :
                Cardinality(kept) <= MaxOnTheWay /\ way' = kept
          /\ Unlock(c, call[c].items \ {item})
    /\ UNCHANGED <<now, config, health, db, restarts, log, streak>>

\* Rows reach the database in any order: those of the backlog wait for room
\* while later ones pass by the channel.  An equal row may be still to come.
Write(item) ==
    /\ db' = [db EXCEPT ![item.provider] = Stored(item.row)]
    /\ way' \in {way, way \ {item}}
    /\ UNCHANGED <<now, config, health, call, restarts, log, streak>>

(* ----------------------------- environment -------------------------------- *)

Tick ==
    /\ now < MaxTime
    /\ now' = now + 1
    /\ UNCHANGED <<config, health, call, way, db, restarts, log, streak>>

\* The gateway stops, its calls and the rows on their way with it, and a new
\* breaker loads the rows of the database.
Restart ==
    /\ restarts < MaxRestarts
    /\ restarts' = restarts + 1
    /\ health' = [p \in Providers |-> IF db[p] = None THEN None
                                      ELSE Reloaded(db[p])]
    /\ call' = [c \in Calls |-> Idle]
    /\ way' = {}
    /\ log' = [p \in Providers |-> IF db[p] = None THEN {} ELSE db[p].failures]
    /\ streak' = [p \in Providers |-> IF db[p] = None THEN 0
                                      ELSE db[p].half_open_success_count]
    /\ UNCHANGED <<now, config, db>>

Section(c) ==
    \/ ShouldAllow(c) \/ RecordSuccess(c) \/ RecordFailure(c) \/ Reset(c)
    \/ \E secs \in CooldownSecs : TriggerCooldown(c, secs)
    \/ Configure(c) \/ Reschedule(c)

Next ==
    \/ \E c \in Calls, op \in Ops, p \in Providers : Begin(c, op, p)
    \/ \E c \in Calls, cfg \in Configs : BeginUpdate(c, cfg)
    \/ \E c \in Calls : Section(c) \/ Persist(c)
    \/ \E item \in way : Write(item)
    \/ Tick
    \/ Restart

Spec == Init /\ [][Next]_vars

\* Started calls finish, the clock runs, and requests keep asking for every
\* provider: a call that is free infinitely often is used for a gate check.
Fairness ==
    /\ WF_vars(Tick)
    /\ \A c \in Calls : WF_vars(Section(c)) /\ WF_vars(Persist(c))
    /\ \A p \in Providers : SF_vars(\E c \in Calls : Begin(c, "should_allow", p))

FairSpec == Spec /\ Fairness

------------------------------------------------------------------------------

Finishes(c, op, p) ==
    InSection(c, op) /\ call[c].provider = p /\ call'[c].pc # "locked"

ResetOf(p) == \E c \in Calls : Finishes(c, "reset", p)
SuccessOf(p) == \E c \in Calls : Finishes(c, "record_success", p)

ClosedNow(p) == health[p] = None \/ health[p].state = "Closed"

\* Each state of the circuit carries exactly its own data, in memory, in rows on
\* their way to the database and in the database: only an open circuit has an
\* open period, only a half-open one counts successes
\* (circuit_breaker.rs:238, :317, :388).
Shaped(r) ==
    /\ r.state = "Open" <=> r.open_until # None
    /\ r.half_open_success_count # 0 => r.state = "HalfOpen"

CircuitShape ==
    /\ \A p \in Providers : health[p] # None => Shaped(health[p])
    /\ \A p \in Providers : db[p] # None => Shaped(db[p])
    /\ \A item \in way : Shaped(item.row)
    /\ \A c \in Calls : call[c].pc = "persist"
          => \A item \in call[c].items : Shaped(item.row)

\* No provider is locked out for longer than the longest configured open period
\* from now on, whatever configuration reloads and late calls interleave.
LockoutBounded ==
    \A p \in Providers : IsOpen(p) => health[p].open_until <= now + MaxOpenSecs

OpeningIsEarned(p) ==
    ClosedNow(p) /\ IsOpen(p)' /\ restarts' = restarts
    => \E c \in Calls :
          /\ InSection(c, "record_failure") /\ call[c].provider = p
          /\ Cardinality({f \in log'[p] : f.at > Cutoff(call[c].at)})
                >= call[c].cfg.failure_threshold

\* A closed circuit opens only in a failure call that finds, with its own, at
\* least the threshold of failures in its window, all of them since the last
\* success or reset of that provider (circuit_breaker.rs:386).
OpensOnRecentFailures == [][\A p \in Providers : OpeningIsEarned(p)]_vars

ClosingIsEarned(p) ==
    ~ClosedNow(p) /\ ClosedNow(p)' /\ restarts' = restarts /\ ~ResetOf(p)
    => health[p].state = "HalfOpen" /\ streak'[p] >= HalfOpenRequired

\* An open circuit never closes directly, and a half-open one closes only after
\* HALF_OPEN_SUCCESS_REQUIRED successes with no failure between them, unless the
\* user resets it (types.rs:11: "consecutive successes are required").
ClosesOnlyAfterProbation == [][\A p \in Providers : ClosingIsEarned(p)]_vars

CooldownHolds(p) ==
    /\ health[p] # None /\ health[p].cooldown_until # None
    /\ now < health[p].cooldown_until
    /\ restarts' = restarts /\ ~ResetOf(p) /\ ~SuccessOf(p)
    => /\ health'[p] # None /\ health'[p].cooldown_until # None
       /\ health'[p].cooldown_until >= health[p].cooldown_until

\* A running cooldown is not shortened by a later, shorter one, nor dropped by a
\* gate check: it ends by the clock, a success, a reset or a restart
\* (circuit_breaker.rs:216, :485).
CooldownKept == [][\A p \in Providers : CooldownHolds(p)]_vars

\* While requests keep coming, an open circuit is left again: no provider is
\* excluded for good.
OpenCircuitIsLeft == \A p \in Providers : IsOpen(p) ~> ~IsOpen(p)

==============================================================================
