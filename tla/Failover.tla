------------------------------ MODULE Failover ------------------------------
(* The failover loop of a request (handler/failover_loop): every candidate     *)
(* passes the circuit gate, the limits and its preparation, is called until    *)
(* its attempts are used up or an answer says to switch, and the loop ends     *)
(* with an answer of a provider or with one of its own. Requests meet in the   *)
(* health that CircuitHealth.tla describes.                                    *)
(*                                                                             *)
(* A step runs from one await to the next. What a stream ends with is one      *)
(* step; the session binding and the caches are in SessionRouting.tla, the     *)
(* database row of a circuit in CircuitPersist.tla. The configuration is       *)
(* fixed, so updated_at, which only a reload reads, is left at 0, and a health *)
(* that is not in the map is the closed one.                                   *)
(*                                                                             *)
(* called, opened, and cleared are history: they are read by properties only.  *)
EXTENDS CircuitHealth, Sequences, SequencesExt

CONSTANTS
    Providers, Requests,
    OAuth,         \* providers that log in with a token
    Bridged,       \* providers bridged to a source that does
    Lists,         \* the candidates a request can have, in order
    Kinds,         \* what kinds of requests there are
    Cfg,           \* the circuit breaker's configuration
    CooldownSecs,  \* provider_cooldown_secs
    MaxAttempts,   \* max_attempts_per_provider
    LimitResets,   \* seconds until a spent limit resets; 0: unknown
    MaxTime, MaxStarts  \* bounds on the clock and on requests

ASSUME BudgetAssumption ==
    /\ CooldownSecs \in Nat /\ MaxAttempts \in Nat
    /\ OAuth \subseteq Providers /\ Bridged \subseteq Providers \ OAuth
    /\ Cfg \in Config

VARIABLES now, health, req, starts, cleared

vars == <<now, health, req, starts, cleared>>

\* What an attempt of the request's record stands for.
GateMarks == {"circuit", "limit"}
Marks == GateMarks \cup {"skip", "failed"}

Repair == {"refresh", "previous", "bearer"}

\* count: count_tokens. neutral: provider_health_neutral. strict: model discovery.
\* places: max_providers_to_try, a setting that each request reads. A continuation
\* is taken out of Codex requests, the other header is tried for Claude only.
Kind == [count : BOOLEAN, neutral : BOOLEAN, strict : BOOLEAN,
         places : Nat, repairs : {{}, {"previous"}, {"bearer"}}]

\* The rows of a route are keyed by their provider.
ASSUME RequestAssumption ==
    /\ Lists \subseteq Seq(Providers) /\ \A list \in Lists : IsInjective(list)
    /\ Kinds \subseteq Kind /\ LimitResets \subseteq Nat

Answers == {"served", "rejected", "gone", "unavailable", "all_failed"}

ASSUME AnswerAssumption == None \notin Answers

Idle == [pc |-> "idle", kind |-> None, list |-> <<>>, rest |-> <<>>, tried |-> 0,
         retry |-> 0, used |-> {}, attempts |-> {}, coded |-> FALSE, earliest |-> None,
         answer |-> None, until |-> None, called |-> {}, opened |-> {}]

Request ==
    [pc : {"idle", "next", "prepare", "attempt", "wait", "cool", "stream", "done"},
     kind : Kind \cup {None}, list : Seq(Providers), rest : Seq(Providers), tried : Nat,
     retry : Nat, used : SUBSET Repair, attempts : SUBSET (Providers \X Marks),
     coded : BOOLEAN, earliest : MaybeTime,
     answer : Answers \cup {None}, until : MaybeTime,
     called : SUBSET Providers, opened : SUBSET Providers]

Max2(a, b) == IF a >= b THEN a ELSE b
Min2(a, b) == IF a # None /\ a <= b THEN a ELSE b

\* The health as it is kept here.
Kept(h) == [h EXCEPT !.updated_at = 0]

Init ==
    /\ now = FailureWindowSecs
    /\ health = [p \in Providers |-> ClosedHealth(0)]
    /\ req = [r \in Requests |-> Idle]
    /\ starts = 0
    /\ cleared = [r \in Requests |-> {}]

Set(r, q) == req' = [req EXCEPT ![r] = q]

Start(r) ==
    /\ req[r].pc = "idle" /\ starts < MaxStarts
    /\ \E list \in Lists, kind \in Kinds :
         Set(r, [Idle EXCEPT !.pc = "next", !.kind = kind, !.list = list, !.rest = list])
    /\ starts' = starts + 1
    /\ cleared' = [cleared EXCEPT ![r] = {}]
    /\ UNCHANGED <<now, health>>

Current(q) == Head(q.rest)

Advanced(q) == [q EXCEPT !.pc = "next", !.rest = Tail(@), !.retry = 0, !.used = {}, !.opened = {}]

\* The loop's own answer keeps the request's record, any other answer ends it.
Concluded(q, answer) == [q EXCEPT !.pc = "done", !.answer = answer]
Ended(answer) == [Idle EXCEPT !.pc = "done", !.answer = answer]
Marked(q, mark) == [q EXCEPT !.attempts = @ \cup {<<Current(q), mark>>}]

Exhausted(q) == q.rest = <<>> \/ q.tried >= Max2(q.kind.places, 1)

---------------------------------------------------------------------------
(* Preparing a candidate: prepare_provider.                                  *)

\* mutant: the latest of the times
Sooner_Later(earliest, at) == IF earliest = None THEN at ELSE Max2(earliest, at)

Sooner(earliest, at) == Min2(earliest, at)

\* A denied provider's cooldown_until, or else its open_until.
RecoverAt(h) == IF h.cooldown_until # None THEN h.cooldown_until ELSE h.open_until

Gate(r) ==
    LET q == req[r]
        p == Current(q)
        h == Checked(health[p], now)
    IN
    /\ q.pc = "next" /\ ~Exhausted(q)
    /\ health' = [health EXCEPT ![p] = Kept(h)]
    /\ Set(r, IF Allows(h, now) THEN [q EXCEPT !.pc = "prepare"]
              ELSE [Advanced(Marked(q, "circuit")) EXCEPT
                       !.earliest = Sooner(@, RecoverAt(h))])
    /\ UNCHANGED <<now, starts, cleared>>

\* The provider's spending or quota is used up.
Limited(r) ==
    LET q == req[r] IN
    /\ q.pc = "prepare"
    /\ \E reset \in LimitResets :
         Set(r, [Advanced(Marked(q, "limit")) EXCEPT
                    !.earliest = IF reset = 0 THEN @ ELSE Sooner(@, now + reset)])
    /\ UNCHANGED <<now, health, starts, cleared>>

\* mutant: whoever is skipped uses up a place
Skipped_Counts(q) == [Advanced(Marked(q, "skip")) EXCEPT !.tried = @ + 1]

Skipped(q) == Advanced(Marked(q, "skip"))

\* No credential, no base URL, no adapter, or a translation that fails.
Skip(r) ==
    /\ req[r].pc = "prepare"
    /\ Set(r, Skipped(req[r]))
    /\ UNCHANGED <<now, health, starts, cleared>>

Prepare(r) ==
    /\ req[r].pc = "prepare"
    /\ Set(r, [req[r] EXCEPT !.pc = "attempt", !.tried = @ + 1, !.retry = 1, !.used = {}])
    /\ UNCHANGED <<now, health, starts, cleared>>

\* max_attempts_per_provider of the request's settings
Configured(q) == IF q.kind.count \/ q.kind.strict THEN 1 ELSE Max2(MaxAttempts, 1)

One(b) == IF b THEN 1 ELSE 0

\* provider_max_attempts_for_request
Budget(q) ==
    IF q.kind.strict THEN Configured(q)
    ELSE Max2(Max2(Configured(q), Cfg.failure_threshold),
              1 + One(Current(q) \in OAuth) + One("previous" \in q.kind.repairs))

---------------------------------------------------------------------------
(* One attempt: execute_attempt and route_response.                          *)

\* mutant: one attempt too many
Again_OneMore(q) == [q EXCEPT !.pc = "attempt", !.retry = @ + 1]

\* The next attempt on the same provider, if one is left.
Again(q) == IF q.retry < Budget(q) THEN [q EXCEPT !.pc = "attempt", !.retry = @ + 1]
                                   ELSE Advanced(q)

Send(r) ==
    /\ req[r].pc = "attempt"
    /\ Set(r, [req[r] EXCEPT !.pc = "wait", !.called = @ \cup {Current(req[r])}])
    /\ UNCHANGED <<now, health, starts, cleared>>

\* The token cannot be put into a header.
AuthFails(r) ==
    LET q == req[r] IN
    /\ q.pc = "attempt" /\ Current(q) \in OAuth
    /\ Set(r, Advanced(Marked(q, "failed")))
    /\ UNCHANGED <<now, health, starts, cleared>>

\* A plugin refuses the request, or the answer.
Blocked(r) ==
    /\ req[r].pc \in {"attempt", "wait"}
    /\ Set(r, Ended("rejected"))
    /\ UNCHANGED <<now, health, starts, cleared>>

\* What is tried once per provider and leaves no attempt in the record.
Repairs(q) ==
    (IF Current(q) \in OAuth \cup Bridged THEN {"refresh"} ELSE {})
    \cup (q.kind.repairs \cap {"previous"})
    \cup (IF "bearer" \in q.kind.repairs /\ Current(q) \notin OAuth \cup Bridged
             /\ q.retry < Budget(q) THEN {"bearer"} ELSE {})

RepairAndRetry(r) ==
    LET q == req[r] IN
    /\ q.pc = "wait"
    /\ \E repair \in Repairs(q) \ q.used : Set(r, [Again(q) EXCEPT !.used = @ \cup {repair}])
    /\ UNCHANGED <<now, health, starts, cleared>>

\* How a call fails. at: before it is sent, on the way, by its status, in its body;
\* rectified: a 400 whose cause a thinking rectifier took out of the request.
\* records: the provider is to blame. cools: a cooldown follows unless it is retried.
Fault(at, decision, records, cools) ==
    [at |-> at, decision |-> decision, records |-> records, cools |-> cools]

Faults ==
    {Fault("way", "retry", TRUE, TRUE),        \* a timeout, a connection error
     Fault("body", "retry", TRUE, TRUE),       \* a read error
     Fault("body", "switch", TRUE, TRUE),      \* a body that is late or too large
     Fault("body", "switch", TRUE, FALSE),     \* a body that cannot be translated
     Fault("status", "retry", TRUE, TRUE),     \* 5xx, 408, 429
     Fault("status", "switch", TRUE, TRUE),    \* 401, 402, 403
     Fault("status", "abort", TRUE, TRUE),     \* a status that is no error
     Fault("status", "switch", FALSE, FALSE),  \* 404, a token's spent quota
     Fault("rectified", "retry", FALSE, FALSE),
     Fault("status", "abort", FALSE, FALSE)}   \* an error of the client

Unbuilt == Fault("before", "switch", TRUE, FALSE)  \* a URL that cannot be built

\* record_failure and trigger_cooldown of provider_router
Recorded(q, h) == IF q.kind.neutral THEN h ELSE Failed(h, now, Cfg)

Cooled(q, h) == IF q.kind.neutral \/ CooldownSecs = 0 THEN h
                ELSE CooledDown(h, now, CooldownSecs)

\* No attempt is left for a retry. What the body shows counts against the configured
\* attempts, anything else against the budget.
UsedUp(q, fault) ==
    /\ fault.decision = "retry"
    /\ q.retry >= IF fault.at \in {"body", "rectified"} THEN Configured(q) ELSE Budget(q)

\* mutant: an open circuit does not end the retries
Decided_IgnoresOpen(q, fault, opened) ==
    IF UsedUp(q, fault) THEN "switch" ELSE fault.decision

\* The decision: count_tokens gives up, the last attempt and an open circuit switch.
Decided(q, fault, opened) ==
    IF q.kind.count /\ fault.at \in {"way", "status", "rectified"} THEN "abort"
    ELSE IF opened \/ UsedUp(q, fault) THEN "switch"
    ELSE fault.decision

\* An aborted call ends the request with the provider's own answer, if there is one.
Resumed(q, fault, decision) ==
    CASE decision = "retry" -> Again(q)
      [] decision = "abort" /\ fault.at \in {"status", "rectified"} -> Ended("rejected")
      [] OTHER -> Advanced(q)

FailWith(r, fault) ==
    LET q == req[r]
        p == Current(q)
        blames == fault.records /\ ~q.kind.count
        h == IF blames THEN Recorded(q, health[p]) ELSE health[p]
        opened == blames /\ h.state = "Open"
        decision == Decided(q, fault, opened)
        cools == fault.cools /\ ~q.kind.count /\ decision # "retry"
        seen == [Marked(q, "failed") EXCEPT
                    !.coded = TRUE, !.opened = IF opened THEN @ \cup {p} ELSE @]
    IN
    /\ health' = [health EXCEPT ![p] =
                     Kept(IF cools /\ fault.at = "status" THEN Cooled(q, h) ELSE h)]
    /\ Set(r, IF cools /\ fault.at # "status" THEN [seen EXCEPT !.pc = "cool"]
              ELSE Resumed(seen, fault, decision))
    /\ UNCHANGED <<now, starts, cleared>>

UrlFails(r) == req[r].pc = "attempt" /\ FailWith(r, Unbuilt)

Fail(r) == req[r].pc = "wait" /\ \E fault \in Faults : FailWith(r, fault)

\* A system failure awaits its log before it reads the clock again.
CoolDown(r) ==
    LET q == req[r] IN
    /\ q.pc = "cool"
    /\ health' = [health EXCEPT ![Current(q)] = Kept(Cooled(q, @))]
    /\ Set(r, Advanced(q))
    /\ UNCHANGED <<now, starts, cleared>>

\* A 2xx whose body is an error: only a spent quota lets the next provider try.
Fake200(r) ==
    LET q == req[r]
        p == Current(q)
    IN
    /\ q.pc = "wait"
    /\ \/ /\ health' = [health EXCEPT ![p] = Kept(Recorded(q, @))]
          /\ Set(r, Ended("rejected"))
       \/ /\ health' = [health EXCEPT ![p] =
                           IF p \in OAuth THEN @ ELSE Kept(Cooled(q, Recorded(q, @)))]
          /\ Set(r, [Advanced(Marked(q, "failed")) EXCEPT !.coded = TRUE])
    /\ UNCHANGED <<now, starts, cleared>>

---------------------------------------------------------------------------
(* Success, and how a stream ends.                                           *)

Credit(q, p) ==
    IF q.kind.neutral THEN UNCHANGED <<health, cleared>>
    ELSE /\ health' = [health EXCEPT ![p] = Kept(Succeeded(@, now))]
         /\ cleared' = [r \in Requests |-> cleared[r] \cup {p}]

Succeed(r) ==
    LET q == req[r] IN
    /\ q.pc = "wait"
    /\ Credit(q, Current(q))
    /\ Set(r, Ended("served"))
    /\ UNCHANGED <<now, starts>>

StartStream(r) ==
    /\ req[r].pc = "wait"
    /\ Set(r, [req[r] EXCEPT !.pc = "stream"])
    /\ UNCHANGED <<now, health, starts, cleared>>

\* Complete, broken off, an error of the provider, or left by the client.
EndStream(r) ==
    LET q == req[r]
        p == Current(q)
    IN
    /\ q.pc = "stream"
    /\ \/ Credit(q, p)
       \/ /\ \E h \in {Cooled(q, health[p]), Recorded(q, Cooled(q, health[p]))} :
                health' = [health EXCEPT ![p] = Kept(h)]
          /\ UNCHANGED cleared
       \/ UNCHANGED <<health, cleared>>
    /\ Set(r, Ended("served"))
    /\ UNCHANGED <<now, starts>>

---------------------------------------------------------------------------
(* The end of the loop.                                                      *)

\* should_finalize_as_all_providers_unavailable
Unavailable(q) == \A a \in q.attempts : a[2] \in GateMarks

Finish(r) ==
    LET q == req[r] IN
    /\ q.pc = "next" /\ Exhausted(q)
    /\ Set(r, IF Unavailable(q)
              THEN [Concluded(q, "unavailable") EXCEPT
                       !.until = IF q.earliest # None /\ q.earliest > now
                                 THEN q.earliest ELSE None]
              ELSE Concluded(q, "all_failed"))
    /\ UNCHANGED <<now, health, starts, cleared>>

\* The client goes away while something is awaited.
ClientLeaves(r) ==
    /\ req[r].pc \in {"prepare", "attempt", "wait", "cool"}
    /\ Set(r, Ended("gone"))
    /\ UNCHANGED <<now, health, starts, cleared>>

Leave(r) ==
    /\ req[r].pc = "done"
    /\ Set(r, Idle)
    /\ UNCHANGED <<now, health, starts, cleared>>

Tick ==
    /\ now < FailureWindowSecs + MaxTime
    /\ now' = now + 1
    /\ UNCHANGED <<health, req, starts, cleared>>

Next ==
    \/ \E r \in Requests :
          \/ Start(r) \/ Gate(r) \/ Limited(r) \/ Skip(r) \/ Prepare(r)
          \/ Send(r) \/ UrlFails(r) \/ AuthFails(r) \/ Blocked(r) \/ RepairAndRetry(r)
          \/ Fail(r) \/ CoolDown(r) \/ Fake200(r) \/ Succeed(r) \/ StartStream(r)
          \/ EndStream(r) \/ Finish(r) \/ ClientLeaves(r) \/ Leave(r)
    \/ Tick

Spec == Init /\ [][Next]_vars

---------------------------------------------------------------------------

\* Every variable keeps its type; no request makes more attempts on a provider than its
\* budget (provider_iterator.rs:380-396).
TypeOK ==
    /\ now \in Nat /\ starts \in Nat
    /\ health \in [Providers -> Health]
    /\ req \in [Requests -> Request]
    /\ cleared \in [Requests -> SUBSET Providers]
    /\ \A r \in Requests :
         req[r].pc \in {"attempt", "wait"} => req[r].retry <= Budget(req[r])

\* A request that saw its own failure leave the circuit open does not call that
\* provider again, whatever attempts were left and whoever opened the circuit
\* (attempt_record.rs:196-212, upstream_error.rs:492-494).
NoCallAfterOpen ==
    \A r \in Requests : LET q == req[r] IN
        q.pc \in {"attempt", "wait"} => Current(q) \notin q.opened

\* The answer fits the calls. A request that called a provider is not told that none
\* was available: repairs that leave no attempt in the record cannot use up the whole
\* budget (provider_iterator.rs:380-396, loop_helpers.rs:97-99), but for model
\* discovery, whose attempts are exactly the configured ones, and the bridged
\* providers. And the loop gives up only after every candidate was tried or skipped, or
\* as many were tried as may be: a skip takes no other provider's place (mod.rs:206-237).
AnswerFitsCalls ==
    \A r \in Requests : LET q == req[r]
                            tried == q.called \cup {p \in Providers : <<p, "failed">> \in q.attempts}
                        IN
        /\ q.answer = "unavailable" /\ ~q.kind.strict => q.called \subseteq Bridged
        /\ q.answer \in {"unavailable", "all_failed"} =>
            \/ Range(q.list) = tried \cup {a[1] : a \in q.attempts}
            \/ Cardinality(tried) >= Max2(q.kind.places, 1)

\* Until the time that an unavailable answer names, which is also how long the recent
\* errors repeat it, no provider that was denied for its circuit is let through again;
\* but for those another request succeeded with (provider_router.rs:71-81,
\* response/finalize.rs:83-86).
RetryAfterNotLate ==
    \A r \in Requests : LET q == req[r] IN
        q.answer = "unavailable" /\ q.until # None =>
            \A p \in Providers \ cleared[r], t \in now .. q.until - 1 :
                <<p, "circuit">> \in q.attempts => ~Allows(Checked(health[p], t), t)

===========================================================================
