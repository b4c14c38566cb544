-------------------------- MODULE SessionRouting --------------------------
(* How a request of one CLI gets its candidate providers and its answer:     *)
(* provider_selection.rs and middleware/provider_resolution.rs on the        *)
(* session table, the recent-error gate before failover, and what failover   *)
(* writes back; around it the commands that change the routes in the         *)
(* database and clear the running gateway's route state.                     *)
(*                                                                           *)
(* A step is one lock, one query or one await of the code. The failover loop *)
(* is one step here: it serves, fails, or finds every candidate gated. The   *)
(* circuit gate is the set denied, which flips at any time.                  *)
(*                                                                           *)
(* crossed, last, and the fields of an entry but expires, are history: they  *)
(* are read by properties only.                                              *)
EXTENDS SessionTable

CONSTANTS
    Requests,    \* slots for requests in flight
    Commands,    \* slots for commands
    Calls,       \* what clients ask: records of session, reuse and forced
    Gated,       \* the providers whose circuit refuses now and then
    RetryAfters, \* seconds until a provider is available again; 0: unknown
    Routes,      \* what a command can set: records of active and lists
    MaxTime, MaxEdits  \* bounds on the clock and on commands

VARIABLES
    now,
    active,    \* sort_mode_active: the mode of a session that has no binding
    lists,     \* the enabled providers of each mode, in order
    denied,    \* providers whose circuit refuses
    bindings,  \* SessionManager
    recent,    \* RecentErrorCache
    command,   \* where each command is
    edits,
    req,
    last       \* the provider that last served each session

vars == <<now, active, lists, denied, bindings, recent, command, edits, req, last>>

AllModes == Modes \cup {None}

ASSUME RoutingAssumption ==
    /\ Calls \subseteq [session : Sessions \cup {None}, reuse : BOOLEAN,
                        forced : Providers \cup {None}]
    /\ Gated \subseteq Providers /\ RetryAfters \subseteq Nat
    /\ Routes \subseteq [active : AllModes, lists : [AllModes -> Orders]]

\* The two keys of an unavailable answer: the request itself and its route.
RequestKey(s) == <<"request", s>>
RouteKey(m)   == <<"route", m>>
Keys == {RequestKey(s) : s \in Sessions \cup {None}} \cup {RouteKey(m) : m \in AllModes}

Entry == [expires : Nat, mode : AllModes, considered : SUBSET Providers,
          forced : Providers \cup {None}, crossed : BOOLEAN]

Idle == [pc |-> "idle", session |-> None, reuse |-> FALSE, forced |-> None, at |-> 0,
         mode |-> None, list |-> <<>>, order |-> None, bound |-> None,
         candidates |-> <<>>, crossed |-> FALSE, outcome |-> None, answer |-> None]

Outcomes == {"none", "cached", "served", "failed", "unavailable"}

Request ==
    [pc : {"idle", "mode", "active", "list", "bind", "order", "provider", "resolve",
           "check", "run", "insert", "done"},
     session : Sessions \cup {None}, reuse : BOOLEAN, forced : Providers \cup {None},
     at : Nat, mode : AllModes, list : Orders, order : Orders \cup {None},
     bound : Providers \cup {None}, candidates : Orders, crossed : BOOLEAN,
     outcome : Outcomes \cup {None}, answer : Entry \cup {None}]

UnderWay == \E c \in Commands : command[c] # "idle"

Init ==
    /\ now = 0
    /\ \E route \in Routes : active = route.active /\ lists = route.lists
    /\ denied = {}
    /\ bindings = Empty
    /\ recent = [k \in Keys |-> None]
    /\ command = [c \in Commands |-> "idle"]
    /\ edits = 0
    /\ req = [r \in Requests |-> Idle]
    /\ last = [s \in Sessions |-> None]

---------------------------------------------------------------------------
(* Selecting the list: select_providers_with_session_binding.                *)

\* The session is extracted before; count_tokens requests have none.
Start(r) ==
    /\ req[r].pc = "idle"
    /\ \E call \in Calls :
         req' = [req EXCEPT ![r] =
            [Idle EXCEPT !.pc = IF call.session = None THEN "active" ELSE "mode",
                         !.session = call.session, !.reuse = call.reuse,
                         !.forced = call.forced, !.at = now, !.crossed = UnderWay]]
    /\ UNCHANGED <<now, active, lists, denied, bindings, recent, command, edits, last>>

ReadMode(r) ==
    LET q == req[r] IN
    /\ q.pc = "mode"
    /\ bindings' = Touched(bindings, q.session, q.at)
    /\ req' = [req EXCEPT ![r] =
          IF Live(bindings, q.session, q.at)
          THEN [@ EXCEPT !.pc = "list", !.mode = bindings[q.session].mode,
                         !.crossed = q.crossed \/ bindings[q.session].crossed]
          ELSE [@ EXCEPT !.pc = "active"]]
    /\ UNCHANGED <<now, active, lists, denied, recent, command, edits, last>>

ReadActive(r) ==
    /\ req[r].pc = "active"
    /\ req' = [req EXCEPT ![r].pc = "list", ![r].mode = active]
    /\ UNCHANGED <<now, active, lists, denied, bindings, recent, command, edits, last>>

ReadList(r) ==
    LET q == req[r] IN
    /\ q.pc = "list"
    /\ req' = [req EXCEPT ![r].list = lists[q.mode], ![r].candidates = lists[q.mode],
                          ![r].pc = IF q.session = None THEN "provider" ELSE "bind"]
    /\ UNCHANGED <<now, active, lists, denied, bindings, recent, command, edits, last>>

BindMode(r) ==
    LET q == req[r] IN
    /\ q.pc = "bind"
    /\ \E table \in Roomy(bindings, q.at) :
         bindings' = ModeBound(table, q.session, q.mode, q.list, q.at, q.crossed)
    /\ req' = [req EXCEPT ![r].pc = "order"]
    /\ UNCHANGED <<now, active, lists, denied, recent, command, edits, last>>

ReadOrder(r) ==
    LET q == req[r]
        order == IF Live(bindings, q.session, q.at) THEN bindings[q.session].order ELSE None
    IN
    /\ q.pc = "order"
    /\ bindings' = Touched(bindings, q.session, q.at)
    /\ req' = [req EXCEPT ![r].pc = "provider", ![r].order = order,
                          ![r].candidates = Reordered(q.list, order)]
    /\ UNCHANGED <<now, active, lists, denied, recent, command, edits, last>>

---------------------------------------------------------------------------
(* Resolving the candidates: force_provider_if_requested, then               *)
(* resolve_session_bound_provider_id, then the guard on an empty list.       *)

Forced(list, p) ==
    IF p = None THEN list ELSE IF p \in Range(list) THEN <<p>> ELSE <<>>

\* The request with its candidates, past the guard.
Resolved(q, candidates) ==
    [q EXCEPT !.candidates = candidates,
              !.pc = IF candidates = <<>> THEN "done" ELSE "check",
              !.outcome = IF candidates = <<>> THEN "none" ELSE None]

WithPreference(q, candidates, p) ==
    Resolved(q, IF q.reuse /\ p # None THEN Preferred(candidates, p, q.order)
                                       ELSE candidates)

ReadProvider(r) ==
    LET q == req[r]
        left == Forced(q.candidates, q.forced)
        bound == IF q.session # None /\ Live(bindings, q.session, q.at)
                 THEN bindings[q.session].provider ELSE None
    IN
    /\ q.pc = "provider"
    /\ bindings' = IF q.session = None THEN bindings ELSE Touched(bindings, q.session, q.at)
    /\ req' = [req EXCEPT ![r] =
          IF q.reuse /\ q.forced = None /\ bound # None
          THEN [q EXCEPT !.pc = "resolve", !.bound = bound]
          ELSE WithPreference(q, left, bound)]
    /\ UNCHANGED <<now, active, lists, denied, recent, command, edits, last>>

ClearStale(r) ==
    LET q == req[r] IN
    /\ q.pc = "resolve" /\ q.bound \notin Range(q.candidates)
    /\ bindings' = ProviderCleared(bindings, q.session, q.at)
    /\ req' = [req EXCEPT ![r] = WithPreference(q, q.candidates, q.bound)]
    /\ UNCHANGED <<now, active, lists, denied, recent, command, edits, last>>

GateBound(r) ==
    LET q == req[r] IN
    /\ q.pc = "resolve" /\ q.bound \in Range(q.candidates)
    /\ req' = [req EXCEPT ![r] =
          IF q.bound \in denied THEN Resolved(q, Without(q.candidates, q.bound))
                                ELSE WithPreference(q, q.candidates, q.bound)]
    /\ UNCHANGED <<now, active, lists, denied, bindings, recent, command, edits, last>>

---------------------------------------------------------------------------
(* The recent-error gate, and what the failover loop's end does.             *)

Pruned(at) == [k \in Keys |-> IF recent[k] # None /\ recent[k].expires > at
                              THEN recent[k] ELSE None]

CheckCache(r) ==
    LET q == req[r]
        own == Pruned(now)[RequestKey(q.session)]
        hit == IF own # None THEN own ELSE Pruned(now)[RouteKey(q.mode)]
    IN
    /\ q.pc = "check"
    /\ recent' = Pruned(now)
    /\ req' = [req EXCEPT ![r] =
          IF hit = None THEN [@ EXCEPT !.pc = "run"]
          ELSE [@ EXCEPT !.pc = "done", !.outcome = "cached", !.answer = hit]]
    /\ UNCHANGED <<now, active, lists, denied, bindings, command, edits, last>>

\* A 2xx answer of a candidate, once it is read to its end.
Succeed(r) ==
    LET q == req[r] IN
    /\ q.pc = "run"
    /\ \E p \in Range(q.candidates) :
         IF q.session = None THEN UNCHANGED <<bindings, last>>
         ELSE /\ \E table \in Roomy(bindings, now) :
                   bindings' = SuccessBound(table, q.session, p, q.mode, now, q.crossed)
              /\ last' = [last EXCEPT ![q.session] = p]
    /\ req' = [req EXCEPT ![r].pc = "done", ![r].outcome = "served"]
    /\ UNCHANGED <<now, active, lists, denied, recent, command, edits>>

\* Every candidate fails, or the client goes away.
Fail(r) ==
    /\ req[r].pc = "run"
    /\ req' = [req EXCEPT ![r].pc = "done", ![r].outcome = "failed"]
    /\ UNCHANGED <<now, active, lists, denied, bindings, recent, command, edits, last>>

\* The candidates, and the bound provider that the gate took out before.
Considered(q) == Range(q.candidates) \cup ({q.bound} \ {None})

\* all_providers_unavailable reads the clock, then awaits the request's log...
Unavailable(r) ==
    LET q == req[r] IN
    /\ q.pc = "run" /\ Range(q.candidates) \subseteq denied
    /\ \E retry \in RetryAfters :
         req' = [req EXCEPT ![r] =
            IF retry = 0 THEN [@ EXCEPT !.pc = "done", !.outcome = "unavailable"]
            ELSE [@ EXCEPT !.pc = "insert", !.at = now,
                           !.answer = [expires |-> now + retry, mode |-> q.mode,
                                       considered |-> Considered(q), forced |-> q.forced,
                                       crossed |-> q.crossed]]]
    /\ UNCHANGED <<now, active, lists, denied, bindings, recent, command, edits, last>>

\* ... and then puts the answer under both keys, pruning by the clock it read before.
InsertError(r) ==
    LET q == req[r]
        answer == [q.answer EXCEPT !.crossed = q.crossed]
    IN
    /\ q.pc = "insert"
    /\ recent' = [Pruned(q.at) EXCEPT ![RequestKey(q.session)] = answer,
                                      ![RouteKey(q.mode)] = answer]
    /\ req' = [req EXCEPT ![r].pc = "done", ![r].outcome = "unavailable"]
    /\ UNCHANGED <<now, active, lists, denied, bindings, command, edits, last>>

\* A query fails, or the client goes away after the selection (which a worker thread
\* finishes whatever happens to the request) or while the log is awaited.
Abort(r) ==
    /\ req[r].pc \in {"active", "list", "provider", "insert"}
    /\ req' = [req EXCEPT ![r].pc = "done", ![r].outcome = "failed"]
    /\ UNCHANGED <<now, active, lists, denied, bindings, recent, command, edits, last>>

Leave(r) ==
    /\ req[r].pc = "done"
    /\ req' = [req EXCEPT ![r] = Idle]
    /\ UNCHANGED <<now, active, lists, denied, bindings, recent, command, edits, last>>

---------------------------------------------------------------------------
(* Commands: the database, then the sessions, then the recent errors. Each   *)
(* step leaves the requests in flight crossed.                               *)

Crossed == [r \in Requests |-> [req[r] EXCEPT !.crossed = req[r].pc # "idle"]]

Edit(c) ==
    /\ command[c] = "idle" /\ edits < MaxEdits
    /\ \E route \in Routes :
         /\ route # [active |-> active, lists |-> lists]
         /\ active' = route.active /\ lists' = route.lists
    /\ command' = [command EXCEPT ![c] = "sessions"]
    /\ edits' = edits + 1
    /\ req' = Crossed
    /\ UNCHANGED <<now, denied, bindings, recent, last>>

\* mutant: the sessions stay
SessionsCleared_None(table) == table

\* clear_cli_bindings
SessionsCleared(table) == Empty

ClearSessions(c) ==
    /\ command[c] = "sessions"
    /\ bindings' = SessionsCleared(bindings)
    /\ command' = [command EXCEPT ![c] = "errors"]
    /\ req' = Crossed
    /\ UNCHANGED <<now, active, lists, denied, recent, edits, last>>

\* mutant: only the sessions are cleared
ErrorsCleared_None(cache) == cache

\* RecentErrorCache::clear
ErrorsCleared(cache) == [k \in Keys |-> None]

ClearErrors(c) ==
    /\ command[c] = "errors"
    /\ recent' = ErrorsCleared(recent)
    /\ command' = [command EXCEPT ![c] = "idle"]
    /\ req' = Crossed
    /\ UNCHANGED <<now, active, lists, denied, bindings, edits, last>>

\* circuit_reset_provider: the circuit, then the recent errors.
ResetProvider(c) ==
    /\ command[c] = "idle" /\ edits < MaxEdits
    /\ \E p \in denied : denied' = denied \ {p}
    /\ command' = [command EXCEPT ![c] = "errors"]
    /\ edits' = edits + 1
    /\ req' = Crossed
    /\ UNCHANGED <<now, active, lists, bindings, recent, last>>

\* The session list of the console drops what expired.
ListActive ==
    /\ bindings' = DropExpired(bindings, now)
    /\ UNCHANGED <<now, active, lists, denied, recent, command, edits, req, last>>

---------------------------------------------------------------------------

Flip ==
    /\ \E p \in Gated :
         denied' = IF p \in denied THEN denied \ {p} ELSE denied \cup {p}
    /\ UNCHANGED <<now, active, lists, bindings, recent, command, edits, req, last>>

Tick ==
    /\ now < MaxTime
    /\ now' = now + 1
    /\ UNCHANGED <<active, lists, denied, bindings, recent, command, edits, req, last>>

Next ==
    \/ \E r \in Requests :
          \/ Start(r) \/ ReadMode(r) \/ ReadActive(r) \/ ReadList(r) \/ BindMode(r)
          \/ ReadOrder(r) \/ ReadProvider(r) \/ ClearStale(r) \/ GateBound(r)
          \/ CheckCache(r) \/ Succeed(r) \/ Fail(r) \/ Unavailable(r)
          \/ InsertError(r) \/ Abort(r) \/ Leave(r)
    \/ \E c \in Commands : Edit(c) \/ ClearSessions(c) \/ ClearErrors(c) \/ ResetProvider(c)
    \/ ListActive \/ Flip \/ Tick

Spec == Init /\ [][Next]_vars

---------------------------------------------------------------------------

\* Every variable keeps its type; the table never exceeds MAX_BINDINGS
\* (session_manager.rs:226 and 303).
TypeOK ==
    /\ now \in Nat /\ edits \in Nat
    /\ active \in AllModes /\ lists \in [AllModes -> Orders]
    /\ denied \subseteq Providers
    /\ bindings \in Table /\ Cardinality(Bound(bindings)) <= MaxBindings
    /\ recent \in [Keys -> Entry \cup {None}]
    /\ command \in [Commands -> {"idle", "sessions", "errors"}]
    /\ req \in [Requests -> Request]
    /\ last \in [Sessions -> Providers \cup {None}]

Ready(q) == q.pc \in {"check", "run", "insert"}

\* Whatever the session's binding became in between, the candidates of a request are
\* the providers of the list it read: all of them, or all but the bound one that its
\* circuit refused; a forced request has the forced provider alone. A bound provider
\* that left the list is never put back (provider_selection.rs:101-157). A session's
\* providers are tried in the cyclic order it started with, from whichever place:
\* preference rotates and never shuffles (provider_order.rs:5-68).
CandidatesInRouteOrder ==
    \A r \in Requests : LET q == req[r] IN Ready(q) =>
        /\ \/ q.forced = None /\ Range(q.candidates) = Range(q.list)
           \/ q.forced = None /\ q.bound # None /\ q.reuse
              /\ Range(q.candidates) = Range(q.list) \ {q.bound}
           \/ q.forced \in Range(q.list) /\ q.candidates = <<q.forced>>
        /\ q.forced = None =>
             LET kept == Kept(Reordered(q.list, q.order), Range(q.candidates))
             IN  q.candidates = RotatedTo(kept, Head(q.candidates))

\* A conversation stays with the provider that last served it, a retry or a failover
\* included: while its binding has a provider, that one is tried first unless it left
\* the list or its circuit refuses it, or the request forces another
\* (provider_selection.rs:101-157, session_manager.rs:283-331). For requests that follow
\* one another.
LastServerFirst ==
    \A r \in Requests : LET q == req[r] IN
        /\ q.pc = "check" /\ q.reuse /\ q.forced = None /\ q.session # None
        /\ bindings[q.session] # None /\ bindings[q.session].provider # None
        /\ last[q.session] \in Range(q.candidates)
        => Head(q.candidates) = last[q.session]

\* Once no command is under way, the live bindings follow the routes: the active mode,
\* and the order its list has now; but for those that a request which overlapped a
\* command wrote (runtime.rs:180-188, commands/sort_modes.rs:86-102).
RoutesFollowed ==
    ~UnderWay => \A s \in Sessions :
        Live(bindings, s, now) /\ ~bindings[s].crossed =>
            /\ bindings[s].mode = active
            /\ bindings[s].order \in {None, lists[active]}

\* The answer was found by a request that forced one provider, or that considered
\* every provider of the list.
Covers(answer, list) == answer.forced # None \/ Range(list) \subseteq answer.considered

\* A request that overlaps no command is answered from the recent errors only with an
\* answer of its own route, by a request that found every provider of this one's list
\* unavailable, as a candidate or at the gate of the bound provider. Two kinds of answer
\* are excepted: what a request that overlapped a command cached
\* (NextRequestReachesFailover), and what a forced request found of its one provider,
\* which the keys do not tell apart (request_fingerprint.rs:66-105, caches.rs:56-84).
CachedAnswerIsCurrent ==
    \A r \in Requests : LET q == req[r] IN
        q.pc = "done" /\ q.outcome = "cached" /\ ~q.crossed =>
            LET e == q.answer
            IN  e.crossed \/ (e.mode = q.mode /\ Covers(e, q.list))

---------------------------------------------------------------------------
(* What the gateway contract says and the code does not do.                  *)

\* "The next request reaches failover": after a command has enabled a provider, no
\* answer cached before stops a request (gateway-proxy-contract.md:140-141).
NextRequestReachesFailover ==
    \A r \in Requests : LET q == req[r] IN
        q.pc = "done" /\ q.outcome = "cached" /\ ~q.crossed =>
            Range(q.list) \subseteq q.answer.considered

===========================================================================
