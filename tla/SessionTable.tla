--------------------------- MODULE SessionTable ---------------------------
(* The operations of SessionManager on its table of bindings, one lock each, *)
(* and the orderings of provider_order.rs. A binding sticks a session to a   *)
(* sort mode, an order of providers and, after a success, a provider. The    *)
(* table is the part of one CLI key. Session id extraction is left out: a    *)
(* request comes with its session, or with None.                             *)
(*                                                                           *)
(* crossed is history: the binding came from a request that was in flight    *)
(* while a command changed the routes. Only properties read it.              *)
EXTENDS Integers, FiniteSets, Sequences, SequencesExt, FiniteSetsExt

CONSTANTS
    Sessions, Providers,
    Modes,        \* the sort modes; None is the default route
    Ttl,          \* DEFAULT_SESSION_TTL_SECS
    MaxBindings,  \* MAX_BINDINGS
    None

ASSUME TableAssumption ==
    /\ Ttl \in Nat \ {0} /\ MaxBindings \in Nat \ {0} /\ IsFiniteSet(Sessions)
    /\ None \notin Sessions \cup Providers \cup Modes

Orders == {list \in Seq(Providers) : IsInjective(list)}  \* without repetition

Binding == [provider : Providers \cup {None}, mode : Modes \cup {None},
            order : Orders \cup {None}, expires : Nat, crossed : BOOLEAN]

Table == [Sessions -> Binding \cup {None}]
Empty == [s \in Sessions |-> None]

Bound(table) == {s \in Sessions : table[s] # None}
Live(table, s, at) == table[s] # None /\ table[s].expires > at

---------------------------------------------------------------------------
(* Reading a live binding slides its expiry; an expired one is removed.      *)

Touched(table, s, at) ==
    IF Live(table, s, at) THEN [table EXCEPT ![s].expires = at + Ttl]
                          ELSE [table EXCEPT ![s] = None]

DropExpired(table, at) ==
    [s \in Sessions |-> IF Live(table, s, at) THEN table[s] ELSE None]

\* sort_by_key is stable over a hash map's order: equal expiries go in any order.
Victims(table, V) ==
    \A v \in V, s \in Bound(table) \ V : table[v].expires <= table[s].expires

\* evict_oldest_quarter: what it can leave.
Evicted(table) ==
    LET count == Cardinality(Bound(table))
    IN  {[s \in Sessions |-> IF s \in V THEN None ELSE table[s]] :
            V \in {W \in kSubset(Max({count \div 4, 1}), Bound(table)) : Victims(table, W)}}

\* mutant: a full table is left full
Roomy_Full(table, at) == {table}

\* Both binds make room first, whether or not they will add a key.
Roomy(table, at) ==
    LET dropped == DropExpired(table, at)
    IN  IF Cardinality(Bound(table)) < MaxBindings THEN {table}
        ELSE IF Cardinality(Bound(dropped)) < MaxBindings THEN {dropped}
        ELSE Evicted(dropped)

Fresh(provider, mode, order, at, crossed) ==
    [provider |-> provider, mode |-> mode, order |-> order, expires |-> at + Ttl,
     crossed |-> crossed]

\* bind_sort_mode, once there is room: a live binding keeps its mode and its order.
ModeBound(table, s, mode, order, at, crossed) ==
    LET old == table[s] IN
    [table EXCEPT ![s] =
        IF Live(table, s, at)
        THEN [old EXCEPT !.expires = at + Ttl,
                         !.order = IF old.order = None THEN order ELSE old.order,
                         !.crossed = old.crossed \/ (old.order = None /\ crossed)]
        ELSE Fresh(None, mode, order, at, crossed)]

\* mutant: a success does not move the session
SuccessBound_KeepsProvider(table, s, provider, mode, at, crossed) ==
    [table EXCEPT ![s] =
        IF Live(table, s, at)
        THEN [@ EXCEPT !.provider = IF @ = None THEN provider ELSE @, !.expires = at + Ttl]
        ELSE Fresh(provider, mode, None, at, crossed)]

\* bind_success, once there is room.
SuccessBound(table, s, provider, mode, at, crossed) ==
    LET old == table[s] IN
    [table EXCEPT ![s] =
        IF Live(table, s, at)
        THEN [old EXCEPT !.provider = provider, !.expires = at + Ttl,
                         !.mode = IF old.mode = None THEN mode ELSE old.mode,
                         !.crossed = old.crossed \/ (old.mode = None /\ crossed)]
        ELSE Fresh(provider, mode, None, at, crossed)]

\* clear_bound_provider
ProviderCleared(table, s, at) ==
    IF Live(table, s, at) THEN [table EXCEPT ![s].provider = None]
                          ELSE [table EXCEPT ![s] = None]

---------------------------------------------------------------------------
(* Orders of providers.                                                      *)

\* The members of S, in the order of the list.
Kept(list, S) ==
    LET kept[i \in 0..Len(list)] ==
          IF i = 0 THEN <<>>
          ELSE IF list[i] \in S THEN Append(kept[i - 1], list[i]) ELSE kept[i - 1]
    IN  kept[Len(list)]

\* reorder_providers_by_bound_order: the recorded order first, then the newcomers.
Reordered(list, order) ==
    IF order = None THEN list
    ELSE Kept(order, Range(list)) \o Kept(list, Range(list) \ Range(order))

Without(list, p) == Kept(list, Range(list) \ {p})

IndexOf(list, p) == CHOOSE i \in 1..Len(list) : list[i] = p

\* Slice::rotate_left, so that p comes first.
RotatedTo(list, p) ==
    LET i == IndexOf(list, p) IN SubSeq(list, i, Len(list)) \o SubSeq(list, 1, i - 1)

\* The order, once round, from the place after p (from the start if p is not in it).
RoundFrom(order, p) ==
    LET i == IF p \in Range(order) THEN IndexOf(order, p) ELSE 0
    IN  SubSeq(order, i + 1, Len(order)) \o SubSeq(order, 1, i)

\* select_next_provider_id_from_order
NextFrom(order, p, available) ==
    LET hits == Kept(RoundFrom(order, p), available)
    IN  IF hits = <<>> THEN None ELSE Head(hits)

\* mutant: moves the provider to the front past the others, which keep their places
Preferred_Swaps(list, p, order) ==
    IF p \in Range(list) THEN <<p>> \o Without(list, p) ELSE list

\* apply_session_provider_preference
Preferred(list, p, order) ==
    IF p \in Range(list) THEN RotatedTo(list, p)
    ELSE IF order = None \/ Len(list) <= 1 THEN list
    ELSE LET next == NextFrom(order, p, Range(list))
         IN  IF next = None THEN list ELSE RotatedTo(list, next)
============================================================================
