------------------------ MODULE SessionRouting_proofs ------------------------
(* What routing keeps for any sessions, providers, modes, requests and commands, *)
(* and for any table: bindings and cached answers of requests that overlapped no *)
(* command follow the routes that are in force; the table keeps its bound; the   *)
(* candidates are the list read from the database in the order that the session  *)
(* remembers; and a session goes back to the provider that served it last.       *)
EXTENDS SessionRouting, FiniteSetTheorems, SequenceTheorems, WellFoundedInduction, TLAPS

IsBinding(b) ==
    /\ b = [provider |-> b.provider, mode |-> b.mode, order |-> b.order,
            expires |-> b.expires, crossed |-> b.crossed]
    /\ b.crossed \in BOOLEAN

IsEntry(e) ==
    /\ e = [expires |-> e.expires, mode |-> e.mode, considered |-> e.considered,
            forced |-> e.forced, crossed |-> e.crossed]
    /\ e.crossed \in BOOLEAN

IsRequest(q) ==
    /\ q = [pc |-> q.pc, session |-> q.session, reuse |-> q.reuse, forced |-> q.forced,
            at |-> q.at, mode |-> q.mode, list |-> q.list, order |-> q.order,
            bound |-> q.bound, candidates |-> q.candidates, crossed |-> q.crossed,
            outcome |-> q.outcome, answer |-> q.answer]
    /\ q.crossed \in BOOLEAN /\ q.session \in Sessions \cup {None}
    /\ q.pc = "mode" => q.session # None
    /\ q.pc = "insert" => IsEntry(q.answer)

\* The fields each record has, without what is in the lists.
Shape ==
    /\ active \in AllModes
    /\ bindings = [s \in Sessions |-> bindings[s]]
    /\ \A s \in Sessions : bindings[s] # None => IsBinding(bindings[s])
    /\ recent = [k \in Keys |-> recent[k]]
    /\ \A k \in Keys : recent[k] # None => IsEntry(recent[k])
    /\ command = [c \in Commands |-> command[c]]
    /\ req = [r \in Requests |-> req[r]]
    /\ \A r \in Requests : IsRequest(req[r])

\* A request under way that is not crossed overlaps no command.
AloneNow ==
    \A r \in Requests : req[r].pc # "idle" /\ ~req[r].crossed => ~UnderWay

\* What such a request has read is in force.
OnRoute(q) ==
    /\ q.pc \in {"list", "bind", "order", "provider", "resolve", "check", "run", "insert"} =>
          q.mode = active
    /\ q.pc \in {"bind", "order", "provider", "resolve", "check", "run", "insert"} =>
          q.list = lists[active]
    /\ q.pc = "insert" => q.answer.mode = active /\ Covers(q.answer, lists[active])
    /\ q.pc = "done" /\ q.outcome = "cached" =>
          /\ q.mode = active /\ q.list = lists[active]
          /\ q.answer.crossed \/ (q.answer.mode = active /\ Covers(q.answer, lists[active]))
RequestsOnRoute ==
    \A r \in Requests : req[r].pc # "idle" /\ ~req[r].crossed => OnRoute(req[r])

\* While no command has still to clear the sessions, bindings follow the routes.
Clearing == \E c \in Commands : command[c] = "sessions"
Follows(b) == b.mode = active /\ b.order \in {None, lists[active]}
BindingsFollow ==
    Clearing \/ \A s \in Sessions :
        bindings[s] # None /\ ~bindings[s].crossed => Follows(bindings[s])

\* While no command is under way, the cached answers do too.
EntriesFollow ==
    UnderWay \/ \A k \in Keys :
        recent[k] # None /\ ~recent[k].crossed =>
            recent[k].mode = active /\ Covers(recent[k], lists[active])

\* The inductive invariant.
IInv == Shape /\ AloneNow /\ RequestsOnRoute /\ BindingsFollow /\ EntriesFollow

------------------------------------------------------------------------------
LEMMA ClearingUnderWay == Clearing => UnderWay
  BY DEF Clearing, UnderWay

\* Making room takes bindings away and changes none.
LEMMA RoomyKeeps ==
    ASSUME NEW t, t = [s \in Sessions |-> t[s]], NEW at, NEW u \in Roomy(t, at)
    PROVE  /\ u = [s \in Sessions |-> u[s]]
           /\ \A s \in Sessions : u[s] \in {t[s], None}
  <1> DEFINE d == DropExpired(t, at)
  <1>1. d = [s \in Sessions |-> d[s]] /\ \A s \in Sessions : d[s] \in {t[s], None}
    BY DEF DropExpired
  <1>2. CASE u = t BY <1>2
  <1>3. CASE u = d BY <1>1, <1>3
  <1>4. CASE u \in Evicted(d)
    <2>1. PICK V \in SUBSET Bound(d) : u = [s \in Sessions |-> IF s \in V THEN None ELSE d[s]]
      BY <1>4 DEF Evicted, kSubset
    <2> QED BY <1>1, <2>1
  <1> QED BY <1>2, <1>3, <1>4 DEF Roomy

\* A step of one request that changes neither routes, commands, bindings nor cache.
LEMMA OwnStep ==
    ASSUME IInv, NEW r \in Requests, NEW q,
           req' = [req EXCEPT ![r] = q], IsRequest(q),
           q.pc # "idle" /\ ~q.crossed => ~UnderWay /\ OnRoute(q),
           UNCHANGED <<active, lists, command>>
    PROVE  AloneNow' /\ RequestsOnRoute' /\ UnderWay' = UnderWay /\ Clearing' = Clearing
           /\ req' = [s \in Requests |-> req'[s]] /\ \A s \in Requests : IsRequest(req'[s])
  <1>1. UnderWay' = UnderWay /\ Clearing' = Clearing BY DEF UnderWay, Clearing
  <1>2. \A s \in Requests : req'[s] = IF s = r THEN q ELSE req[s] BY DEF IInv, Shape
  <1>3. req' = [s \in Requests |-> req'[s]] BY DEF IInv, Shape
  <1>4. \A s \in Requests : IsRequest(req'[s]) BY <1>2 DEF IInv, Shape
  <1>5. AloneNow' BY <1>1, <1>2 DEF IInv, AloneNow
  <1>6. RequestsOnRoute' BY <1>2 DEF IInv, RequestsOnRoute, OnRoute
  <1> QED BY <1>1, <1>3, <1>4, <1>5, <1>6

\* What a changed table, and a changed cache, must be.
Bindings_OK ==
    /\ bindings' = [s \in Sessions |-> bindings'[s]]
    /\ \A s \in Sessions : bindings'[s] # None =>
          \/ bindings'[s] = bindings[s]
          \/ /\ IsBinding(bindings'[s])
             /\ ~Clearing /\ ~bindings'[s].crossed => Follows(bindings'[s])

Recent_OK ==
    /\ recent' = [k \in Keys |-> recent'[k]]
    /\ \A k \in Keys : recent'[k] # None =>
          \/ recent'[k] = recent[k]
          \/ /\ IsEntry(recent'[k])
             /\ ~UnderWay /\ ~recent'[k].crossed =>
                   recent'[k].mode = active /\ Covers(recent'[k], lists[active])

LEMMA RequestStep ==
    ASSUME IInv, NEW r \in Requests, NEW q,
           req' = [req EXCEPT ![r] = q], IsRequest(q),
           q.pc # "idle" /\ ~q.crossed => ~UnderWay /\ OnRoute(q),
           UNCHANGED <<active, lists, command>>, Bindings_OK, Recent_OK
    PROVE  IInv'
  <1>1. AloneNow' /\ RequestsOnRoute' /\ UnderWay' = UnderWay /\ Clearing' = Clearing
    BY OwnStep
  <1>2. req' = [s \in Requests |-> req'[s]] /\ \A s \in Requests : IsRequest(req'[s])
    BY OwnStep
  <1>3. Shape'
    <2>1. \A s \in Sessions : bindings'[s] # None => IsBinding(bindings'[s])
      BY DEF IInv, Shape, Bindings_OK
    <2>2. \A k \in Keys : recent'[k] # None => IsEntry(recent'[k])
      BY DEF IInv, Shape, Recent_OK
    <2>3. active' \in AllModes /\ command' = [c \in Commands |-> command'[c]]
      BY DEF IInv, Shape
    <2> QED BY <1>2, <2>1, <2>2, <2>3 DEF Shape, Bindings_OK, Recent_OK
  <1>4. BindingsFollow' BY <1>1 DEF IInv, BindingsFollow, Bindings_OK, Follows
  <1>5. EntriesFollow' BY <1>1 DEF IInv, EntriesFollow, Recent_OK
  <1> QED BY <1>1, <1>3, <1>4, <1>5 DEF IInv

LEMMA SameBindings == IInv /\ UNCHANGED bindings => Bindings_OK
  BY DEF IInv, Shape, Bindings_OK

LEMMA SameRecent == IInv /\ UNCHANGED recent => Recent_OK
  BY DEF IInv, Shape, Recent_OK

LEMMA TouchedKeeps ==
    ASSUME IInv, NEW s, NEW at, bindings' = Touched(bindings, s, at)
    PROVE  Bindings_OK
  <1>1. bindings = [t \in Sessions |-> bindings[t]] BY DEF IInv, Shape
  <1>2. bindings' = [t \in Sessions |-> bindings'[t]] BY <1>1 DEF Touched
  <1>3. ASSUME NEW t \in Sessions, bindings'[t] # None
        PROVE  \/ bindings'[t] = bindings[t]
               \/ /\ IsBinding(bindings'[t])
                  /\ ~Clearing /\ ~bindings'[t].crossed => Follows(bindings'[t])
    <2>1. CASE t # s \/ ~Live(bindings, s, at) BY <1>1, <1>3, <2>1 DEF Touched
    <2>2. CASE t = s /\ Live(bindings, s, at)
      <3>0. bindings' = [bindings EXCEPT ![s] = [bindings[s] EXCEPT !.expires = at + Ttl]]
        BY <2>2 DEF Touched
      <3>1. bindings'[t] = [bindings[t] EXCEPT !.expires = at + Ttl] /\ bindings[t] # None
        BY <1>1, <2>2, <3>0 DEF Live
      <3>2. IsBinding(bindings[t]) BY <3>1 DEF IInv, Shape
      <3>3. /\ IsBinding(bindings'[t]) /\ bindings'[t].crossed = bindings[t].crossed
            /\ bindings'[t].mode = bindings[t].mode /\ bindings'[t].order = bindings[t].order
        BY <3>1, <3>2 DEF IsBinding
      <3> QED BY <3>1, <3>3 DEF IInv, BindingsFollow, Follows
    <2> QED BY <2>1, <2>2
  <1> QED BY <1>2, <1>3 DEF Bindings_OK

LEMMA StartStep ==
    ASSUME IInv, NEW r \in Requests, Start(r)
    PROVE  IInv'
  <1>1. PICK call \in Calls :
         req' = [req EXCEPT ![r] =
            [Idle EXCEPT !.pc = IF call.session = None THEN "active" ELSE "mode",
                         !.session = call.session, !.reuse = call.reuse,
                         !.forced = call.forced, !.at = now, !.crossed = UnderWay]]
    BY DEF Start
  <1>2. PICK pc : pc = IF call.session = None THEN "active" ELSE "mode" OBVIOUS
  <1>3. PICK q : q = [Idle EXCEPT !.pc = pc, !.session = call.session, !.reuse = call.reuse,
                         !.forced = call.forced, !.at = now, !.crossed = UnderWay]
    OBVIOUS
  <1>4. call.session \in Sessions \cup {None} /\ UnderWay \in BOOLEAN
    BY RoutingAssumption DEF UnderWay
  <1>5. pc \in {"active", "mode"} BY <1>2
  <1>6. q.crossed = UnderWay /\ q.session = call.session /\ q.pc = pc BY <1>3 DEF Idle
  <1>7. q = [pc |-> pc, session |-> call.session, reuse |-> call.reuse,
             forced |-> call.forced, at |-> now, mode |-> None, list |-> <<>>,
             order |-> None, bound |-> None, candidates |-> <<>>, crossed |-> UnderWay,
             outcome |-> None, answer |-> None]
    BY <1>3 DEF Idle
  <1>8. IsRequest(q) BY <1>2, <1>4, <1>5, <1>7 DEF IsRequest
  <1>9. OnRoute(q) BY <1>5, <1>6 DEF OnRoute
  <1>10. Bindings_OK /\ Recent_OK BY SameBindings, SameRecent DEF Start
  <1>11. UNCHANGED <<active, lists, command>> BY DEF Start
  <1>12. req' = [req EXCEPT ![r] = q] BY <1>1, <1>2, <1>3
  <1> QED BY <1>4, <1>6, <1>8, <1>9, <1>10, <1>11, <1>12, RequestStep

\* A step that only moves the request on.
LEMMA MovedOn ==
    ASSUME IInv, NEW r \in Requests, NEW q,
           req' = [req EXCEPT ![r] = q], IsRequest(q),
           q.pc # "idle" /\ ~q.crossed => ~UnderWay /\ OnRoute(q),
           UNCHANGED <<active, lists, command, bindings, recent>>
    PROVE  IInv'
  <1>1. Bindings_OK /\ Recent_OK BY SameBindings, SameRecent
  <1> QED BY <1>1, RequestStep

\* What is known of a request under way.
LEMMA Known ==
    ASSUME IInv, NEW r \in Requests, req[r].pc # "idle"
    PROVE  /\ IsRequest(req[r])
           /\ ~req[r].crossed => ~UnderWay /\ ~Clearing /\ OnRoute(req[r])
  BY ClearingUnderWay DEF IInv, Shape, AloneNow, RequestsOnRoute

LEMMA ReadModeStep ==
    ASSUME IInv, NEW r \in Requests, ReadMode(r)
    PROVE  IInv'
  <1> DEFINE s == req[r].session
  <1>1. req[r].pc = "mode" /\ UNCHANGED <<active, lists, command, recent>> BY DEF ReadMode
  <1>2. /\ IsRequest(req[r])
        /\ ~req[r].crossed => ~UnderWay /\ ~Clearing
    BY <1>1, Known
  <1>3. Bindings_OK /\ Recent_OK BY <1>1, TouchedKeeps, SameRecent DEF ReadMode
  <1>4. CASE ~Live(bindings, s, req[r].at)
    <2>1. PICK q : q = [req[r] EXCEPT !.pc = "active"] OBVIOUS
    <2>2. req' = [req EXCEPT ![r] = q] BY <1>4, <2>1 DEF ReadMode
    <2>3. IsRequest(q) /\ q.pc = "active" /\ q.crossed = req[r].crossed
      BY <1>2, <2>1 DEF IsRequest
    <2>4. OnRoute(q) BY <2>3 DEF OnRoute
    <2> QED BY <1>1, <1>2, <1>3, <2>2, <2>3, <2>4, RequestStep
  <1>5. CASE Live(bindings, s, req[r].at)
    <2>1. PICK q : q = [req[r] EXCEPT !.pc = "list", !.mode = bindings[s].mode,
                             !.crossed = req[r].crossed \/ bindings[s].crossed]
      OBVIOUS
    <2>2. req' = [req EXCEPT ![r] = q] BY <1>5, <2>1 DEF ReadMode
    <2>3. s \in Sessions /\ bindings[s] # None
      <3>1. s \in Sessions \cup {None} BY <1>2 DEF IsRequest
      <3>2. bindings[s] # None BY <1>5 DEF Live
      <3>3. s # None BY <1>1, <1>2 DEF IsRequest
      <3> QED BY <3>1, <3>2, <3>3
    <2>4. bindings[s].crossed \in BOOLEAN BY <2>3 DEF IInv, Shape, IsBinding
    <2>5. /\ IsRequest(q) /\ q.pc = "list" /\ q.mode = bindings[s].mode
          /\ q.crossed = (req[r].crossed \/ bindings[s].crossed)
      BY <1>2, <2>1, <2>4 DEF IsRequest
    <2>6. ~q.crossed => q.mode = active
      BY <1>2, <2>3, <2>5 DEF IInv, BindingsFollow, Follows
    <2>7. ~q.crossed => OnRoute(q) BY <2>5, <2>6 DEF OnRoute
    <2> QED BY <1>1, <1>2, <1>3, <2>2, <2>5, <2>7, RequestStep
  <1> QED BY <1>4, <1>5

LEMMA ReadActiveStep ==
    ASSUME IInv, NEW r \in Requests, ReadActive(r)
    PROVE  IInv'
  <1>1. PICK q : q = [req[r] EXCEPT !.pc = "list", !.mode = active] OBVIOUS
  <1>2. /\ req[r].pc = "active" /\ req' = [req EXCEPT ![r] = q]
        /\ UNCHANGED <<active, lists, command, bindings, recent>>
    BY <1>1 DEF ReadActive
  <1>3. IsRequest(req[r]) /\ (~req[r].crossed => ~UnderWay) BY <1>2, Known
  <1>4. IsRequest(q) /\ q.pc = "list" /\ q.mode = active /\ q.crossed = req[r].crossed
    BY <1>1, <1>3 DEF IsRequest
  <1>5. OnRoute(q) BY <1>4 DEF OnRoute
  <1> QED BY <1>2, <1>3, <1>4, <1>5, MovedOn

LEMMA ReadListStep ==
    ASSUME IInv, NEW r \in Requests, ReadList(r)
    PROVE  IInv'
  <1> DEFINE list == lists[req[r].mode]
  <1>1. PICK pc : pc = IF req[r].session = None THEN "provider" ELSE "bind" OBVIOUS
  <1>2. PICK q : q = [req[r] EXCEPT !.list = list, !.candidates = list, !.pc = pc] OBVIOUS
  <1>3. /\ req[r].pc = "list" /\ req' = [req EXCEPT ![r] = q]
        /\ UNCHANGED <<active, lists, command, bindings, recent>>
    BY <1>1, <1>2 DEF ReadList
  <1>4. /\ IsRequest(req[r])
        /\ ~req[r].crossed => ~UnderWay /\ req[r].mode = active
    BY <1>3, Known DEF OnRoute
  <1>5. pc # "insert" /\ pc # "mode" BY <1>1
  <1>6. IsRequest(q) BY <1>2, <1>4, <1>5 DEF IsRequest
  <1>7. /\ q.pc \in {"provider", "bind"} /\ q.mode = req[r].mode
        /\ q.list = list /\ q.crossed = req[r].crossed
    BY <1>1, <1>2, <1>4 DEF IsRequest
  <1>8. ~q.crossed => OnRoute(q) BY <1>4, <1>7 DEF OnRoute
  <1> QED BY <1>3, <1>4, <1>6, <1>7, <1>8, MovedOn

\* A binding of a step is the old one with some fields changed, or a new one.
LEMMA BoundKeeps ==
    ASSUME IInv, NEW r \in Requests, NEW at,
           NEW table \in Roomy(bindings, at), NEW b,
           req[r].pc # "idle",
           bindings' = [table EXCEPT ![req[r].session] = b],
           req[r].session \in Sessions =>
              /\ IsBinding(b)
              /\ ~Clearing /\ ~b.crossed => Follows(b)
    PROVE  Bindings_OK
  <1> DEFINE s == req[r].session
  <1>1. table = [t \in Sessions |-> table[t]] /\ \A t \in Sessions : table[t] \in {bindings[t], None}
    BY RoomyKeeps DEF IInv, Shape
  <1>2. bindings' = [t \in Sessions |-> bindings'[t]] BY <1>1
  <1>3. \A t \in Sessions : bindings'[t] = IF t = s THEN b ELSE table[t] BY <1>1
  <1> QED BY <1>1, <1>2, <1>3 DEF Bindings_OK

\* What a table with room says of a session.
LEMMA RoomyKnown ==
    ASSUME IInv, NEW s \in Sessions, NEW at, NEW table \in Roomy(bindings, at),
           table[s] # None
    PROVE  /\ IsBinding(table[s])
           /\ ~Clearing /\ ~table[s].crossed => Follows(table[s])
  <1>1. table[s] = bindings[s] BY RoomyKeeps DEF IInv, Shape
  <1> QED BY <1>1 DEF IInv, Shape, BindingsFollow

LEMMA FreshBinding ==
    ASSUME NEW p, NEW mode, NEW order, NEW at, NEW crossed \in BOOLEAN
    PROVE  LET b == Fresh(p, mode, order, at, crossed) IN
           IsBinding(b) /\ b.mode = mode /\ b.order = order /\ b.crossed = crossed
  BY DEF Fresh, IsBinding

LEMMA BindModeStep ==
    ASSUME IInv, NEW r \in Requests, BindMode(r)
    PROVE  IInv'
  <1> DEFINE s == req[r].session
             at == req[r].at
  <1>1. PICK q : q = [req[r] EXCEPT !.pc = "order"] OBVIOUS
  <1>2. /\ req[r].pc = "bind" /\ req' = [req EXCEPT ![r] = q]
        /\ UNCHANGED <<active, lists, command, recent>>
    BY <1>1 DEF BindMode
  <1>3. PICK table \in Roomy(bindings, at) :
            bindings' = ModeBound(table, s, req[r].mode, req[r].list, at, req[r].crossed)
    BY DEF BindMode
  <1>4. /\ IsRequest(req[r])
        /\ ~req[r].crossed => /\ ~UnderWay
                              /\ req[r].mode = active /\ req[r].list = lists[active]
    BY <1>2, Known DEF OnRoute
  <1>5. /\ IsRequest(q) /\ q.pc = "order" /\ q.mode = req[r].mode /\ q.list = req[r].list
        /\ q.crossed = req[r].crossed
    BY <1>1, <1>4 DEF IsRequest
  <1>6. ~q.crossed => OnRoute(q) BY <1>4, <1>5 DEF OnRoute
  <1>7. Bindings_OK
    <2>1. CASE Live(table, s, at)
      <3>1. PICK b : b = [table[s] EXCEPT !.expires = at + Ttl,
                             !.order = IF table[s].order = None THEN req[r].list
                                       ELSE table[s].order,
                             !.crossed = table[s].crossed
                                         \/ (table[s].order = None /\ req[r].crossed)]
        OBVIOUS
      <3>2. bindings' = [table EXCEPT ![s] = b] BY <1>3, <2>1, <3>1 DEF ModeBound
      <3>3. ASSUME s \in Sessions
            PROVE  IsBinding(b) /\ (~Clearing /\ ~b.crossed => Follows(b))
        <4>1. /\ IsBinding(table[s])
              /\ ~Clearing /\ ~table[s].crossed => Follows(table[s])
          BY <2>1, <3>3, RoomyKnown DEF Live
        <4>2. req[r].crossed \in BOOLEAN BY <1>4 DEF IsRequest
        <4>3. /\ IsBinding(b) /\ b.mode = table[s].mode
              /\ b.order = (IF table[s].order = None THEN req[r].list ELSE table[s].order)
              /\ b.crossed = (table[s].crossed \/ (table[s].order = None /\ req[r].crossed))
          BY <3>1, <4>1, <4>2 DEF IsBinding
        <4> QED BY <1>4, <4>1, <4>3 DEF Follows
      <3> QED BY <1>2, <3>2, <3>3, BoundKeeps
    <2>2. CASE ~Live(table, s, at)
      <3>1. PICK b : b = Fresh(None, req[r].mode, req[r].list, at, req[r].crossed) OBVIOUS
      <3>2. bindings' = [table EXCEPT ![s] = b] BY <1>3, <2>2, <3>1 DEF ModeBound
      <3>3. req[r].crossed \in BOOLEAN BY <1>4 DEF IsRequest
      <3>4. /\ IsBinding(b) /\ b.mode = req[r].mode /\ b.order = req[r].list
            /\ b.crossed = req[r].crossed
        BY <3>1, <3>3, FreshBinding
      <3>5. ~b.crossed => Follows(b) BY <1>4, <3>4 DEF Follows
      <3> QED BY <1>2, <3>2, <3>4, <3>5, BoundKeeps
    <2> QED BY <2>1, <2>2
  <1>8. Recent_OK BY <1>2, SameRecent
  <1> QED BY <1>2, <1>4, <1>5, <1>6, <1>7, <1>8, RequestStep

LEMMA ReadOrderStep ==
    ASSUME IInv, NEW r \in Requests, ReadOrder(r)
    PROVE  IInv'
  <1>1. PICK order, candidates :
            req' = [req EXCEPT ![r].pc = "provider", ![r].order = order,
                               ![r].candidates = candidates]
    BY DEF ReadOrder
  <1>2. PICK q : q = [req[r] EXCEPT !.pc = "provider", !.order = order,
                                    !.candidates = candidates]
    OBVIOUS
  <1>3. /\ req[r].pc = "order" /\ req' = [req EXCEPT ![r] = q]
        /\ UNCHANGED <<active, lists, command, recent>>
    BY <1>1, <1>2 DEF ReadOrder
  <1>4. /\ IsRequest(req[r])
        /\ ~req[r].crossed => /\ ~UnderWay
                              /\ req[r].mode = active /\ req[r].list = lists[active]
    BY <1>3, Known DEF OnRoute
  <1>5. /\ IsRequest(q) /\ q.pc = "provider" /\ q.mode = req[r].mode
        /\ q.list = req[r].list /\ q.crossed = req[r].crossed
    BY <1>2, <1>4 DEF IsRequest
  <1>6. ~q.crossed => OnRoute(q) BY <1>4, <1>5 DEF OnRoute
  <1>7. Bindings_OK /\ Recent_OK BY <1>3, TouchedKeeps, SameRecent DEF ReadOrder
  <1> QED BY <1>3, <1>4, <1>5, <1>6, <1>7, RequestStep

\* Past the provider's reading a request's list and mode stay as they are.
LEMMA ResolvedKnown ==
    ASSUME IInv, NEW r \in Requests, NEW q0, NEW candidates,
           IsRequest(q0), q0.mode = req[r].mode, q0.list = req[r].list,
           q0.crossed = req[r].crossed,
           req[r].pc \in {"provider", "resolve"}
    PROVE  LET q == Resolved(q0, candidates) IN
           /\ IsRequest(q)
           /\ q.crossed = req[r].crossed
           /\ ~q.crossed => ~UnderWay /\ OnRoute(q)
  <1>1. PICK pc, outcome :
            /\ pc \in {"done", "check"} /\ outcome \in {"none", None}
            /\ (pc = "done") => outcome = "none"
            /\ Resolved(q0, candidates) = [q0 EXCEPT !.candidates = candidates, !.pc = pc,
                                                     !.outcome = outcome]
    BY DEF Resolved
  <1>2. PICK q : q = [q0 EXCEPT !.candidates = candidates, !.pc = pc, !.outcome = outcome]
    OBVIOUS
  <1>3. /\ IsRequest(req[r])
        /\ ~req[r].crossed => /\ ~UnderWay
                              /\ req[r].mode = active /\ req[r].list = lists[active]
    BY Known DEF OnRoute
  <1>4. pc # "insert" /\ pc # "mode" BY <1>1
  <1>5. IsRequest(q) BY <1>2, <1>4 DEF IsRequest
  <1>6. /\ q.pc = pc /\ q.outcome = outcome /\ q.mode = req[r].mode /\ q.list = req[r].list
        /\ q.crossed = req[r].crossed
    BY <1>2 DEF IsRequest
  <1>7. ~q.crossed => OnRoute(q) BY <1>1, <1>3, <1>6 DEF OnRoute
  <1> QED BY <1>1, <1>2, <1>3, <1>5, <1>6, <1>7

LEMMA ReadProviderStep ==
    ASSUME IInv, NEW r \in Requests, ReadProvider(r)
    PROVE  IInv'
  <1>1. req[r].pc = "provider" /\ UNCHANGED <<active, lists, command, recent>>
    BY DEF ReadProvider
  <1>2. /\ IsRequest(req[r])
        /\ ~req[r].crossed => /\ ~UnderWay
                              /\ req[r].mode = active /\ req[r].list = lists[active]
    BY <1>1, Known DEF OnRoute
  <1>3. Bindings_OK /\ Recent_OK
    BY <1>1, TouchedKeeps, SameBindings, SameRecent DEF ReadProvider
  <1>4. \/ \E bound : req' = [req EXCEPT ![r] = [req[r] EXCEPT !.pc = "resolve",
                                                              !.bound = bound]]
        \/ \E candidates : req' = [req EXCEPT ![r] = Resolved(req[r], candidates)]
    BY DEF ReadProvider, WithPreference
  <1>5. ASSUME NEW bound,
               req' = [req EXCEPT ![r] = [req[r] EXCEPT !.pc = "resolve", !.bound = bound]]
        PROVE  IInv'
    <2>1. PICK q : q = [req[r] EXCEPT !.pc = "resolve", !.bound = bound] OBVIOUS
    <2>2. /\ IsRequest(q) /\ q.pc = "resolve" /\ q.mode = req[r].mode
          /\ q.list = req[r].list /\ q.crossed = req[r].crossed
      BY <1>2, <2>1 DEF IsRequest
    <2>3. ~q.crossed => OnRoute(q) BY <1>2, <2>2 DEF OnRoute
    <2> QED BY <1>1, <1>2, <1>3, <1>5, <2>1, <2>2, <2>3, RequestStep
  <1>6. ASSUME NEW candidates, req' = [req EXCEPT ![r] = Resolved(req[r], candidates)]
        PROVE  IInv'
    <2>1. PICK q : q = Resolved(req[r], candidates) OBVIOUS
    <2>2. IsRequest(q) /\ (~q.crossed => ~UnderWay /\ OnRoute(q))
      BY <1>1, <1>2, <2>1, ResolvedKnown
    <2> QED BY <1>1, <1>3, <1>6, <2>1, <2>2, RequestStep
  <1> QED BY <1>4, <1>5, <1>6

LEMMA ClearStaleStep ==
    ASSUME IInv, NEW r \in Requests, ClearStale(r)
    PROVE  IInv'
  <1> DEFINE s == req[r].session
             at == req[r].at
  <1>1. req[r].pc = "resolve" /\ UNCHANGED <<active, lists, command, recent>>
    BY DEF ClearStale
  <1>2. PICK candidates : req' = [req EXCEPT ![r] = Resolved(req[r], candidates)]
    BY DEF ClearStale, WithPreference
  <1>3. PICK q : q = Resolved(req[r], candidates) OBVIOUS
  <1>4. IsRequest(req[r]) BY <1>1, Known
  <1>5. IsRequest(q) /\ (~q.crossed => ~UnderWay /\ OnRoute(q))
    BY <1>1, <1>3, <1>4, ResolvedKnown
  <1>6. Bindings_OK
    <2>1. bindings' = ProviderCleared(bindings, s, at) BY DEF ClearStale
    <2>2. bindings = [t \in Sessions |-> bindings[t]] BY DEF IInv, Shape
    <2>3. bindings' = [t \in Sessions |-> bindings'[t]] BY <2>1, <2>2 DEF ProviderCleared
    <2>4. CASE ~Live(bindings, s, at)
      <3>1. \A t \in Sessions : bindings'[t] \in {bindings[t], None}
        BY <2>1, <2>2, <2>4 DEF ProviderCleared
      <3> QED BY <2>3, <3>1 DEF Bindings_OK
    <2>5. CASE Live(bindings, s, at)
      <3>1. PICK b : b = [bindings[s] EXCEPT !.provider = None] OBVIOUS
      <3>2. bindings' = [bindings EXCEPT ![s] = b] BY <2>1, <2>5, <3>1 DEF ProviderCleared
      <3>3. \A t \in Sessions : bindings'[t] = IF t = s THEN b ELSE bindings[t]
        BY <2>2, <3>2
      <3>4. ASSUME s \in Sessions
            PROVE  IsBinding(b) /\ (~Clearing /\ ~b.crossed => Follows(b))
        <4>1. IsBinding(bindings[s]) /\ (~Clearing /\ ~bindings[s].crossed => Follows(bindings[s]))
          BY <2>5, <3>4 DEF IInv, Shape, BindingsFollow, Live
        <4>2. /\ IsBinding(b) /\ b.mode = bindings[s].mode /\ b.order = bindings[s].order
              /\ b.crossed = bindings[s].crossed
          BY <3>1, <4>1 DEF IsBinding
        <4> QED BY <4>1, <4>2 DEF Follows
      <3> QED BY <2>3, <3>3, <3>4 DEF Bindings_OK
    <2> QED BY <2>4, <2>5
  <1>7. Recent_OK BY <1>1, SameRecent
  <1> QED BY <1>1, <1>2, <1>3, <1>5, <1>6, <1>7, RequestStep

LEMMA GateBoundStep ==
    ASSUME IInv, NEW r \in Requests, GateBound(r)
    PROVE  IInv'
  <1>1. req[r].pc = "resolve" /\ UNCHANGED <<active, lists, command, bindings, recent>>
    BY DEF GateBound
  <1>2. PICK candidates : req' = [req EXCEPT ![r] = Resolved(req[r], candidates)]
    BY DEF GateBound, WithPreference
  <1>3. PICK q : q = Resolved(req[r], candidates) OBVIOUS
  <1>4. IsRequest(req[r]) BY <1>1, Known
  <1>5. IsRequest(q) /\ (~q.crossed => ~UnderWay /\ OnRoute(q))
    BY <1>1, <1>3, <1>4, ResolvedKnown
  <1> QED BY <1>1, <1>2, <1>3, <1>5, MovedOn

\* Pruning takes answers away and changes none.
LEMMA PrunedKeeps ==
    ASSUME NEW at
    PROVE  /\ Pruned(at) = [k \in Keys |-> Pruned(at)[k]]
           /\ \A k \in Keys : Pruned(at)[k] \in {recent[k], None}
  BY DEF Pruned

LEMMA KeysKnown ==
    ASSUME IInv, NEW r \in Requests
    PROVE  /\ RequestKey(req[r].session) \in Keys
           /\ req[r].mode = active => RouteKey(req[r].mode) \in Keys
  <1>1. req[r].session \in Sessions \cup {None} /\ active \in AllModes
    BY DEF IInv, Shape, IsRequest
  <1> QED BY <1>1 DEF Keys

LEMMA CheckCacheStep ==
    ASSUME IInv, NEW r \in Requests, CheckCache(r)
    PROVE  IInv'
  <1> DEFINE own == Pruned(now)[RequestKey(req[r].session)]
             route == Pruned(now)[RouteKey(req[r].mode)]
  <1>1. PICK hit : hit = IF own # None THEN own ELSE route OBVIOUS
  <1>2. /\ req[r].pc = "check" /\ UNCHANGED <<active, lists, command, bindings>>
        /\ recent' = Pruned(now)
    BY DEF CheckCache
  <1>3. /\ IsRequest(req[r])
        /\ ~req[r].crossed => /\ ~UnderWay
                              /\ req[r].mode = active /\ req[r].list = lists[active]
    BY <1>2, Known DEF OnRoute
  <1>4. Bindings_OK BY <1>2, SameBindings
  <1>5. Recent_OK BY <1>2, PrunedKeeps DEF Recent_OK
  <1>6. CASE hit = None
    <2>1. PICK q : q = [req[r] EXCEPT !.pc = "run"] OBVIOUS
    <2>2. req' = [req EXCEPT ![r] = q] BY <1>1, <1>6, <2>1 DEF CheckCache
    <2>3. /\ IsRequest(q) /\ q.pc = "run" /\ q.mode = req[r].mode
          /\ q.list = req[r].list /\ q.crossed = req[r].crossed
      BY <1>3, <2>1 DEF IsRequest
    <2>4. ~q.crossed => OnRoute(q) BY <1>3, <2>3 DEF OnRoute
    <2> QED BY <1>2, <1>3, <1>4, <1>5, <2>2, <2>3, <2>4, RequestStep
  <1>7. CASE hit # None
    <2>1. PICK q : q = [req[r] EXCEPT !.pc = "done", !.outcome = "cached", !.answer = hit]
      OBVIOUS
    <2>2. req' = [req EXCEPT ![r] = q] BY <1>1, <1>7, <2>1 DEF CheckCache
    <2>3. /\ IsRequest(q) /\ q.pc = "done" /\ q.mode = req[r].mode
          /\ q.list = req[r].list /\ q.crossed = req[r].crossed /\ q.answer = hit
      BY <1>3, <2>1 DEF IsRequest
    <2>4. ASSUME ~req[r].crossed
          PROVE  hit.crossed \/ (hit.mode = active /\ Covers(hit, lists[active]))
      <3>1. PICK k \in Keys : hit = Pruned(now)[k]
        BY <1>1, <1>3, <2>4, KeysKnown
      <3>2. hit = recent[k] BY <1>7, <3>1, PrunedKeeps
      <3> QED BY <1>3, <1>7, <2>4, <3>2 DEF IInv, EntriesFollow
    <2>5. ~q.crossed => OnRoute(q) BY <1>3, <2>3, <2>4 DEF OnRoute
    <2> QED BY <1>2, <1>3, <1>4, <1>5, <2>2, <2>3, <2>5, RequestStep
  <1> QED BY <1>6, <1>7

\* A request that ends without an answer from the cache.
LEMMA EndStep ==
    ASSUME IInv, NEW r \in Requests, NEW outcome, outcome # "cached",
           req[r].pc # "idle",
           req' = [req EXCEPT ![r].pc = "done", ![r].outcome = outcome],
           UNCHANGED <<active, lists, command>>, Bindings_OK, Recent_OK
    PROVE  IInv'
  <1>1. PICK q : q = [req[r] EXCEPT !.pc = "done", !.outcome = outcome] OBVIOUS
  <1>2. IsRequest(req[r]) /\ (~req[r].crossed => ~UnderWay) BY Known
  <1>3. /\ IsRequest(q) /\ q.pc = "done" /\ q.outcome = outcome
        /\ q.crossed = req[r].crossed
    BY <1>1, <1>2 DEF IsRequest
  <1>4. OnRoute(q) BY <1>3 DEF OnRoute
  <1>5. req' = [req EXCEPT ![r] = q] BY <1>1
  <1> QED BY <1>2, <1>3, <1>4, <1>5, RequestStep

LEMMA SucceedStep ==
    ASSUME IInv, NEW r \in Requests, Succeed(r)
    PROVE  IInv'
  <1> DEFINE s == req[r].session
  <1>1. /\ req[r].pc = "run" /\ UNCHANGED <<active, lists, command, recent>>
        /\ req' = [req EXCEPT ![r].pc = "done", ![r].outcome = "served"]
    BY DEF Succeed
  <1>2. /\ IsRequest(req[r])
        /\ ~req[r].crossed => /\ ~UnderWay
                              /\ req[r].mode = active /\ req[r].list = lists[active]
    BY <1>1, Known DEF OnRoute
  <1>3. Bindings_OK
    <2>1. CASE s = None BY <2>1, SameBindings DEF Succeed
    <2>2. CASE s # None
      <3>0. PICK p \in Range(req[r].candidates) : \E table \in Roomy(bindings, now) :
                bindings' = SuccessBound(table, s, p, req[r].mode, now, req[r].crossed)
        BY <2>2 DEF Succeed
      <3>1. PICK table \in Roomy(bindings, now) :
                bindings' = SuccessBound(table, s, p, req[r].mode, now, req[r].crossed)
        BY <3>0
      <3>2. CASE Live(table, s, now)
        <4>1. PICK b : b = [table[s] EXCEPT !.provider = p, !.expires = now + Ttl,
                               !.mode = IF table[s].mode = None THEN req[r].mode
                                        ELSE table[s].mode,
                               !.crossed = table[s].crossed
                                           \/ (table[s].mode = None /\ req[r].crossed)]
          OBVIOUS
        <4>2. bindings' = [table EXCEPT ![s] = b] BY <3>1, <3>2, <4>1 DEF SuccessBound
        <4>3. ASSUME s \in Sessions
              PROVE  IsBinding(b) /\ (~Clearing /\ ~b.crossed => Follows(b))
          <5>1. /\ IsBinding(table[s])
                /\ ~Clearing /\ ~table[s].crossed => Follows(table[s])
            BY <3>2, <4>3, RoomyKnown DEF Live
          <5>2. req[r].crossed \in BOOLEAN BY <1>2 DEF IsRequest
          <5>3. /\ IsBinding(b) /\ b.order = table[s].order
                /\ b.mode = (IF table[s].mode = None THEN req[r].mode ELSE table[s].mode)
                /\ b.crossed = (table[s].crossed \/ (table[s].mode = None /\ req[r].crossed))
            BY <4>1, <5>1, <5>2 DEF IsBinding
          <5> QED BY <1>2, <5>1, <5>3 DEF Follows
        <4> QED BY <1>1, <4>2, <4>3, BoundKeeps
      <3>3. CASE ~Live(table, s, now)
        <4>1. PICK b : b = Fresh(p, req[r].mode, None, now, req[r].crossed) OBVIOUS
        <4>2. bindings' = [table EXCEPT ![s] = b] BY <3>1, <3>3, <4>1 DEF SuccessBound
        <4>3. req[r].crossed \in BOOLEAN BY <1>2 DEF IsRequest
        <4>4. /\ IsBinding(b) /\ b.mode = req[r].mode /\ b.order = None
              /\ b.crossed = req[r].crossed
          BY <4>1, <4>3, FreshBinding
        <4>5. ~b.crossed => Follows(b) BY <1>2, <4>4 DEF Follows
        <4> QED BY <1>1, <4>2, <4>4, <4>5, BoundKeeps
      <3> QED BY <3>2, <3>3
    <2> QED BY <2>1, <2>2
  <1>4. Recent_OK BY <1>1, SameRecent
  <1> QED BY <1>1, <1>3, <1>4, EndStep

LEMMA FailStep ==
    ASSUME IInv, NEW r \in Requests, Fail(r) \/ Abort(r)
    PROVE  IInv'
  <1>1. /\ req[r].pc # "idle" /\ UNCHANGED <<active, lists, command, bindings, recent>>
        /\ req' = [req EXCEPT ![r].pc = "done", ![r].outcome = "failed"]
    BY DEF Fail, Abort
  <1> QED BY <1>1, SameBindings, SameRecent, EndStep

LEMMA InsertErrorStep ==
    ASSUME IInv, NEW r \in Requests, InsertError(r)
    PROVE  IInv'
  <1>1. /\ req[r].pc = "insert" /\ UNCHANGED <<active, lists, command, bindings>>
        /\ req' = [req EXCEPT ![r].pc = "done", ![r].outcome = "unavailable"]
    BY DEF InsertError
  <1>2. PICK e : e = [req[r].answer EXCEPT !.crossed = req[r].crossed] OBVIOUS
  <1>3. recent' = [Pruned(req[r].at) EXCEPT ![RequestKey(req[r].session)] = e,
                                            ![RouteKey(req[r].mode)] = e]
    BY <1>2 DEF InsertError
  <1>4. /\ IsRequest(req[r])
        /\ ~req[r].crossed => ~UnderWay /\ req[r].answer.mode = active
                              /\ Covers(req[r].answer, lists[active])
    BY <1>1, Known DEF OnRoute
  <1>5. IsEntry(req[r].answer) /\ req[r].crossed \in BOOLEAN BY <1>1, <1>4 DEF IsRequest
  <1>6. /\ IsEntry(e) /\ e.mode = req[r].answer.mode
        /\ e.considered = req[r].answer.considered /\ e.forced = req[r].answer.forced
        /\ e.crossed = req[r].crossed
    BY <1>2, <1>5 DEF IsEntry
  <1>7. Recent_OK
    <2> DEFINE pruned == Pruned(req[r].at)
    <2>1. pruned = [k \in Keys |-> pruned[k]] /\ \A k \in Keys : pruned[k] \in {recent[k], None}
      BY PrunedKeeps
    <2> HIDE DEF pruned
    <2>2. recent' = [k \in Keys |-> recent'[k]] BY <1>3, <2>1 DEF pruned
    <2>3. \A k \in Keys : recent'[k] \in {pruned[k], e} BY <1>3, <2>1 DEF pruned
    <2>4. ~e.crossed => e.mode = active /\ Covers(e, lists[active]) BY <1>4, <1>6 DEF Covers
    <2> QED BY <1>6, <2>1, <2>2, <2>3, <2>4 DEF Recent_OK
  <1> QED BY <1>1, <1>7, SameBindings, EndStep

LEMMA LeaveStep ==
    ASSUME IInv, NEW r \in Requests, Leave(r)
    PROVE  IInv'
  <1>1. IsRequest(Idle) /\ Idle.pc = "idle" BY DEF IsRequest, Idle
  <1>2. req' = [req EXCEPT ![r] = Idle] /\ UNCHANGED <<active, lists, command, bindings, recent>>
    BY DEF Leave
  <1> QED BY <1>1, <1>2, MovedOn

------------------------------------------------------------------------------
\* A command crosses every request that is under way.
LEMMA CrossedAll ==
    ASSUME IInv, req' = Crossed
    PROVE  /\ req' = [r \in Requests |-> req'[r]]
           /\ \A r \in Requests : IsRequest(req'[r])
           /\ AloneNow' /\ RequestsOnRoute'
  <1>1. ASSUME NEW r \in Requests
        PROVE  IsRequest(req'[r]) /\ (req'[r].pc # "idle" => req'[r].crossed)
    <2>1. PICK b \in BOOLEAN : b = (req[r].pc # "idle") OBVIOUS
    <2>2. PICK q : q = [req[r] EXCEPT !.crossed = b] OBVIOUS
    <2>3. req'[r] = q BY <2>1, <2>2 DEF Crossed
    <2>4. IsRequest(req[r]) BY DEF IInv, Shape
    <2>5. IsRequest(q) /\ q.pc = req[r].pc /\ q.crossed = b BY <2>2, <2>4 DEF IsRequest
    <2> QED BY <2>1, <2>3, <2>5
  <1>2. req' = [r \in Requests |-> req'[r]] BY DEF Crossed
  <1> QED BY <1>1, <1>2 DEF AloneNow, RequestsOnRoute

LEMMA EditStep ==
    ASSUME IInv, NEW c \in Commands, Edit(c)
    PROVE  IInv'
  <1>1. /\ active' \in AllModes /\ UNCHANGED <<bindings, recent>> /\ req' = Crossed
        /\ command' = [command EXCEPT ![c] = "sessions"]
    BY RoutingAssumption DEF Edit
  <1>2. command' = [d \in Commands |-> command'[d]] /\ command'[c] = "sessions"
    BY <1>1 DEF IInv, Shape
  <1>3. Clearing' /\ UnderWay' BY <1>2 DEF Clearing, UnderWay
  <1>4. Shape' BY <1>1, <1>2, CrossedAll DEF IInv, Shape
  <1> QED BY <1>1, <1>3, <1>4, CrossedAll DEF IInv, BindingsFollow, EntriesFollow

LEMMA ClearSessionsStep ==
    ASSUME IInv, NEW c \in Commands, ClearSessions(c)
    PROVE  IInv'
  <1>1. /\ UNCHANGED <<active, lists, recent>> /\ req' = Crossed /\ bindings' = Empty
        /\ command' = [command EXCEPT ![c] = "errors"]
    BY DEF ClearSessions, SessionsCleared
  <1>2. command' = [d \in Commands |-> command'[d]] /\ command'[c] = "errors"
    BY <1>1 DEF IInv, Shape
  <1>3. UnderWay' BY <1>2 DEF UnderWay
  <1>4. \A s \in Sessions : bindings'[s] = None BY <1>1 DEF Empty
  <1>5. bindings' = [s \in Sessions |-> bindings'[s]] BY <1>1 DEF Empty
  <1>6. Shape' BY <1>1, <1>2, <1>4, <1>5, CrossedAll DEF IInv, Shape
  <1> QED BY <1>1, <1>3, <1>4, <1>6, CrossedAll DEF IInv, BindingsFollow, EntriesFollow

LEMMA ClearErrorsStep ==
    ASSUME IInv, NEW c \in Commands, ClearErrors(c)
    PROVE  IInv'
  <1>1. /\ UNCHANGED <<active, lists, bindings>> /\ req' = Crossed
        /\ recent' = [k \in Keys |-> None]
        /\ command[c] = "errors" /\ command' = [command EXCEPT ![c] = "idle"]
    BY DEF ClearErrors, ErrorsCleared
  <1>2. command' = [d \in Commands |-> command'[d]]
    BY <1>1 DEF IInv, Shape
  <1>3. Clearing => Clearing'
    <2>1. \A d \in Commands : command[d] = "sessions" => command'[d] = "sessions"
      BY <1>1, <1>2 DEF IInv, Shape
    <2> QED BY <2>1 DEF Clearing
  <1>4. \A k \in Keys : recent'[k] = None BY <1>1
  <1>5. recent' = [k \in Keys |-> recent'[k]] BY <1>1
  <1>6. Shape' BY <1>1, <1>2, <1>4, <1>5, CrossedAll DEF IInv, Shape
  <1>7. BindingsFollow' BY <1>1, <1>3 DEF IInv, BindingsFollow, Follows
  <1> QED BY <1>4, <1>1, <1>6, <1>7, CrossedAll DEF IInv, EntriesFollow

LEMMA ResetProviderStep ==
    ASSUME IInv, NEW c \in Commands, ResetProvider(c)
    PROVE  IInv'
  <1>1. /\ UNCHANGED <<active, lists, bindings, recent>> /\ req' = Crossed
        /\ command[c] = "idle" /\ command' = [command EXCEPT ![c] = "errors"]
    BY DEF ResetProvider
  <1>2. command' = [d \in Commands |-> command'[d]] /\ command'[c] = "errors"
    BY <1>1 DEF IInv, Shape
  <1>3. UnderWay' BY <1>2 DEF UnderWay
  <1>4. Clearing => Clearing'
    <2>1. \A d \in Commands : command[d] = "sessions" => command'[d] = "sessions"
      BY <1>1, <1>2 DEF IInv, Shape
    <2> QED BY <2>1 DEF Clearing
  <1>5. Shape' BY <1>1, <1>2, CrossedAll DEF IInv, Shape
  <1>6. BindingsFollow' BY <1>1, <1>4 DEF IInv, BindingsFollow, Follows
  <1> QED BY <1>1, <1>3, <1>5, <1>6, CrossedAll DEF IInv, EntriesFollow

\* A step that changes neither requests, commands nor routes.
LEMMA OtherStep ==
    ASSUME IInv, UNCHANGED <<active, lists, command, req>>, Bindings_OK, Recent_OK
    PROVE  IInv'
  <1>1. UnderWay' = UnderWay /\ Clearing' = Clearing BY DEF UnderWay, Clearing
  <1>2. Shape'
    <2>1. \A s \in Sessions : bindings'[s] # None => IsBinding(bindings'[s])
      BY DEF IInv, Shape, Bindings_OK
    <2>2. \A k \in Keys : recent'[k] # None => IsEntry(recent'[k])
      BY DEF IInv, Shape, Recent_OK
    <2> QED BY <2>1, <2>2 DEF IInv, Shape, Bindings_OK, Recent_OK
  <1>3. AloneNow' /\ RequestsOnRoute' BY <1>1 DEF IInv, AloneNow, RequestsOnRoute, OnRoute
  <1>4. BindingsFollow' BY <1>1 DEF IInv, BindingsFollow, Bindings_OK, Follows
  <1>5. EntriesFollow' BY <1>1 DEF IInv, EntriesFollow, Recent_OK
  <1> QED BY <1>2, <1>3, <1>4, <1>5 DEF IInv

LEMMA ListActiveStep == IInv /\ ListActive => IInv'
  <1> SUFFICES ASSUME IInv, ListActive PROVE IInv' OBVIOUS
  <1>1. Bindings_OK
    <2>1. bindings' = [s \in Sessions |-> IF Live(bindings, s, now) THEN bindings[s] ELSE None]
      BY DEF ListActive, DropExpired
    <2>2. \A s \in Sessions : bindings'[s] \in {bindings[s], None} BY <2>1
    <2> QED BY <2>1, <2>2 DEF Bindings_OK
  <1> QED BY <1>1, SameRecent, OtherStep DEF ListActive

LEMMA InitInv == Init => IInv
  <1> SUFFICES ASSUME Init PROVE IInv OBVIOUS
  <1>1. active \in AllModes BY RoutingAssumption DEF Init
  <1>2. IsRequest(Idle) /\ Idle.pc = "idle" BY DEF IsRequest, Idle
  <1>3. \A r \in Requests : req[r] = Idle BY DEF Init
  <1>4. \A c \in Commands : command[c] = "idle" BY DEF Init
  <1>5. \A s \in Sessions : bindings[s] = None BY DEF Init, Empty
  <1>6. \A k \in Keys : recent[k] = None BY DEF Init
  <1>7. Shape BY <1>1, <1>2, <1>3, <1>5, <1>6 DEF Shape, Init, Empty
  <1>8. AloneNow /\ RequestsOnRoute BY <1>2, <1>3 DEF AloneNow, RequestsOnRoute
  <1> QED BY <1>5, <1>6, <1>7, <1>8 DEF IInv, BindingsFollow, EntriesFollow

------------------------------------------------------------------------------
(* Induction on a bound, for a set that is given.                             *)

Below == {ss \in Nat \X Nat : ss[1] < ss[2]}

LEMMA BelowWF == IsWellFoundedOn(Below, Nat)
  BY NatLessThanWellFounded DEF OpToRel, Below

\* A set of numbers that has 0, and with a number its successor, has all of them.
LEMMA UpTo ==
    ASSUME NEW n \in Nat, NEW T, 0 \in T, \A i \in 0..n-1 : i \in T => i + 1 \in T
    PROVE  \A i \in 0..n : i \in T
  <1> DEFINE B == {i \in 0..n : i \notin T}
  <1> SUFFICES ASSUME B # {} PROVE FALSE OBVIOUS
  <1>1. B \subseteq Nat OBVIOUS
  <1>2. PICK x \in B : \A y \in B : ~(<<y, x>> \in Below)
    <2> HIDE DEF B
    <2> QED BY <1>1, BelowWF, WFMin
  <1>0. x \in 0..n /\ x \notin T OBVIOUS
  <1>3. x # 0 /\ x - 1 \in 0..n-1 BY <1>0
  <1>4. CASE x - 1 \in T
    <2>1. (x - 1) + 1 \in T BY <1>3, <1>4
    <2> QED BY <1>0, <2>1
  <1>5. CASE x - 1 \notin T
    <2>1. x - 1 \in B BY <1>0, <1>3, <1>5
    <2>2. ~(<<x - 1, x>> \in Below)
      <3> HIDE DEF B
      <3> QED BY <1>2, <2>1
    <2>3. x - 1 \in Nat /\ x \in Nat /\ x - 1 < x BY <1>0, <1>3
    <2>4. <<x - 1, x>> \in Nat \X Nat /\ <<x - 1, x>>[1] = x - 1 /\ <<x - 1, x>>[2] = x
      BY <2>3
    <2> QED BY <2>2, <2>3, <2>4 DEF Below
  <1> QED BY <1>4, <1>5

------------------------------------------------------------------------------
(* Lists without repetition, and the members of a list that are kept.         *)

LEMMA RangeOf ==
    ASSUME NEW S, NEW l \in Seq(S)
    PROVE  /\ Range(l) \subseteq S
           /\ Range(l) = {l[i] : i \in 1..Len(l)}
           /\ l = <<>> <=> Range(l) = {}
  <1>1. Len(l) \in Nat /\ DOMAIN l = 1..Len(l) BY LenProperties
  <1>2. \A i \in 1..Len(l) : l[i] \in S BY ElementOfSeq
  <1>3. l # <<>> => Len(l) # 0 BY EmptySeq
  <1>4. Len(<<>>) = 0 BY EmptySeq
  <1>5. Range(l) = {l[i] : i \in 1..Len(l)} BY <1>1 DEF Range
  <1>6. l # <<>> => l[1] \in Range(l) BY <1>1, <1>3, <1>5
  <1>7. l = <<>> => Range(l) = {} BY <1>1, <1>4, <1>5
  <1> QED BY <1>2, <1>5, <1>6, <1>7

Once(l) == \A i, j \in 1..Len(l) : l[i] = l[j] => i = j

LEMMA OrderIs ==
    ASSUME NEW l
    PROVE  l \in Orders <=> l \in Seq(Providers) /\ Once(l)
  <1>1. l \in Seq(Providers) => DOMAIN l = 1..Len(l) BY LenProperties
  <1> QED BY <1>1 DEF Orders, IsInjective, Once

LEMMA RangeAppend ==
    ASSUME NEW S, NEW l \in Seq(S), NEW e \in S
    PROVE  Range(Append(l, e)) = Range(l) \cup {e}
  <1>1. /\ Append(l, e) \in Seq(S) /\ Len(Append(l, e)) = Len(l) + 1 /\ Len(l) \in Nat
        /\ \A i \in 1..Len(l) : Append(l, e)[i] = l[i]
        /\ Append(l, e)[Len(l) + 1] = e
    BY AppendProperties, LenProperties
  <1>2. Range(Append(l, e)) = {Append(l, e)[i] : i \in 1..Len(Append(l, e))} BY <1>1, RangeOf
  <1>3. Range(l) = {l[i] : i \in 1..Len(l)} BY RangeOf
  <1> QED BY <1>1, <1>2, <1>3

\* What Kept computes on the way: the function exists.
Keeping(list, S, kept) ==
    kept = [i \in 0..Len(list) |->
              IF i = 0 THEN <<>>
              ELSE IF list[i] \in S THEN Append(kept[i - 1], list[i]) ELSE kept[i - 1]]

LEMMA KeepingExists ==
    ASSUME NEW V, NEW list \in Seq(V), NEW S
    PROVE  \E kept : Keeping(list, S, kept)
  <1> DEFINE Step(f, i) == IF i = 0 THEN <<>>
                           ELSE IF list[i] \in S THEN Append(f[i - 1], list[i]) ELSE f[i - 1]
             T == {n \in 0..Len(list) : \E f : f = [i \in 0..n |-> Step(f, i)]}
  <1>1. Len(list) \in Nat BY LenProperties
  <1>2. 0 \in T
    <2>1. PICK f : f = [i \in 0..0 |-> <<>>] OBVIOUS
    <2>2. f = [i \in 0..0 |-> Step(f, i)] BY <2>1
    <2> QED BY <1>1, <2>2
  <1>3. ASSUME NEW n \in 0..Len(list) - 1, n \in T PROVE n + 1 \in T
    <2>1. PICK f : f = [i \in 0..n |-> Step(f, i)] BY <1>3
    <2>2. PICK g : g = [i \in 0..n + 1 |-> IF i = n + 1 THEN Step(f, i) ELSE f[i]] OBVIOUS
    <2>3. ASSUME NEW i \in 0..n + 1 PROVE g[i] = Step(g, i)
      <3>1. i # 0 => i - 1 \in 0..n /\ g[i - 1] = f[i - 1] BY <2>2, <2>3, <1>1
      <3>2. Step(g, i) = Step(f, i) BY <3>1
      <3>3. i # n + 1 => f[i] = Step(f, i)
        <4>1. i # n + 1 => i \in 0..n BY <1>1
        <4> HIDE DEF Step
        <4> QED BY <2>1, <4>1
      <3>4. g[i] = IF i = n + 1 THEN Step(f, i) ELSE f[i] BY <2>2
      <3> QED BY <3>2, <3>3, <3>4
    <2>4. g = [i \in 0..n + 1 |-> Step(g, i)]
      <3> HIDE DEF Step
      <3>1. g = [i \in 0..n + 1 |-> g[i]] BY <2>2
      <3> QED BY <2>3, <3>1
    <2>5. n + 1 \in 0..Len(list) BY <1>1
    <2> HIDE DEF Step
    <2> QED BY <2>4, <2>5
  <1>4. \A n \in 0..Len(list) : n \in T
    <2> HIDE DEF T
    <2>1. \A n \in 0..Len(list) - 1 : n \in T => n + 1 \in T BY <1>3
    <2> QED BY <1>1, <1>2, <2>1, UpTo
  <1>5. Len(list) \in T
    <2> HIDE DEF T
    <2> QED BY <1>1, <1>4
  <1> QED BY <1>5 DEF Keeping

LEMMA KeptIs ==
    ASSUME NEW V, NEW list \in Seq(V), NEW S
    PROVE  \E kept : Keeping(list, S, kept) /\ Kept(list, S) = kept[Len(list)]
  <1>1. PICK kept : kept = CHOOSE k : Keeping(list, S, k) OBVIOUS
  <1>2. Keeping(list, S, kept) BY <1>1, KeepingExists
  <1>3. Kept(list, S) = kept[Len(list)] BY <1>1 DEF Kept, Keeping
  <1> QED BY <1>2, <1>3

LEMMA KeepingStep ==
    ASSUME NEW V, NEW list \in Seq(V), NEW S, NEW kept, Keeping(list, S, kept)
    PROVE  /\ kept[0] = <<>> /\ Len(list) \in Nat
           /\ \A i \in 0..Len(list) - 1 :
                /\ i + 1 \in 1..Len(list)
                /\ list[i + 1] \in V
                /\ list[i + 1] \in S => kept[i + 1] = Append(kept[i], list[i + 1])
                /\ list[i + 1] \notin S => kept[i + 1] = kept[i]
  <1>1. Len(list) \in Nat BY LenProperties
  <1>2. \A i \in 0..Len(list) :
          kept[i] = IF i = 0 THEN <<>>
                    ELSE IF list[i] \in S THEN Append(kept[i - 1], list[i]) ELSE kept[i - 1]
    BY DEF Keeping
  <1>3. ASSUME NEW i \in 0..Len(list) - 1
        PROVE  /\ i + 1 \in 1..Len(list)
               /\ list[i + 1] \in V
               /\ list[i + 1] \in S => kept[i + 1] = Append(kept[i], list[i + 1])
               /\ list[i + 1] \notin S => kept[i + 1] = kept[i]
    <2>1. i + 1 \in 1..Len(list) /\ i + 1 \in 0..Len(list) /\ i + 1 # 0 /\ (i + 1) - 1 = i
      BY <1>1
    <2>2. list[i + 1] \in V BY <2>1, ElementOfSeq
    <2> QED BY <1>2, <2>1, <2>2
  <1>4. kept[0] = <<>> BY <1>1, <1>2
  <1> QED BY <1>1, <1>3, <1>4

\* Kept keeps of a list the members of S and nothing else, none of them twice if
\* the list has none twice.
LEMMA KeptRange ==
    ASSUME NEW V, NEW list \in Seq(V), NEW S
    PROVE  Kept(list, S) \in Seq(V) /\ Range(Kept(list, S)) = Range(list) \cap S
  <1>1. PICK kept : Keeping(list, S, kept) /\ Kept(list, S) = kept[Len(list)] BY KeptIs
  <1>2. /\ kept[0] = <<>> /\ Len(list) \in Nat
        /\ \A i \in 0..Len(list) - 1 :
             /\ i + 1 \in 1..Len(list)
             /\ list[i + 1] \in V
             /\ list[i + 1] \in S => kept[i + 1] = Append(kept[i], list[i + 1])
             /\ list[i + 1] \notin S => kept[i + 1] = kept[i]
    BY <1>1, KeepingStep
  <1> DEFINE Part(n) == {list[i] : i \in 1..n} \cap S
             T == {n \in 0..Len(list) : kept[n] \in Seq(V) /\ Range(kept[n]) = Part(n)}
  <1>3. 0 \in T
    <2>1. <<>> \in Seq(V) /\ Range(<<>>) = {} BY EmptySeq, RangeOf
    <2>2. Part(0) = {} OBVIOUS
    <2>3. 0 \in 0..Len(list) /\ kept[0] \in Seq(V) /\ Range(kept[0]) = {} BY <1>2, <2>1
    <2> HIDE DEF Part
    <2> QED BY <2>2, <2>3
  <1>4. ASSUME NEW n \in 0..Len(list) - 1, n \in T PROVE n + 1 \in T
    <2>1. n + 1 \in 0..Len(list) /\ n \in Nat BY <1>2
    <2>2. kept[n] \in Seq(V) /\ Range(kept[n]) = Part(n) BY <1>4
    <2>3. {list[i] : i \in 1..n + 1} = {list[i] : i \in 1..n} \cup {list[n + 1]}
      <3>1. 1..n + 1 = (1..n) \cup {n + 1} BY <2>1
      <3> QED BY <3>1
    <2>4. CASE list[n + 1] \in S
      <3>1. kept[n + 1] = Append(kept[n], list[n + 1]) BY <1>2, <2>4
      <3>2. list[n + 1] \in V BY <1>2
      <3>3. kept[n + 1] \in Seq(V) /\ Range(kept[n + 1]) = Range(kept[n]) \cup {list[n + 1]}
        BY <2>2, <3>1, <3>2, RangeAppend, AppendProperties
      <3>4. Part(n + 1) = Part(n) \cup {list[n + 1]} BY <2>3, <2>4
      <3> HIDE DEF Part
      <3> QED BY <2>1, <2>2, <3>3, <3>4
    <2>5. CASE list[n + 1] \notin S
      <3>1. kept[n + 1] = kept[n] BY <1>2, <2>5
      <3>2. Part(n + 1) = Part(n) BY <2>3, <2>5
      <3> HIDE DEF Part
      <3> QED BY <2>1, <2>2, <3>1, <3>2
    <2> QED BY <2>4, <2>5
  <1>5. \A n \in 0..Len(list) : n \in T
    <2> HIDE DEF T
    <2>1. \A n \in 0..Len(list) - 1 : n \in T => n + 1 \in T BY <1>4
    <2> QED BY <1>2, <1>3, <2>1, UpTo
  <1>6. Len(list) \in T
    <2> HIDE DEF T
    <2> QED BY <1>2, <1>5
  <1>7. Range(list) = {list[i] : i \in 1..Len(list)} BY RangeOf
  <1> QED BY <1>1, <1>6, <1>7

\* A list without repetition has none after an append of something new.
LEMMA AppendOnce ==
    ASSUME NEW V, NEW l \in Seq(V), NEW e \in V, e \notin Range(l), Once(l)
    PROVE  Once(Append(l, e))
  <1>1. PICK m : m = Append(l, e) OBVIOUS
  <1>2. /\ Len(m) = Len(l) + 1 /\ Len(l) \in Nat
        /\ \A i \in 1..Len(l) : m[i] = l[i]
        /\ m[Len(l) + 1] = e
    BY <1>1, AppendProperties, LenProperties
  <1>3. \A i \in 1..Len(l) : l[i] # e BY RangeOf
  <1>4. \A i \in 1..Len(m) : i \in 1..Len(l) \/ i = Len(l) + 1 BY <1>2
  <1>5. ASSUME NEW i \in 1..Len(m), NEW j \in 1..Len(m), m[i] = m[j] PROVE i = j
    BY <1>2, <1>3, <1>4, <1>5 DEF Once
  <1> QED BY <1>1, <1>5 DEF Once

LEMMA KeptOnce ==
    ASSUME NEW list \in Orders, NEW S
    PROVE  Kept(list, S) \in Orders
  <1>0. list \in Seq(Providers) /\ Once(list) BY OrderIs
  <1>1. PICK kept : Keeping(list, S, kept) /\ Kept(list, S) = kept[Len(list)] BY <1>0, KeptIs
  <1>2. /\ kept[0] = <<>> /\ Len(list) \in Nat
        /\ \A i \in 0..Len(list) - 1 :
             /\ i + 1 \in 1..Len(list)
             /\ list[i + 1] \in Providers
             /\ list[i + 1] \in S => kept[i + 1] = Append(kept[i], list[i + 1])
             /\ list[i + 1] \notin S => kept[i + 1] = kept[i]
    BY <1>0, <1>1, KeepingStep
  <1> DEFINE T == {n \in 0..Len(list) : /\ kept[n] \in Seq(Providers) /\ Once(kept[n])
                                        /\ Range(kept[n]) \subseteq {list[i] : i \in 1..n}}
  <1>3. 0 \in T
    <2>1. <<>> \in Seq(Providers) /\ Range(<<>>) = {} /\ Len(<<>>) = 0 BY EmptySeq, RangeOf
    <2>2. Once(kept[0]) BY <1>2, <2>1 DEF Once
    <2>3. kept[0] \in Seq(Providers) /\ 0 \in 0..Len(list) BY <1>2, <2>1
    <2>4. Range(kept[0]) \subseteq {list[i] : i \in 1..0} BY <1>2, <2>1
    <2> QED BY <2>2, <2>3, <2>4
  <1>4. ASSUME NEW n \in 0..Len(list) - 1, n \in T PROVE n + 1 \in T
    <2>1. n + 1 \in 0..Len(list) /\ n \in Nat /\ n + 1 \in 1..Len(list) BY <1>2
    <2>2. /\ kept[n] \in Seq(Providers) /\ Once(kept[n])
          /\ Range(kept[n]) \subseteq {list[i] : i \in 1..n}
      BY <1>4
    <2>3. {list[i] : i \in 1..n} \subseteq {list[i] : i \in 1..n + 1}
          /\ list[n + 1] \in {list[i] : i \in 1..n + 1}
      BY <2>1
    <2>4. CASE list[n + 1] \in S
      <3>1. kept[n + 1] = Append(kept[n], list[n + 1]) BY <1>2, <2>4
      <3>2. list[n + 1] \in Providers BY <1>2
      <3>3. list[n + 1] \notin {list[i] : i \in 1..n}
        <4>1. \A i \in 1..n : i \in 1..Len(list) /\ i # n + 1 BY <1>2, <2>1
        <4> QED BY <1>0, <2>1, <4>1 DEF Once
      <3>4. Once(kept[n + 1])
        <4>1. list[n + 1] \notin Range(kept[n]) BY <2>2, <3>3
        <4> QED BY <2>2, <3>1, <3>2, <4>1, AppendOnce
      <3>5. /\ kept[n + 1] \in Seq(Providers)
            /\ Range(kept[n + 1]) = Range(kept[n]) \cup {list[n + 1]}
        BY <2>2, <3>1, <3>2, RangeAppend, AppendProperties
      <3>6. Range(kept[n + 1]) \subseteq {list[i] : i \in 1..n + 1} BY <2>2, <2>3, <3>5
      <3> QED BY <2>1, <3>4, <3>5, <3>6
    <2>5. CASE list[n + 1] \notin S
      <3>1. kept[n + 1] = kept[n] BY <1>2, <2>5
      <3>2. Range(kept[n]) \subseteq {list[i] : i \in 1..n + 1} BY <2>2, <2>3
      <3> QED BY <2>1, <2>2, <3>1, <3>2
    <2> QED BY <2>4, <2>5
  <1>5. \A n \in 0..Len(list) : n \in T
    <2> HIDE DEF T
    <2>1. \A n \in 0..Len(list) - 1 : n \in T => n + 1 \in T BY <1>4
    <2> QED BY <1>2, <1>3, <2>1, UpTo
  <1>6. Len(list) \in T
    <2> HIDE DEF T
    <2> QED BY <1>2, <1>5
  <1> QED BY <1>1, <1>6, OrderIs

\* Whoever keeps all of a list keeps the list.
LEMMA KeptAll ==
    ASSUME NEW V, NEW list \in Seq(V)
    PROVE  Kept(list, Range(list)) = list
  <1> DEFINE S == Range(list)
  <1>1. PICK kept : Keeping(list, S, kept) /\ Kept(list, S) = kept[Len(list)] BY KeptIs
  <1>2. /\ kept[0] = <<>> /\ Len(list) \in Nat
        /\ \A i \in 0..Len(list) - 1 :
             /\ i + 1 \in 1..Len(list)
             /\ list[i + 1] \in V
             /\ list[i + 1] \in S => kept[i + 1] = Append(kept[i], list[i + 1])
    BY <1>1, KeepingStep
  <1>3. \A i \in 1..Len(list) : list[i] \in S BY RangeOf
  <1> DEFINE T == {n \in 0..Len(list) : /\ kept[n] \in Seq(V) /\ Len(kept[n]) = n
                                        /\ \A i \in 1..n : kept[n][i] = list[i]}
  <1>4. 0 \in T
    <2>1. <<>> \in Seq(V) /\ Len(<<>>) = 0 BY EmptySeq
    <2>2. kept[0] \in Seq(V) /\ Len(kept[0]) = 0 /\ 0 \in 0..Len(list) BY <1>2, <2>1
    <2>3. \A i \in 1..0 : kept[0][i] = list[i] OBVIOUS
    <2> QED BY <2>2, <2>3
  <1>5. ASSUME NEW n \in 0..Len(list) - 1, n \in T PROVE n + 1 \in T
    <2>1. n + 1 \in 0..Len(list) /\ n \in Nat /\ n + 1 \in 1..Len(list) BY <1>2
    <2>2. /\ kept[n] \in Seq(V) /\ Len(kept[n]) = n
          /\ \A i \in 1..n : kept[n][i] = list[i]
      BY <1>5
    <2>3. list[n + 1] \in S /\ list[n + 1] \in V BY <1>2, <1>3
    <2>4. kept[n + 1] = Append(kept[n], list[n + 1]) BY <1>2, <2>3
    <2>5. /\ kept[n + 1] \in Seq(V) /\ Len(kept[n + 1]) = n + 1
          /\ \A i \in 1..n : kept[n + 1][i] = kept[n][i]
          /\ kept[n + 1][n + 1] = list[n + 1]
      BY <2>2, <2>3, <2>4, AppendProperties
    <2>6. \A i \in 1..n + 1 : kept[n + 1][i] = list[i]
      <3>1. \A i \in 1..n + 1 : i \in 1..n \/ i = n + 1 BY <2>1
      <3> QED BY <2>2, <2>5, <3>1
    <2> QED BY <2>1, <2>5, <2>6
  <1>6. \A n \in 0..Len(list) : n \in T
    <2> HIDE DEF T
    <2>1. \A n \in 0..Len(list) - 1 : n \in T => n + 1 \in T BY <1>5
    <2> QED BY <1>2, <1>4, <2>1, UpTo
  <1>7. Len(list) \in T
    <2> HIDE DEF T
    <2> QED BY <1>2, <1>6
  <1> QED BY <1>1, <1>7, SeqEqual

LEMMA ConcatOf ==
    ASSUME NEW V, NEW a \in Seq(V), NEW b \in Seq(V)
    PROVE  /\ a \o b \in Seq(V) /\ Range(a \o b) = Range(a) \cup Range(b)
           /\ Once(a) /\ Once(b) /\ Range(a) \cap Range(b) = {} => Once(a \o b)
  <1>1. PICK c : c = a \o b OBVIOUS
  <1>2. /\ c \in Seq(V) /\ Len(a) \in Nat /\ Len(b) \in Nat /\ Len(c) = Len(a) + Len(b)
        /\ \A i \in 1..Len(a) + Len(b) : c[i] = IF i <= Len(a) THEN a[i] ELSE b[i - Len(a)]
    BY <1>1, ConcatProperties, LenProperties
  <1>3. /\ Range(a) = {a[i] : i \in 1..Len(a)} /\ Range(b) = {b[i] : i \in 1..Len(b)}
        /\ Range(c) = {c[i] : i \in 1..Len(c)}
    BY <1>2, RangeOf
  <1>4. \A i \in 1..Len(c) : \/ i \in 1..Len(a) /\ c[i] = a[i] /\ c[i] \in Range(a)
                             \/ i - Len(a) \in 1..Len(b) /\ c[i] = b[i - Len(a)] /\ c[i] \in Range(b)
    BY <1>2, <1>3
  <1>5. Range(c) \subseteq Range(a) \cup Range(b) BY <1>3, <1>4
  <1>6. Range(a) \subseteq Range(c)
    <2>1. \A i \in 1..Len(a) : i \in 1..Len(c) /\ c[i] = a[i] BY <1>2
    <2> QED BY <1>3, <2>1
  <1>7. Range(b) \subseteq Range(c)
    <2>1. \A i \in 1..Len(b) : i + Len(a) \in 1..Len(c) /\ c[i + Len(a)] = b[i] BY <1>2
    <2> QED BY <1>3, <2>1
  <1>8. ASSUME Once(a), Once(b), Range(a) \cap Range(b) = {}
        PROVE  Once(c)
    <2>1. ASSUME NEW i \in 1..Len(c), NEW j \in 1..Len(c), c[i] = c[j] PROVE i = j
      <3>1. CASE i \in 1..Len(a) /\ j \in 1..Len(a) BY <1>2, <1>8, <2>1, <3>1 DEF Once
      <3>2. CASE i \notin 1..Len(a) /\ j \notin 1..Len(a)
        <4>1. /\ i - Len(a) \in 1..Len(b) /\ c[i] = b[i - Len(a)]
              /\ j - Len(a) \in 1..Len(b) /\ c[j] = b[j - Len(a)]
          BY <1>4, <3>2
        <4>2. i - Len(a) = j - Len(a) BY <1>8, <2>1, <4>1 DEF Once
        <4> QED BY <1>2, <4>2
      <3>3. CASE ~(i \in 1..Len(a) <=> j \in 1..Len(a))
        <4>1. \A k \in 1..Len(c) : IF k \in 1..Len(a) THEN c[k] \in Range(a) ELSE c[k] \in Range(b)
          BY <1>2, <1>4
        <4> QED BY <1>8, <2>1, <3>3, <4>1
      <3> QED BY <3>1, <3>2, <3>3
    <2> QED BY <2>1 DEF Once
  <1> QED BY <1>1, <1>2, <1>5, <1>6, <1>7, <1>8

LEMMA SliceOf ==
    ASSUME NEW V, NEW l \in Seq(V), NEW m \in 1..Len(l) + 1, NEW n \in 0..Len(l)
    PROVE  /\ SubSeq(l, m, n) \in Seq(V)
           /\ Range(SubSeq(l, m, n)) = {l[j] : j \in m..n}
           /\ Once(l) => Once(SubSeq(l, m, n))
  <1>1. PICK c : c = SubSeq(l, m, n) OBVIOUS
  <1>2. Len(l) \in Nat /\ m \in Int /\ n \in Int BY LenProperties
  <1>3. \A j \in m..n : j \in 1..Len(l) BY <1>2
  <1>4. \A j \in m..n : l[j] \in V BY <1>3, ElementOfSeq
  <1>5. /\ c \in Seq(V) /\ Len(c) = (IF m <= n THEN n - m + 1 ELSE 0)
        /\ \A i \in 1..n - m + 1 : c[i] = l[m + i - 1]
    BY <1>1, <1>2, <1>4, SubSeqProperties
  <1>6. \A i \in 1..Len(c) : m + i - 1 \in m..n /\ c[i] = l[m + i - 1] BY <1>2, <1>5
  <1>7. \A j \in m..n : j - m + 1 \in 1..Len(c) /\ c[j - m + 1] = l[j] BY <1>2, <1>5
  <1>8. Range(c) = {c[i] : i \in 1..Len(c)} BY <1>5, RangeOf
  <1>9. Range(c) = {l[j] : j \in m..n}
    <2>1. \A i \in 1..Len(c) : c[i] \in {l[j] : j \in m..n} BY <1>6
    <2>2. \A j \in m..n : l[j] \in Range(c) BY <1>7, <1>8
    <2> QED BY <1>8, <2>1, <2>2
  <1>10. ASSUME Once(l) PROVE Once(c)
    <2>1. ASSUME NEW i \in 1..Len(c), NEW j \in 1..Len(c), c[i] = c[j] PROVE i = j
      <3>1. /\ m + i - 1 \in 1..Len(l) /\ m + j - 1 \in 1..Len(l)
            /\ l[m + i - 1] = l[m + j - 1]
        BY <1>3, <1>6, <2>1
      <3>2. m + i - 1 = m + j - 1 BY <1>10, <3>1 DEF Once
      <3>3. i \in Int /\ j \in Int OBVIOUS
      <3> QED BY <1>2, <3>2, <3>3
    <2> QED BY <2>1 DEF Once
  <1> QED BY <1>1, <1>5, <1>9, <1>10

\* Where a provider of a list is.
LEMMA IndexIs ==
    ASSUME NEW l \in Seq(Providers), NEW p \in Range(l)
    PROVE  IndexOf(l, p) \in 1..Len(l) /\ l[IndexOf(l, p)] = p
  <1>1. \E i \in 1..Len(l) : l[i] = p BY RangeOf
  <1> QED BY <1>1 DEF IndexOf

\* A rotation keeps the providers and puts one first; to the first it changes nothing.
LEMMA Rotation ==
    ASSUME NEW l \in Orders, NEW p \in Range(l)
    PROVE  /\ RotatedTo(l, p) \in Orders /\ Range(RotatedTo(l, p)) = Range(l)
           /\ Head(RotatedTo(l, p)) = p /\ RotatedTo(l, p) # <<>>
  <1>1. l \in Seq(Providers) /\ Once(l) BY OrderIs
  <1>2. PICK i : i = IndexOf(l, p) OBVIOUS
  <1>3. i \in 1..Len(l) /\ l[i] = p /\ Len(l) \in Nat BY <1>1, <1>2, IndexIs, LenProperties
  <1>4. PICK a : a = SubSeq(l, i, Len(l)) OBVIOUS
  <1>5. PICK b : b = SubSeq(l, 1, i - 1) OBVIOUS
  <1>6. /\ i \in 1..Len(l) + 1 /\ Len(l) \in 0..Len(l)
        /\ 1 \in 1..Len(l) + 1 /\ i - 1 \in 0..Len(l)
    BY <1>3
  <1>7. /\ a \in Seq(Providers) /\ Once(a) /\ Range(a) = {l[j] : j \in i..Len(l)}
    BY <1>1, <1>4, <1>6, SliceOf
  <1>8. /\ b \in Seq(Providers) /\ Once(b) /\ Range(b) = {l[j] : j \in 1..i - 1}
    BY <1>1, <1>5, <1>6, SliceOf
  <1>9. Range(a) \cap Range(b) = {}
    <2>1. \A j \in i..Len(l), k \in 1..i - 1 : j \in 1..Len(l) /\ k \in 1..Len(l) /\ j # k
      BY <1>3
    <2>2. \A j \in i..Len(l), k \in 1..i - 1 : l[j] # l[k] BY <1>1, <2>1 DEF Once
    <2> QED BY <1>7, <1>8, <2>2
  <1>10. Range(a) \cup Range(b) = Range(l)
    <2>1. 1..Len(l) = (i..Len(l)) \cup (1..i - 1) BY <1>3
    <2>2. Range(l) = {l[j] : j \in 1..Len(l)} BY <1>1, RangeOf
    <2> QED BY <1>7, <1>8, <2>1, <2>2
  <1>11. PICK c : c = a \o b OBVIOUS
  <1>12. c \in Seq(Providers) /\ Once(c) /\ Range(c) = Range(l)
    BY <1>7, <1>8, <1>9, <1>10, <1>11, ConcatOf
  <1>13. Len(a) \in Nat /\ Len(b) \in Nat /\ Len(a) = Len(l) - i + 1 /\ a[1] = l[i]
    <2>1. \A j \in i..Len(l) : l[j] \in Providers
      <3>1. \A j \in i..Len(l) : j \in 1..Len(l) BY <1>3
      <3> QED BY <1>1, <3>1, ElementOfSeq
    <2>2. /\ Len(a) = (IF i <= Len(l) THEN Len(l) - i + 1 ELSE 0)
          /\ \A k \in 1..Len(l) - i + 1 : a[k] = l[i + k - 1]
      BY <1>3, <1>4, <2>1, SubSeqProperties
    <2>3. Len(a) \in Nat /\ Len(b) \in Nat BY <1>7, <1>8, LenProperties
    <2>4. 1 \in 1..Len(l) - i + 1 /\ i + 1 - 1 = i BY <1>3
    <2> QED BY <1>3, <2>2, <2>3, <2>4
  <1>14. c[1] = l[i] /\ Len(c) # 0
    <2>1. /\ Len(c) = Len(a) + Len(b)
          /\ \A k \in 1..Len(a) + Len(b) : c[k] = IF k <= Len(a) THEN a[k] ELSE b[k - Len(a)]
      BY <1>7, <1>8, <1>11, ConcatProperties
    <2>2. 1 \in 1..Len(a) + Len(b) /\ 1 <= Len(a) BY <1>3, <1>13
    <2> QED BY <1>13, <2>1, <2>2
  <1>15. c # <<>> BY <1>14, EmptySeq
  <1>16. Head(c) = p BY <1>3, <1>12, <1>14, <1>15
  <1>17. c = RotatedTo(l, p) BY <1>2, <1>4, <1>5, <1>11 DEF RotatedTo
  <1> QED BY <1>12, <1>15, <1>16, <1>17, OrderIs

LEMMA RotationToFirst ==
    ASSUME NEW l \in Orders, l # <<>>
    PROVE  Head(l) \in Range(l) /\ RotatedTo(l, Head(l)) = l
  <1>1. l \in Seq(Providers) /\ Once(l) BY OrderIs
  <1>2. Len(l) \in Nat \ {0} BY <1>1, EmptySeq
  <1>3. Head(l) = l[1] /\ 1 \in 1..Len(l) BY <1>1, <1>2
  <1>4. Head(l) \in Range(l) BY <1>1, <1>3, RangeOf
  <1>5. IndexOf(l, Head(l)) = 1 BY <1>1, <1>3, <1>4, IndexIs DEF Once
  <1>6. SubSeq(l, 1, Len(l)) = l /\ SubSeq(l, 1, 1 - 1) = <<>>
    BY <1>1, SubSeqFull, SubSeqEmpty
  <1> QED BY <1>1, <1>4, <1>5, <1>6, ConcatEmptySeq DEF RotatedTo

LEMMA EmptyOrder == <<>> \in Orders /\ Range(<<>>) = {} /\ Len(<<>>) = 0
  <1>1. <<>> \in Seq(Providers) /\ Len(<<>>) = 0 BY EmptySeq
  <1>2. Once(<<>>) BY <1>1 DEF Once
  <1> QED BY <1>1, <1>2, OrderIs, RangeOf

LEMMA OneProvider ==
    ASSUME NEW p \in Providers
    PROVE  <<p>> \in Orders /\ Range(<<p>>) = {p} /\ Len(<<p>>) = 1
  <1>1. <<p>> \in Seq(Providers) /\ Len(<<p>>) = 1 /\ <<p>>[1] = p OBVIOUS
  <1>2. \A i \in 1..1 : i = 1 OBVIOUS
  <1>3. Once(<<p>>) BY <1>1, <1>2 DEF Once
  <1>4. Range(<<p>>) = {<<p>>[i] : i \in 1..1} BY <1>1, RangeOf
  <1>5. Range(<<p>>) = {p} BY <1>1, <1>2, <1>4
  <1> QED BY <1>1, <1>3, <1>5, OrderIs

\* A recorded order moves the providers of a list and neither adds nor loses one.
LEMMA ReorderedOf ==
    ASSUME NEW list \in Orders, NEW order \in Orders \cup {None}
    PROVE  Reordered(list, order) \in Orders /\ Range(Reordered(list, order)) = Range(list)
  <1>1. CASE order = None BY <1>1 DEF Reordered
  <1>2. CASE order # None
    <2>1. order \in Orders BY <1>2
    <2>2. list \in Seq(Providers) /\ order \in Seq(Providers) BY <2>1, OrderIs
    <2>3. PICK a : a = Kept(order, Range(list)) OBVIOUS
    <2>4. PICK b : b = Kept(list, Range(list) \ Range(order)) OBVIOUS
    <2>5. /\ a \in Seq(Providers) /\ Once(a) /\ Range(a) = Range(order) \cap Range(list)
          /\ b \in Seq(Providers) /\ Once(b) /\ Range(b) = Range(list) \cap (Range(list) \ Range(order))
      BY <2>1, <2>2, <2>3, <2>4, KeptRange, KeptOnce, OrderIs
    <2>6. Range(a) \cap Range(b) = {} /\ Range(a) \cup Range(b) = Range(list) BY <2>5
    <2>7. /\ a \o b \in Seq(Providers) /\ Range(a \o b) = Range(a) \cup Range(b) /\ Once(a \o b)
      BY <2>5, <2>6, ConcatOf
    <2>8. Reordered(list, order) = a \o b BY <1>2, <2>3, <2>4 DEF Reordered
    <2> QED BY <2>6, <2>7, <2>8, OrderIs
  <1> QED BY <1>1, <1>2

LEMMA WithoutOf ==
    ASSUME NEW list \in Orders, NEW p
    PROVE  Without(list, p) \in Orders /\ Range(Without(list, p)) = Range(list) \ {p}
  <1>1. list \in Seq(Providers) BY OrderIs
  <1>2. Without(list, p) \in Orders BY KeptOnce DEF Without
  <1>3. Range(Without(list, p)) = Range(list) \cap (Range(list) \ {p})
    BY <1>1, KeptRange DEF Without
  <1> QED BY <1>2, <1>3

\* The successor of p in an order is one of the providers that are available.
LEMMA NextOf ==
    ASSUME NEW order \in Orders, NEW p, NEW available, NextFrom(order, p, available) # None
    PROVE  NextFrom(order, p, available) \in available
  <1>1. order \in Seq(Providers) /\ Len(order) \in Nat BY OrderIs, LenProperties
  <1>2. PICK i : i = IF p \in Range(order) THEN IndexOf(order, p) ELSE 0 OBVIOUS
  <1>3. i \in 0..Len(order) BY <1>1, <1>2, IndexIs
  <1>4. PICK a : a = SubSeq(order, i + 1, Len(order)) OBVIOUS
  <1>5. PICK b : b = SubSeq(order, 1, i) OBVIOUS
  <1>6. /\ i + 1 \in 1..Len(order) + 1 /\ Len(order) \in 0..Len(order)
        /\ 1 \in 1..Len(order) + 1
    BY <1>1, <1>3
  <1>7. a \in Seq(Providers) /\ b \in Seq(Providers) BY <1>1, <1>3, <1>4, <1>5, <1>6, SliceOf
  <1>8. PICK round : round = a \o b OBVIOUS
  <1>9. round = RoundFrom(order, p) BY <1>2, <1>4, <1>5, <1>8 DEF RoundFrom
  <1>10. round \in Seq(Providers) BY <1>7, <1>8, ConcatOf
  <1>11. PICK hits : hits = Kept(round, available) OBVIOUS
  <1>12. hits \in Seq(Providers) /\ Range(hits) \subseteq available BY <1>10, <1>11, KeptRange
  <1>13. NextFrom(order, p, available) = IF hits = <<>> THEN None ELSE Head(hits)
    BY <1>9, <1>11 DEF NextFrom
  <1>14. hits # <<>> BY <1>13
  <1>15. Head(hits) = hits[1] /\ 1 \in 1..Len(hits)
    <2>1. Len(hits) \in Nat \ {0} BY <1>12, <1>14, EmptySeq
    <2> QED BY <1>12, <2>1
  <1>16. hits[1] \in Range(hits) BY <1>12, <1>15, RangeOf
  <1> QED BY <1>12, <1>13, <1>14, <1>15, <1>16

\* Preference rotates: it puts a bound provider of the list first, and for any other
\* leaves the list or rotates it.
LEMMA PreferredOf ==
    ASSUME NEW list \in Orders, NEW p, NEW order \in Orders \cup {None}
    PROVE  /\ \/ Preferred(list, p, order) = list
              \/ \E x \in Range(list) : Preferred(list, p, order) = RotatedTo(list, x)
           /\ p \in Range(list) => Preferred(list, p, order) = RotatedTo(list, p)
           /\ p \notin Range(list) /\ Len(list) <= 1 => Preferred(list, p, order) = list
  <1>1. CASE p \in Range(list) BY <1>1 DEF Preferred
  <1>2. CASE p \notin Range(list) /\ (order = None \/ Len(list) <= 1) BY <1>2 DEF Preferred
  <1>3. CASE p \notin Range(list) /\ ~(order = None \/ Len(list) <= 1)
    <2>1. PICK next : next = NextFrom(order, p, Range(list)) OBVIOUS
    <2>2. Preferred(list, p, order) = IF next = None THEN list ELSE RotatedTo(list, next)
      BY <1>3, <2>1 DEF Preferred
    <2>3. next # None => next \in Range(list) BY <1>3, <2>1, NextOf
    <2> QED BY <1>3, <2>2, <2>3
  <1> QED BY <1>1, <1>2, <1>3

------------------------------------------------------------------------------
(* The table of bindings: its type, its size, and the providers it keeps.     *)

\* Of the providers that sessions are bound to, none is added or changed.
Milder(t, u) ==
    \A s \in Sessions : u[s] # None =>
        u[s].provider = None \/ (t[s] # None /\ u[s].provider = t[s].provider)

\* The table is typed, and has no binding but those of B.
Within(u, B) == u \in Table /\ Bound(u) \subseteq B

LEMMA BoundFinite ==
    ASSUME NEW t
    PROVE  IsFiniteSet(Bound(t)) /\ Cardinality(Bound(t)) \in Nat
  <1>1. Bound(t) \in SUBSET Sessions BY DEF Bound
  <1>2. IsFiniteSet(Bound(t)) BY <1>1, TableAssumption, FS_Subset
  <1> QED BY <1>2, FS_CardinalityType

LEMMA Smaller ==
    ASSUME NEW t, NEW u, Bound(u) \subseteq Bound(t)
    PROVE  Cardinality(Bound(u)) <= Cardinality(Bound(t))
  BY BoundFinite, FS_Subset

LEMMA OneMore ==
    ASSUME NEW t, NEW s, NEW u, Bound(u) \subseteq Bound(t) \cup {s},
           Cardinality(Bound(t)) < MaxBindings
    PROVE  Cardinality(Bound(u)) <= MaxBindings
  <1>1. /\ IsFiniteSet(Bound(t)) /\ Cardinality(Bound(t)) \in Nat
        /\ IsFiniteSet(Bound(u)) /\ Cardinality(Bound(u)) \in Nat
    BY BoundFinite
  <1>2. IsFiniteSet(Bound(t) \cup {s}) /\ Cardinality(Bound(t) \cup {s}) <= Cardinality(Bound(t)) + 1
    BY <1>1, FS_AddElement
  <1>3. Cardinality(Bound(t) \cup {s}) \in Nat BY <1>2, FS_CardinalityType
  <1>4. Cardinality(Bound(u)) <= Cardinality(Bound(t) \cup {s}) BY <1>2, FS_Subset
  <1>5. MaxBindings \in Nat BY TableAssumption
  <1> QED BY <1>1, <1>2, <1>3, <1>4, <1>5

\* A table that changes at one session, or nowhere.
Changed(t, s, u) == u \in Table /\ \A z \in Sessions \ {s} : u[z] = t[z]

LEMMA ChangedWithin ==
    ASSUME NEW t, NEW s \in Sessions, NEW u, Changed(t, s, u)
    PROVE  /\ Within(u, Bound(t) \cup {s})
           /\ u[s] = None \/ t[s] # None => Within(u, Bound(t))
           /\ u[s] = None \/ u[s].provider = None
              \/ (t[s] # None /\ u[s].provider = t[s].provider) => Milder(t, u)
  BY DEF Changed, Within, Bound, Milder

LEMMA LiveBinding ==
    ASSUME NEW t \in Table, NEW s \in Sessions, NEW at, Live(t, s, at)
    PROVE  t[s] \in Binding /\ t[s] # None
  BY DEF Live, Table

LEMMA TouchedTyped ==
    ASSUME NEW t \in Table, NEW s \in Sessions, NEW at \in Nat
    PROVE  /\ Within(Touched(t, s, at), Bound(t)) /\ Milder(t, Touched(t, s, at))
           /\ ~Live(t, s, at) => Touched(t, s, at)[s] = None
           /\ Live(t, s, at) => Touched(t, s, at)[s].provider = t[s].provider
  <1>0. PICK u : u = Touched(t, s, at) OBVIOUS
  <1>1. CASE ~Live(t, s, at)
    <2>1. u = [t EXCEPT ![s] = None] BY <1>0, <1>1 DEF Touched
    <2>2. Changed(t, s, u) /\ u[s] = None BY <2>1 DEF Table, Changed
    <2> QED BY <1>0, <1>1, <2>2, ChangedWithin
  <1>2. CASE Live(t, s, at)
    <2>1. t[s] \in Binding /\ t[s] # None BY <1>2, LiveBinding
    <2>2. PICK b : b = [t[s] EXCEPT !.expires = at + Ttl] OBVIOUS
    <2>3. Ttl \in Nat BY TableAssumption
    <2>4. b \in Binding /\ b.provider = t[s].provider BY <2>1, <2>2, <2>3 DEF Binding
    <2>5. u = [t EXCEPT ![s] = b] BY <1>0, <1>2, <2>2 DEF Touched
    <2>6. Changed(t, s, u) /\ u[s] = b BY <2>4, <2>5 DEF Table, Changed
    <2> QED BY <1>0, <1>2, <2>1, <2>4, <2>6, ChangedWithin
  <1> QED BY <1>1, <1>2

LEMMA DroppedTyped ==
    ASSUME NEW t \in Table, NEW at
    PROVE  Within(DropExpired(t, at), Bound(t)) /\ Milder(t, DropExpired(t, at))
  <1>1. PICK u : u = DropExpired(t, at) OBVIOUS
  <1>2. u = [s \in Sessions |-> IF Live(t, s, at) THEN t[s] ELSE None] BY <1>1 DEF DropExpired
  <1>3. u \in Table /\ \A s \in Sessions : u[s] \in {t[s], None} BY <1>2 DEF Table
  <1> QED BY <1>1, <1>3 DEF Within, Bound, Milder

\* clear_bound_provider
LEMMA ClearedTyped ==
    ASSUME NEW t \in Table, NEW s \in Sessions, NEW at
    PROVE  /\ Within(ProviderCleared(t, s, at), Bound(t)) /\ Milder(t, ProviderCleared(t, s, at))
           /\ ProviderCleared(t, s, at)[s] = None \/ ProviderCleared(t, s, at)[s].provider = None
  <1>0. PICK u : u = ProviderCleared(t, s, at) OBVIOUS
  <1>1. CASE ~Live(t, s, at)
    <2>1. u = [t EXCEPT ![s] = None] BY <1>0, <1>1 DEF ProviderCleared
    <2>2. Changed(t, s, u) /\ u[s] = None BY <2>1 DEF Table, Changed
    <2> QED BY <1>0, <2>2, ChangedWithin
  <1>2. CASE Live(t, s, at)
    <2>1. t[s] \in Binding /\ t[s] # None BY <1>2, LiveBinding
    <2>2. PICK b : b = [t[s] EXCEPT !.provider = None] OBVIOUS
    <2>3. b \in Binding /\ b.provider = None BY <2>1, <2>2 DEF Binding
    <2>4. u = [t EXCEPT ![s] = b] BY <1>0, <1>2, <2>2 DEF ProviderCleared
    <2>5. Changed(t, s, u) /\ u[s] = b BY <2>3, <2>4 DEF Table, Changed
    <2> QED BY <1>0, <2>1, <2>3, <2>5, ChangedWithin
  <1> QED BY <1>1, <1>2

\* Making room leaves a free place, and takes one binding at least when it evicts.
LEMMA RoomyTyped ==
    ASSUME NEW t \in Table, Cardinality(Bound(t)) <= MaxBindings, NEW at, NEW u \in Roomy(t, at)
    PROVE  u \in Table /\ Cardinality(Bound(u)) < MaxBindings
           /\ \A s \in Sessions : u[s] \in {t[s], None}
  <1>1. PICK d : d = DropExpired(t, at) OBVIOUS
  <1>2. /\ d \in Table /\ Bound(d) \subseteq Bound(t) /\ \A s \in Sessions : d[s] \in {t[s], None}
    <2>1. d = [s \in Sessions |-> IF Live(t, s, at) THEN t[s] ELSE None] BY <1>1 DEF DropExpired
    <2> QED BY <2>1 DEF Table, Bound
  <1>3. CASE u = t /\ Cardinality(Bound(t)) < MaxBindings BY <1>3
  <1>4. CASE u = d /\ Cardinality(Bound(d)) < MaxBindings BY <1>2, <1>4
  <1>5. CASE u \in Evicted(d) /\ ~(Cardinality(Bound(d)) < MaxBindings)
    <2>1. PICK k : k = Max({Cardinality(Bound(d)) \div 4, 1}) OBVIOUS
    <2>2. PICK V \in kSubset(k, Bound(d)) : u = [s \in Sessions |-> IF s \in V THEN None ELSE d[s]]
      BY <1>5, <2>1 DEF Evicted
    <2>3. V \subseteq Bound(d) /\ Cardinality(V) = k BY <2>2 DEF kSubset
    <2>4. Cardinality(Bound(d)) \in Nat /\ IsFiniteSet(Bound(d)) BY BoundFinite
    <2>5. k >= 1
      <3>1. PICK q : q = Cardinality(Bound(d)) \div 4 OBVIOUS
      <3>2. q \in Int BY <2>4, <3>1
      <3>3. \E x \in {q, 1} : \A y \in {q, 1} : x >= y BY <3>2
      <3>4. k = Max({q, 1}) BY <2>1, <3>1
      <3>5. k \in {q, 1} /\ \A y \in {q, 1} : k >= y BY <3>3, <3>4 DEF Max
      <3> QED BY <3>5
    <2>6. IsFiniteSet(V) BY <2>3, <2>4, FS_Subset
    <2>7. V # {}
      <3>1. Cardinality({}) = 0 BY FS_EmptySet
      <3> QED BY <2>3, <2>5, <3>1
    <2>8. PICK v \in V : TRUE BY <2>7
    <2>9. /\ u \in Table /\ Bound(u) \subseteq Bound(d) \ {v}
          /\ \A s \in Sessions : u[s] \in {d[s], None}
      BY <1>2, <2>2, <2>8 DEF Table, Bound
    <2>10. v \in Bound(d) BY <2>3, <2>8
    <2>11. IsFiniteSet(Bound(d) \ {v}) /\ Cardinality(Bound(d) \ {v}) = Cardinality(Bound(d)) - 1
      BY <2>4, <2>10, FS_RemoveElement
    <2>12. Cardinality(Bound(u)) <= Cardinality(Bound(d)) - 1 BY <2>9, <2>11, FS_Subset
    <2>13. Cardinality(Bound(d)) <= Cardinality(Bound(t)) BY <1>2, Smaller
    <2>14. /\ Cardinality(Bound(t)) \in Nat /\ Cardinality(Bound(u)) \in Nat
           /\ MaxBindings \in Nat
      BY BoundFinite, TableAssumption
    <2>15. Cardinality(Bound(u)) < MaxBindings BY <2>4, <2>12, <2>13, <2>14
    <2>16. \A s \in Sessions : u[s] \in {t[s], None} BY <1>2, <2>9
    <2> QED BY <2>9, <2>15, <2>16
  <1> QED BY <1>1, <1>3, <1>4, <1>5 DEF Roomy

LEMMA FreshTyped ==
    ASSUME NEW p \in Providers \cup {None}, NEW m \in Modes \cup {None},
           NEW o \in Orders \cup {None}, NEW at \in Nat, NEW crossed \in BOOLEAN
    PROVE  Fresh(p, m, o, at, crossed) \in Binding /\ Fresh(p, m, o, at, crossed).provider = p
  <1>1. at + Ttl \in Nat BY TableAssumption
  <1> QED BY <1>1 DEF Fresh, Binding

\* bind_sort_mode
LEMMA ModeBoundTyped ==
    ASSUME NEW t \in Table, NEW s \in Sessions, NEW m \in Modes \cup {None},
           NEW o \in Orders, NEW at \in Nat, NEW crossed \in BOOLEAN
    PROVE  /\ Within(ModeBound(t, s, m, o, at, crossed), Bound(t) \cup {s})
           /\ Milder(t, ModeBound(t, s, m, o, at, crossed))
  <1>0. PICK u : u = ModeBound(t, s, m, o, at, crossed) OBVIOUS
  <1>1. CASE ~Live(t, s, at)
    <2>1. PICK b : b = Fresh(None, m, o, at, crossed) OBVIOUS
    <2>2. b \in Binding /\ b.provider = None BY <2>1, FreshTyped
    <2>3. u = [t EXCEPT ![s] = b] BY <1>0, <1>1, <2>1 DEF ModeBound
    <2>4. Changed(t, s, u) /\ u[s] = b BY <2>2, <2>3 DEF Table, Changed
    <2> QED BY <1>0, <2>2, <2>4, ChangedWithin
  <1>2. CASE Live(t, s, at)
    <2>1. t[s] \in Binding /\ t[s] # None BY <1>2, LiveBinding
    <2>2. PICK order : order = IF t[s].order = None THEN o ELSE t[s].order OBVIOUS
    <2>3. PICK x \in BOOLEAN : x = (t[s].crossed \/ (t[s].order = None /\ crossed)) OBVIOUS
    <2>4. PICK b : b = [t[s] EXCEPT !.expires = at + Ttl, !.order = order, !.crossed = x] OBVIOUS
    <2>5. order \in Orders \cup {None} BY <2>1, <2>2 DEF Binding
    <2>6. at + Ttl \in Nat BY TableAssumption
    <2>7. b \in Binding /\ b.provider = t[s].provider BY <2>1, <2>4, <2>5, <2>6 DEF Binding
    <2>8. u = [t EXCEPT ![s] = b] BY <1>0, <1>2, <2>2, <2>3, <2>4 DEF ModeBound
    <2>9. Changed(t, s, u) /\ u[s] = b BY <2>7, <2>8 DEF Table, Changed
    <2> QED BY <1>0, <2>1, <2>7, <2>9, ChangedWithin
  <1> QED BY <1>1, <1>2

BoundTo(t, s, p, u) == Changed(t, s, u) /\ u[s].provider = p

\* bind_success
LEMMA SuccessBoundTyped ==
    ASSUME NEW t \in Table, NEW s \in Sessions, NEW p \in Providers, NEW m \in Modes \cup {None},
           NEW at \in Nat, NEW crossed \in BOOLEAN
    PROVE  BoundTo(t, s, p, SuccessBound(t, s, p, m, at, crossed))
  <1>1. PICK u : u = SuccessBound(t, s, p, m, at, crossed) OBVIOUS
  <1>2. CASE ~Live(t, s, at)
    <2>1. PICK b : b = Fresh(p, m, None, at, crossed) OBVIOUS
    <2>2. b \in Binding /\ b.provider = p BY <2>1, FreshTyped
    <2>3. u = [t EXCEPT ![s] = b] BY <1>1, <1>2, <2>1 DEF SuccessBound
    <2>4. Changed(t, s, u) /\ u[s] = b BY <2>2, <2>3 DEF Table, Changed
    <2> QED BY <1>1, <2>2, <2>4 DEF BoundTo
  <1>3. CASE Live(t, s, at)
    <2>1. t[s] \in Binding /\ t[s] # None BY <1>3, LiveBinding
    <2>2. PICK mode : mode = IF t[s].mode = None THEN m ELSE t[s].mode OBVIOUS
    <2>3. PICK x \in BOOLEAN : x = (t[s].crossed \/ (t[s].mode = None /\ crossed)) OBVIOUS
    <2>4. PICK b : b = [t[s] EXCEPT !.provider = p, !.expires = at + Ttl, !.mode = mode,
                                    !.crossed = x]
      OBVIOUS
    <2>5. mode \in Modes \cup {None} BY <2>1, <2>2 DEF Binding
    <2>6. at + Ttl \in Nat BY TableAssumption
    <2>7. b \in Binding /\ b.provider = p BY <2>1, <2>4, <2>5, <2>6 DEF Binding
    <2>8. u = [t EXCEPT ![s] = b] BY <1>1, <1>3, <2>2, <2>3, <2>4 DEF SuccessBound
    <2>9. Changed(t, s, u) /\ u[s] = b BY <2>7, <2>8 DEF Table, Changed
    <2> QED BY <1>1, <2>7, <2>9 DEF BoundTo
  <1> QED BY <1>2, <1>3

------------------------------------------------------------------------------
(* The candidates of a request.                                               *)

\* What CandidatesInRouteOrder says of a request that is ready, by the list and the
\* order it read, whom it forced, whom its session was bound to, and its candidates.
RightOrder(list, order, forced, bound, reuse, c) ==
    /\ \/ forced = None /\ Range(c) = Range(list)
       \/ forced = None /\ bound # None /\ reuse /\ Range(c) = Range(list) \ {bound}
       \/ forced \in Range(list) /\ c = <<forced>>
    /\ forced = None => c = RotatedTo(Kept(Reordered(list, order), Range(c)), Head(c))

LEMMA UnforcedOrder ==
    ASSUME NEW list \in Orders, NEW order \in Orders \cup {None}, NEW bound, NEW reuse \in BOOLEAN,
           NEW R, R = Reordered(list, order), NEW c, c # <<>>,
           \/ c = R
           \/ \E x \in Range(R) : c = RotatedTo(R, x)
           \/ bound # None /\ reuse /\ c = Without(R, bound)
    PROVE  c \in Orders /\ RightOrder(list, order, None, bound, reuse, c)
  <1>1. R \in Orders /\ Range(R) = Range(list) BY ReorderedOf
  <1>2. R \in Seq(Providers) BY <1>1, OrderIs
  <1>3. CASE c = R
    <2>1. Kept(R, Range(R)) = R BY <1>2, KeptAll
    <2>2. RotatedTo(c, Head(c)) = c BY <1>1, <1>3, RotationToFirst
    <2> QED BY <1>1, <1>3, <2>1, <2>2 DEF RightOrder
  <1>4. CASE \E x \in Range(R) : c = RotatedTo(R, x)
    <2>1. PICK x \in Range(R) : c = RotatedTo(R, x) BY <1>4
    <2>2. c \in Orders /\ Range(c) = Range(R) /\ Head(c) = x BY <1>1, <2>1, Rotation
    <2>3. Kept(R, Range(c)) = R BY <1>2, <2>2, KeptAll
    <2> QED BY <1>1, <2>1, <2>2, <2>3 DEF RightOrder
  <1>5. CASE bound # None /\ reuse /\ c = Without(R, bound)
    <2>1. c \in Orders /\ Range(c) = Range(R) \ {bound} BY <1>1, <1>5, WithoutOf
    <2>2. Kept(R, Range(c)) = c BY <1>5, <2>1 DEF Without
    <2>3. RotatedTo(c, Head(c)) = c BY <2>1, RotationToFirst
    <2> QED BY <1>1, <1>5, <2>1, <2>2, <2>3 DEF RightOrder
  <1> QED BY <1>3, <1>4, <1>5

\* What a step must leave of a request: a request of the type, with a session where it
\* reads the table, and with the candidates that its list and its order give.
Routed(q) ==
    /\ q.pc \in {"mode", "active", "list", "bind", "order"} => q.order = None
    /\ q.pc \in {"provider", "resolve"} => q.candidates = Reordered(q.list, q.order)
    /\ q.pc = "resolve" => q.forced = None /\ q.reuse /\ q.bound # None
    /\ Ready(q) => RightOrder(q.list, q.order, q.forced, q.bound, q.reuse, q.candidates)

Proper(q) ==
    /\ q \in Request
    /\ q.pc \in {"mode", "bind", "order", "resolve"} => q.session # None
    /\ q.pc = "insert" => q.answer \in Entry
    /\ Routed(q)

\* The inductive form of TypeOK: types alone do not say whose candidates a request has.
TInv == TypeOK /\ \A r \in Requests : Proper(req[r])

LEMMA ProperIs ==
    ASSUME TInv, NEW r \in Requests
    PROVE  Proper(req[r]) /\ req[r] \in Request
  BY DEF TInv, Proper

\* A request's fields, one by one.
LEMMA Fields ==
    ASSUME NEW q \in Request
    PROVE  /\ q.session \in Sessions \cup {None} /\ q.reuse \in BOOLEAN
           /\ q.forced \in Providers \cup {None} /\ q.at \in Nat /\ q.mode \in AllModes
           /\ q.list \in Orders /\ q.order \in Orders \cup {None}
           /\ q.bound \in Providers \cup {None} /\ q.candidates \in Orders
           /\ q.crossed \in BOOLEAN /\ q.answer \in Entry \cup {None}
  BY DEF Request

\* A request with its candidates, past the guard on an empty list.
LEMMA ResolvedProper ==
    ASSUME NEW q \in Request, NEW c \in Orders,
           c # <<>> => RightOrder(q.list, q.order, q.forced, q.bound, q.reuse, c)
    PROVE  Proper(Resolved(q, c))
  <1>1. PICK pc : pc = IF c = <<>> THEN "done" ELSE "check" OBVIOUS
  <1>2. PICK outcome : outcome = IF c = <<>> THEN "none" ELSE None OBVIOUS
  <1>3. PICK t : t = [q EXCEPT !.candidates = c, !.pc = pc, !.outcome = outcome] OBVIOUS
  <1>4. t = Resolved(q, c) BY <1>1, <1>2, <1>3 DEF Resolved
  <1>5. pc \in {"done", "check"} /\ outcome \in {"none", None} BY <1>1, <1>2
  <1>6. /\ t \in Request /\ t.pc = pc /\ t.candidates = c /\ t.list = q.list
        /\ t.order = q.order /\ t.forced = q.forced /\ t.bound = q.bound /\ t.reuse = q.reuse
    BY <1>3, <1>5 DEF Request, Outcomes
  <1>7. c = <<>> => pc = "done" BY <1>1
  <1>8. Routed(t) BY <1>5, <1>6, <1>7 DEF Routed, Ready
  <1> QED BY <1>4, <1>5, <1>6, <1>8 DEF Proper

LEMMA ProperStep ==
    ASSUME TInv, NEW r \in Requests, NEW q, req' = [req EXCEPT ![r] = q], Proper(q),
           UNCHANGED <<now, edits, active, lists, denied, command>>,
           bindings' \in Table, Cardinality(Bound(bindings')) <= MaxBindings,
           recent' \in [Keys -> Entry \cup {None}],
           last' \in [Sessions -> Providers \cup {None}]
    PROVE  TInv'
  <1>1. q \in Request /\ req \in [Requests -> Request] BY DEF Proper, TInv, TypeOK
  <1>2. req' \in [Requests -> Request] /\ \A z \in Requests : req'[z] = IF z = r THEN q ELSE req[z]
    BY <1>1
  <1>3. \A z \in Requests : Proper(req'[z]) BY <1>2 DEF TInv
  <1>4. TypeOK' BY <1>2 DEF TInv, TypeOK
  <1> QED BY <1>3, <1>4 DEF TInv

\* A step that moves a request on and leaves the rest.
LEMMA ProperMove ==
    ASSUME TInv, NEW r \in Requests, NEW q, req' = [req EXCEPT ![r] = q], Proper(q),
           UNCHANGED <<now, active, lists, denied, bindings, recent, command, edits, last>>
    PROVE  TInv'
  <1>1. /\ bindings' \in Table /\ Cardinality(Bound(bindings')) <= MaxBindings
        /\ recent' \in [Keys -> Entry \cup {None}]
        /\ last' \in [Sessions -> Providers \cup {None}]
    BY DEF TInv, TypeOK
  <1> QED BY <1>1, ProperStep

\* A step that moves a request on and takes bindings away, if it changes them.
LEMMA ProperTouch ==
    ASSUME TInv, NEW r \in Requests, NEW q, req' = [req EXCEPT ![r] = q], Proper(q),
           UNCHANGED <<now, active, lists, denied, recent, command, edits, last>>,
           Within(bindings', Bound(bindings))
    PROVE  TInv'
  <1>1. /\ recent' \in [Keys -> Entry \cup {None}]
        /\ last' \in [Sessions -> Providers \cup {None}]
        /\ Cardinality(Bound(bindings)) <= MaxBindings
    BY DEF TInv, TypeOK
  <1>2. bindings' \in Table /\ Bound(bindings') \subseteq Bound(bindings) BY DEF Within
  <1>3. PICK b : b = bindings' OBVIOUS
  <1>4. Cardinality(Bound(b)) <= Cardinality(Bound(bindings)) BY <1>2, <1>3, Smaller
  <1>5. /\ Cardinality(Bound(b)) \in Nat /\ Cardinality(Bound(bindings)) \in Nat
        /\ MaxBindings \in Nat
    BY BoundFinite, TableAssumption
  <1>6. Cardinality(Bound(bindings')) <= MaxBindings BY <1>1, <1>3, <1>4, <1>5
  <1> QED BY <1>1, <1>2, <1>6, ProperStep

LEMMA StartTyped ==
    ASSUME TInv, NEW r \in Requests, Start(r)
    PROVE  TInv'
  <1>1. PICK call \in Calls :
         req' = [req EXCEPT ![r] =
            [Idle EXCEPT !.pc = IF call.session = None THEN "active" ELSE "mode",
                         !.session = call.session, !.reuse = call.reuse,
                         !.forced = call.forced, !.at = now, !.crossed = UnderWay]]
    BY DEF Start
  <1>2. PICK pc : pc = IF call.session = None THEN "active" ELSE "mode" OBVIOUS
  <1>3. PICK q : q = [Idle EXCEPT !.pc = pc, !.session = call.session, !.reuse = call.reuse,
                         !.forced = call.forced, !.at = now, !.crossed = UnderWay]
    OBVIOUS
  <1>4. q = [pc |-> pc, session |-> call.session, reuse |-> call.reuse,
             forced |-> call.forced, at |-> now, mode |-> None, list |-> <<>>,
             order |-> None, bound |-> None, candidates |-> <<>>, crossed |-> UnderWay,
             outcome |-> None, answer |-> None]
    BY <1>3 DEF Idle
  <1>5. /\ call.session \in Sessions \cup {None} /\ call.reuse \in BOOLEAN
        /\ call.forced \in Providers \cup {None}
    BY RoutingAssumption
  <1>6. now \in Nat /\ UnderWay \in BOOLEAN BY DEF TInv, TypeOK, UnderWay
  <1>7. pc \in {"active", "mode"} /\ (pc = "mode" => call.session # None) BY <1>2
  <1>8. q \in Request BY <1>4, <1>5, <1>6, <1>7, EmptyOrder DEF Request, AllModes
  <1>9. q.pc = pc /\ q.session = call.session /\ q.order = None BY <1>4
  <1>10. Proper(q) BY <1>7, <1>8, <1>9 DEF Proper, Routed, Ready
  <1>11. req' = [req EXCEPT ![r] = q] BY <1>1, <1>2, <1>3
  <1>12. UNCHANGED <<now, active, lists, denied, bindings, recent, command, edits, last>>
    BY DEF Start
  <1> QED BY <1>10, <1>11, <1>12, ProperMove

LEMMA ReadModeTyped ==
    ASSUME TInv, NEW r \in Requests, ReadMode(r)
    PROVE  TInv'
  <1>1. PICK q : q = req[r] OBVIOUS
  <1>2. q.pc = "mode" /\ Proper(q) /\ q \in Request BY <1>1, ProperIs DEF ReadMode
  <1>3. /\ q.session \in Sessions /\ q.at \in Nat /\ q.order = None /\ q.crossed \in BOOLEAN
        /\ bindings \in Table
    BY <1>2, Fields DEF Proper, Routed, TInv, TypeOK
  <1>4. bindings' = Touched(bindings, q.session, q.at)
        /\ UNCHANGED <<now, active, lists, denied, recent, command, edits, last>>
    BY <1>1 DEF ReadMode
  <1>5. Within(bindings', Bound(bindings)) BY <1>3, <1>4, TouchedTyped
  <1>6. CASE Live(bindings, q.session, q.at)
    <2>1. PICK b : b = bindings[q.session] OBVIOUS
    <2>2. b \in Binding BY <1>3, <1>6, <2>1, LiveBinding
    <2>3. b.mode \in AllModes /\ b.crossed \in BOOLEAN BY <2>2 DEF Binding, AllModes
    <2>4. PICK x \in BOOLEAN : x = (q.crossed \/ b.crossed) BY <1>3, <2>3
    <2>5. PICK t : t = [q EXCEPT !.pc = "list", !.mode = b.mode, !.crossed = x] OBVIOUS
    <2>6. req' = [req EXCEPT ![r] = t] BY <1>1, <1>6, <2>1, <2>4, <2>5 DEF ReadMode
    <2>7. t \in Request /\ t.pc = "list" /\ t.order = q.order BY <1>2, <2>3, <2>5 DEF Request
    <2>8. Proper(t) BY <1>3, <2>7 DEF Proper, Routed, Ready
    <2> QED BY <1>4, <1>5, <2>6, <2>8, ProperTouch
  <1>7. CASE ~Live(bindings, q.session, q.at)
    <2>1. PICK t : t = [q EXCEPT !.pc = "active"] OBVIOUS
    <2>2. req' = [req EXCEPT ![r] = t] BY <1>1, <1>7, <2>1 DEF ReadMode
    <2>3. t \in Request /\ t.pc = "active" /\ t.order = q.order BY <1>2, <2>1 DEF Request
    <2>4. Proper(t) BY <1>3, <2>3 DEF Proper, Routed, Ready
    <2> QED BY <1>4, <1>5, <2>2, <2>4, ProperTouch
  <1> QED BY <1>6, <1>7

LEMMA ReadActiveTyped ==
    ASSUME TInv, NEW r \in Requests, ReadActive(r)
    PROVE  TInv'
  <1>1. PICK q : q = req[r] OBVIOUS
  <1>2. q.pc = "active" /\ Proper(q) /\ q \in Request BY <1>1, ProperIs DEF ReadActive
  <1>3. active \in AllModes /\ req \in [Requests -> Request] BY DEF TInv, TypeOK
  <1>4. PICK t : t = [q EXCEPT !.pc = "list", !.mode = active] OBVIOUS
  <1>5. req' = [req EXCEPT ![r] = t] BY <1>1, <1>3, <1>4 DEF ReadActive
  <1>6. t \in Request /\ t.pc = "list" /\ t.order = q.order BY <1>2, <1>3, <1>4 DEF Request
  <1>7. Proper(t) BY <1>2, <1>6 DEF Proper, Routed, Ready
  <1>8. UNCHANGED <<now, active, lists, denied, bindings, recent, command, edits, last>>
    BY DEF ReadActive
  <1> QED BY <1>5, <1>7, <1>8, ProperMove

LEMMA ReadListTyped ==
    ASSUME TInv, NEW r \in Requests, ReadList(r)
    PROVE  TInv'
  <1>1. PICK q : q = req[r] OBVIOUS
  <1>2. q.pc = "list" /\ Proper(q) /\ q \in Request BY <1>1, ProperIs DEF ReadList
  <1>3. PICK list : list = lists[q.mode] OBVIOUS
  <1>4. q.mode \in AllModes /\ q.order = None BY <1>2, Fields DEF Proper, Routed
  <1>5. list \in Orders BY <1>3, <1>4 DEF TInv, TypeOK
  <1>6. PICK pc : pc = IF q.session = None THEN "provider" ELSE "bind" OBVIOUS
  <1>7. PICK t : t = [q EXCEPT !.list = list, !.candidates = list, !.pc = pc] OBVIOUS
  <1>8. req' = [req EXCEPT ![r] = t] BY <1>1, <1>3, <1>6, <1>7 DEF ReadList
  <1>9. pc \in {"provider", "bind"} /\ (pc = "bind" => q.session # None) BY <1>6
  <1>10. /\ t \in Request /\ t.pc = pc /\ t.order = None /\ t.session = q.session
         /\ t.list = list /\ t.candidates = list
    BY <1>2, <1>4, <1>5, <1>7, <1>9 DEF Request
  <1>11. Reordered(list, None) = list BY DEF Reordered
  <1>12. Proper(t) BY <1>9, <1>10, <1>11 DEF Proper, Routed, Ready
  <1>13. UNCHANGED <<now, active, lists, denied, bindings, recent, command, edits, last>>
    BY DEF ReadList
  <1> QED BY <1>8, <1>12, <1>13, ProperMove

LEMMA BindModeTyped ==
    ASSUME TInv, NEW r \in Requests, BindMode(r)
    PROVE  TInv'
  <1>1. PICK q : q = req[r] OBVIOUS
  <1>2. q.pc = "bind" /\ Proper(q) /\ q \in Request BY <1>1, ProperIs DEF BindMode
  <1>3. /\ q.session \in Sessions /\ q.at \in Nat /\ q.order = None /\ q.crossed \in BOOLEAN
        /\ q.mode \in Modes \cup {None} /\ q.list \in Orders
    BY <1>2, Fields DEF Proper, Routed, AllModes
  <1>4. bindings \in Table /\ Cardinality(Bound(bindings)) <= MaxBindings BY DEF TInv, TypeOK
  <1>5. PICK u \in Roomy(bindings, q.at) :
            bindings' = ModeBound(u, q.session, q.mode, q.list, q.at, q.crossed)
    BY <1>1 DEF BindMode
  <1>6. u \in Table /\ Cardinality(Bound(u)) < MaxBindings BY <1>4, RoomyTyped
  <1>7. Within(bindings', Bound(u) \cup {q.session}) BY <1>3, <1>5, <1>6, ModeBoundTyped
  <1>8. bindings' \in Table /\ Cardinality(Bound(bindings')) <= MaxBindings
    <2>1. PICK b : b = bindings' OBVIOUS
    <2>2. b \in Table /\ Bound(b) \subseteq Bound(u) \cup {q.session} BY <1>7, <2>1 DEF Within
    <2>3. Cardinality(Bound(b)) <= MaxBindings BY <1>6, <2>2, OneMore
    <2> QED BY <2>1, <2>2, <2>3
  <1>9. PICK t : t = [q EXCEPT !.pc = "order"] OBVIOUS
  <1>10. req' = [req EXCEPT ![r] = t] BY <1>1, <1>9 DEF BindMode
  <1>11. t \in Request /\ t.pc = "order" /\ t.order = None /\ t.session = q.session
    BY <1>2, <1>3, <1>9 DEF Request
  <1>12. Proper(t) BY <1>2, <1>11 DEF Proper, Routed, Ready
  <1>13. UNCHANGED <<now, active, lists, denied, recent, command, edits, last>>
    BY DEF BindMode
  <1>14. /\ recent' \in [Keys -> Entry \cup {None}]
         /\ last' \in [Sessions -> Providers \cup {None}]
    BY <1>13 DEF TInv, TypeOK
  <1> QED BY <1>8, <1>10, <1>12, <1>13, <1>14, ProperStep

LEMMA ReadOrderTyped ==
    ASSUME TInv, NEW r \in Requests, ReadOrder(r)
    PROVE  TInv'
  <1>1. PICK q : q = req[r] OBVIOUS
  <1>2. q.pc = "order" /\ Proper(q) /\ q \in Request BY <1>1, ProperIs DEF ReadOrder
  <1>3. q.session \in Sessions /\ q.at \in Nat /\ q.list \in Orders /\ bindings \in Table
    BY <1>2, Fields DEF Proper, TInv, TypeOK
  <1>4. PICK order : order = IF Live(bindings, q.session, q.at)
                             THEN bindings[q.session].order ELSE None
    OBVIOUS
  <1>5. order \in Orders \cup {None} BY <1>3, <1>4, LiveBinding DEF Binding
  <1>6. PICK c : c = Reordered(q.list, order) OBVIOUS
  <1>7. c \in Orders BY <1>3, <1>5, <1>6, ReorderedOf
  <1>8. PICK t : t = [q EXCEPT !.pc = "provider", !.order = order, !.candidates = c] OBVIOUS
  <1>9. req' = [req EXCEPT ![r] = t] BY <1>1, <1>4, <1>6, <1>8 DEF ReadOrder
  <1>10. /\ t \in Request /\ t.pc = "provider" /\ t.order = order /\ t.candidates = c
         /\ t.list = q.list
    BY <1>2, <1>5, <1>7, <1>8 DEF Request
  <1>11. Proper(t) BY <1>6, <1>10 DEF Proper, Routed, Ready
  <1>12. bindings' = Touched(bindings, q.session, q.at)
         /\ UNCHANGED <<now, active, lists, denied, recent, command, edits, last>>
    BY <1>1 DEF ReadOrder
  <1>13. Within(bindings', Bound(bindings)) BY <1>3, <1>12, TouchedTyped
  <1> QED BY <1>9, <1>11, <1>12, <1>13, ProperTouch

\* A list of one provider or of none is left as it is.
LEMMA PreferredShort ==
    ASSUME NEW f \in Providers, NEW list \in {<<f>>, <<>>}, NEW p, NEW order \in Orders \cup {None}
    PROVE  Preferred(list, p, order) = list
  <1>1. /\ <<f>> \in Orders /\ Range(<<f>>) = {f} /\ Len(<<f>>) = 1 /\ Head(<<f>>) = f
        /\ <<f>> # <<>>
    BY OneProvider
  <1>2. <<>> \in Orders /\ Range(<<>>) = {} /\ Len(<<>>) = 0 BY EmptyOrder
  <1>3. CASE p \notin Range(list)
    <2>1. list = <<f>> => Len(list) = 1 BY <1>1
    <2>2. list = <<>> => Len(list) = 0 BY <1>2
    <2>3. Len(list) <= 1 BY <2>1, <2>2
    <2> QED BY <1>3, <2>3 DEF Preferred
  <1>4. CASE p \in Range(list)
    <2>1. list = <<f>> /\ p = f BY <1>1, <1>2, <1>4
    <2>2. RotatedTo(<<f>>, f) = <<f>> BY <1>1, RotationToFirst
    <2>3. Preferred(list, p, order) = RotatedTo(list, p) BY <1>4 DEF Preferred
    <2> QED BY <2>1, <2>2, <2>3
  <1> QED BY <1>3, <1>4

LEMMA ForcedProper ==
    ASSUME NEW q \in Request, q.forced # None, q.candidates = Reordered(q.list, q.order), NEW p
    PROVE  Proper(WithPreference(q, Forced(q.candidates, q.forced), p))
  <1>1. PICK f : f = q.forced OBVIOUS
  <1>2. PICK left : left = Forced(q.candidates, f) OBVIOUS
  <1>3. f \in Providers /\ q.list \in Orders /\ q.order \in Orders \cup {None}
    BY <1>1, Fields
  <1>4. Range(q.candidates) = Range(q.list) BY <1>3, ReorderedOf
  <1>5. left = IF f \in Range(q.list) THEN <<f>> ELSE <<>> BY <1>1, <1>2, <1>4 DEF Forced
  <1>6. Preferred(left, p, q.order) = left BY <1>3, <1>5, PreferredShort
  <1>7. left \in Orders BY <1>3, <1>5, OneProvider, EmptyOrder
  <1>8. left # <<>> => RightOrder(q.list, q.order, q.forced, q.bound, q.reuse, left)
    BY <1>1, <1>5 DEF RightOrder
  <1>9. WithPreference(q, left, p) = Resolved(q, left) BY <1>6 DEF WithPreference
  <1>10. Proper(Resolved(q, left)) BY <1>7, <1>8, ResolvedProper
  <1> QED BY <1>1, <1>2, <1>9, <1>10

\* Candidates that are the reordered list, rotated or not, or without a bound provider.
LEMMA UnforcedProper ==
    ASSUME NEW q \in Request, q.forced = None, q.candidates = Reordered(q.list, q.order), NEW c,
           \/ c = q.candidates
           \/ \E x \in Range(q.candidates) : c = RotatedTo(q.candidates, x)
           \/ q.bound # None /\ q.reuse /\ c = Without(q.candidates, q.bound)
    PROVE  Proper(Resolved(q, c))
  <1>1. PICK R : R = q.candidates OBVIOUS
  <1>2. /\ q.list \in Orders /\ q.order \in Orders \cup {None} /\ q.reuse \in BOOLEAN
        /\ q.candidates \in Orders
    BY Fields
  <1>3. \/ c = R
        \/ \E x \in Range(R) : c = RotatedTo(R, x)
        \/ q.bound # None /\ q.reuse /\ c = Without(R, q.bound)
    BY <1>1
  <1>4. c # <<>> => c \in Orders /\ RightOrder(q.list, q.order, q.forced, q.bound, q.reuse, c)
    BY <1>1, <1>2, <1>3, UnforcedOrder
  <1>5. c \in Orders BY <1>4, EmptyOrder
  <1> QED BY <1>4, <1>5, ResolvedProper

LEMMA ReadProviderTyped ==
    ASSUME TInv, NEW r \in Requests, ReadProvider(r)
    PROVE  TInv'
  <1>1. PICK q : q = req[r] OBVIOUS
  <1>2. q.pc = "provider" /\ Proper(q) /\ q \in Request BY <1>1, ProperIs DEF ReadProvider
  <1>3. /\ q.session \in Sessions \cup {None} /\ q.at \in Nat /\ q.reuse \in BOOLEAN
        /\ q.candidates = Reordered(q.list, q.order) /\ bindings \in Table
    BY <1>2, Fields DEF Proper, Routed, TInv, TypeOK
  <1>4. PICK bound : bound = IF q.session # None /\ Live(bindings, q.session, q.at)
                             THEN bindings[q.session].provider ELSE None
    OBVIOUS
  <1>5. bound \in Providers \cup {None} /\ (bound # None => q.session # None)
    BY <1>3, <1>4, LiveBinding DEF Binding
  <1>6. /\ bindings' = (IF q.session = None THEN bindings ELSE Touched(bindings, q.session, q.at))
        /\ UNCHANGED <<now, active, lists, denied, recent, command, edits, last>>
    BY <1>1 DEF ReadProvider
  <1>7. Within(bindings', Bound(bindings))
    <2>1. CASE q.session = None BY <1>3, <1>6, <2>1 DEF Within
    <2>2. CASE q.session # None BY <1>3, <1>6, <2>2, TouchedTyped
    <2> QED BY <2>1, <2>2
  <1>8. req' = [req EXCEPT ![r] =
          IF q.reuse /\ q.forced = None /\ bound # None
          THEN [q EXCEPT !.pc = "resolve", !.bound = bound]
          ELSE WithPreference(q, Forced(q.candidates, q.forced), bound)]
    BY <1>1, <1>4 DEF ReadProvider
  <1>9. CASE q.reuse /\ q.forced = None /\ bound # None
    <2>1. PICK t : t = [q EXCEPT !.pc = "resolve", !.bound = bound] OBVIOUS
    <2>2. req' = [req EXCEPT ![r] = t] BY <1>8, <1>9, <2>1
    <2>3. /\ t \in Request /\ t.pc = "resolve" /\ t.bound = bound /\ t.session = q.session
          /\ t.forced = q.forced /\ t.reuse = q.reuse /\ t.candidates = q.candidates
          /\ t.list = q.list /\ t.order = q.order
      BY <1>2, <1>5, <2>1 DEF Request
    <2>4. Proper(t) BY <1>3, <1>5, <1>9, <2>3 DEF Proper, Routed, Ready
    <2> QED BY <1>6, <1>7, <2>2, <2>4, ProperTouch
  <1>10. CASE ~(q.reuse /\ q.forced = None /\ bound # None)
    <2>1. PICK t : t = WithPreference(q, Forced(q.candidates, q.forced), bound) OBVIOUS
    <2>2. req' = [req EXCEPT ![r] = t] BY <1>8, <1>10, <2>1
    <2>3. CASE q.forced # None
      <3>1. Proper(t) BY <1>2, <1>3, <2>1, <2>3, ForcedProper
      <3> QED BY <1>6, <1>7, <2>2, <3>1, ProperTouch
    <2>4. CASE q.forced = None
      <3>1. Forced(q.candidates, q.forced) = q.candidates BY <2>4 DEF Forced
      <3>2. t = Resolved(q, q.candidates) BY <1>10, <2>1, <2>4, <3>1 DEF WithPreference
      <3>3. Proper(t) BY <1>2, <1>3, <2>4, <3>2, UnforcedProper
      <3> QED BY <1>6, <1>7, <2>2, <3>3, ProperTouch
    <2> QED BY <2>3, <2>4
  <1> QED BY <1>9, <1>10

\* What is known of a request that resolves its bound provider.
LEMMA Resolving ==
    ASSUME TInv, NEW r \in Requests, req[r].pc = "resolve"
    PROVE  /\ req[r] \in Request /\ req[r].session \in Sessions /\ req[r].at \in Nat
           /\ req[r].forced = None /\ req[r].reuse /\ req[r].bound # None
           /\ req[r].candidates = Reordered(req[r].list, req[r].order)
           /\ req[r].candidates \in Orders /\ req[r].order \in Orders \cup {None}
           /\ bindings \in Table
  <1>1. PICK q : q = req[r] OBVIOUS
  <1>2. Proper(q) /\ q \in Request /\ q.pc = "resolve" BY <1>1, ProperIs
  <1>3. /\ q.session \in Sessions \cup {None} /\ q.at \in Nat /\ q.candidates \in Orders
        /\ q.order \in Orders \cup {None}
    BY <1>2, Fields
  <1>4. bindings \in Table BY DEF TInv, TypeOK
  <1>5. /\ q.session # None /\ q.forced = None /\ q.reuse /\ q.bound # None
        /\ q.candidates = Reordered(q.list, q.order)
    BY <1>2 DEF Proper, Routed
  <1> QED BY <1>1, <1>2, <1>3, <1>4, <1>5

LEMMA ClearStaleTyped ==
    ASSUME TInv, NEW r \in Requests, ClearStale(r)
    PROVE  TInv'
  <1>1. PICK q : q = req[r] OBVIOUS
  <1>2. /\ q \in Request /\ q.session \in Sessions /\ q.forced = None /\ q.bound # None
        /\ q.candidates = Reordered(q.list, q.order) /\ q.candidates \in Orders
        /\ q.order \in Orders \cup {None} /\ q.reuse /\ bindings \in Table
    BY <1>1, Resolving DEF ClearStale
  <1>3. PICK c : c = Preferred(q.candidates, q.bound, q.order) OBVIOUS
  <1>4. PICK t : t = Resolved(q, c) OBVIOUS
  <1>5. t = WithPreference(q, q.candidates, q.bound) BY <1>2, <1>3, <1>4 DEF WithPreference
  <1>6. c = q.candidates \/ \E x \in Range(q.candidates) : c = RotatedTo(q.candidates, x)
    BY <1>2, <1>3, PreferredOf
  <1>7. Proper(t) BY <1>2, <1>4, <1>6, UnforcedProper
  <1>8. /\ bindings' = ProviderCleared(bindings, q.session, q.at)
        /\ req' = [req EXCEPT ![r] = t]
        /\ UNCHANGED <<now, active, lists, denied, recent, command, edits, last>>
    BY <1>1, <1>5 DEF ClearStale
  <1>9. Within(bindings', Bound(bindings)) BY <1>2, <1>8, ClearedTyped
  <1> QED BY <1>7, <1>8, <1>9, ProperTouch

LEMMA GateBoundTyped ==
    ASSUME TInv, NEW r \in Requests, GateBound(r)
    PROVE  TInv'
  <1>1. PICK q : q = req[r] OBVIOUS
  <1>2. /\ q \in Request /\ q.forced = None /\ q.bound # None /\ q.reuse
        /\ q.candidates = Reordered(q.list, q.order) /\ q.candidates \in Orders
        /\ q.order \in Orders \cup {None} /\ q.bound \in Range(q.candidates)
    BY <1>1, Resolving DEF GateBound
  <1>3. PICK c : c = IF q.bound \in denied THEN Without(q.candidates, q.bound)
                     ELSE RotatedTo(q.candidates, q.bound)
    OBVIOUS
  <1>4. PICK t : t = Resolved(q, c) OBVIOUS
  <1>5. Preferred(q.candidates, q.bound, q.order) = RotatedTo(q.candidates, q.bound)
    BY <1>2, PreferredOf
  <1>6. q.bound \notin denied => t = WithPreference(q, q.candidates, q.bound)
    BY <1>2, <1>3, <1>4, <1>5 DEF WithPreference
  <1>7. Proper(t) BY <1>2, <1>3, <1>4, UnforcedProper
  <1>8. /\ req' = [req EXCEPT ![r] = t]
        /\ UNCHANGED <<now, active, lists, denied, bindings, recent, command, edits, last>>
    BY <1>1, <1>3, <1>4, <1>6 DEF GateBound
  <1> QED BY <1>7, <1>8, ProperMove

LEMMA PrunedTyped ==
    ASSUME TInv, NEW at
    PROVE  Pruned(at) \in [Keys -> Entry \cup {None}]
  <1>1. recent \in [Keys -> Entry \cup {None}] BY DEF TInv, TypeOK
  <1>2. \A k \in Keys : (IF recent[k] # None /\ recent[k].expires > at THEN recent[k] ELSE None)
                          \in Entry \cup {None}
    BY <1>1
  <1> QED BY <1>2 DEF Pruned

\* A request that ends keeps its fields.
LEMMA DoneProper ==
    ASSUME NEW q, Proper(q), NEW outcome \in Outcomes
    PROVE  Proper([q EXCEPT !.pc = "done", !.outcome = outcome])
  <1>1. PICK t : t = [q EXCEPT !.pc = "done", !.outcome = outcome] OBVIOUS
  <1>2. q \in Request BY DEF Proper
  <1>3. t \in Request /\ t.pc = "done" BY <1>1, <1>2 DEF Request
  <1>4. Routed(t) BY <1>3 DEF Routed, Ready
  <1> QED BY <1>1, <1>3, <1>4 DEF Proper

LEMMA CheckCacheTyped ==
    ASSUME TInv, NEW r \in Requests, CheckCache(r)
    PROVE  TInv'
  <1>1. PICK q : q = req[r] OBVIOUS
  <1>2. q.pc = "check" /\ Proper(q) /\ q \in Request BY <1>1, ProperIs DEF CheckCache
  <1>3. q.session \in Sessions \cup {None} /\ q.mode \in AllModes BY <1>2, Fields
  <1>4. RequestKey(q.session) \in Keys /\ RouteKey(q.mode) \in Keys BY <1>3 DEF Keys
  <1>5. PICK pruned : pruned = Pruned(now) OBVIOUS
  <1>6. pruned \in [Keys -> Entry \cup {None}] BY <1>5, PrunedTyped
  <1>7. PICK hit : hit = IF pruned[RequestKey(q.session)] # None THEN pruned[RequestKey(q.session)]
                         ELSE pruned[RouteKey(q.mode)]
    OBVIOUS
  <1>8. hit \in Entry \cup {None}
    <2>1. pruned[RequestKey(q.session)] \in Entry \cup {None} BY <1>4, <1>6
    <2>2. pruned[RouteKey(q.mode)] \in Entry \cup {None} BY <1>4, <1>6
    <2> QED BY <1>7, <2>1, <2>2
  <1>9. /\ recent' = pruned
        /\ UNCHANGED <<now, active, lists, denied, bindings, command, edits, last>>
        /\ req' = [req EXCEPT ![r] =
              IF hit = None THEN [q EXCEPT !.pc = "run"]
              ELSE [q EXCEPT !.pc = "done", !.outcome = "cached", !.answer = hit]]
    BY <1>1, <1>5, <1>7 DEF CheckCache
  <1>10. \E t : req' = [req EXCEPT ![r] = t] /\ Proper(t)
    <2>1. CASE hit = None
      <3>1. PICK t : t = [q EXCEPT !.pc = "run"] OBVIOUS
      <3>2. /\ t \in Request /\ t.pc = "run" /\ t.candidates = q.candidates /\ t.list = q.list
            /\ t.order = q.order /\ t.forced = q.forced /\ t.bound = q.bound /\ t.reuse = q.reuse
        BY <1>2, <3>1 DEF Request
      <3>3. Proper(t) BY <1>2, <3>2 DEF Proper, Routed, Ready
      <3> QED BY <1>9, <2>1, <3>1, <3>3
    <2>2. CASE hit # None
      <3>1. PICK t : t = [q EXCEPT !.pc = "done", !.outcome = "cached", !.answer = hit] OBVIOUS
      <3>2. t \in Request /\ t.pc = "done" BY <1>2, <1>8, <3>1 DEF Request, Outcomes
      <3>3. Proper(t) BY <3>2 DEF Proper, Routed, Ready
      <3> QED BY <1>9, <2>2, <3>1, <3>3
    <2> QED BY <2>1, <2>2
  <1>11. /\ bindings' \in Table /\ Cardinality(Bound(bindings')) <= MaxBindings
         /\ last' \in [Sessions -> Providers \cup {None}]
    BY <1>9 DEF TInv, TypeOK
  <1> QED BY <1>6, <1>9, <1>10, <1>11, ProperStep

LEMMA SucceedTyped ==
    ASSUME TInv, NEW r \in Requests, Succeed(r)
    PROVE  TInv'
  <1>1. PICK q : q = req[r] OBVIOUS
  <1>2. q.pc = "run" /\ Proper(q) /\ q \in Request BY <1>1, ProperIs DEF Succeed
  <1>3. /\ q.session \in Sessions \cup {None} /\ q.mode \in Modes \cup {None}
        /\ q.crossed \in BOOLEAN /\ q.candidates \in Orders
    BY <1>2, Fields DEF AllModes
  <1>4. /\ now \in Nat /\ bindings \in Table /\ Cardinality(Bound(bindings)) <= MaxBindings
        /\ last \in [Sessions -> Providers \cup {None}]
    BY DEF TInv, TypeOK
  <1>5. PICK t : t = [q EXCEPT !.pc = "done", !.outcome = "served"] OBVIOUS
  <1>6. req' = [req EXCEPT ![r] = t] BY <1>1, <1>5 DEF Succeed
  <1>7. Proper(t) BY <1>2, <1>5, DoneProper DEF Outcomes
  <1>8. UNCHANGED <<now, active, lists, denied, recent, command, edits>> BY DEF Succeed
  <1>9. PICK p \in Range(q.candidates) :
          IF q.session = None THEN UNCHANGED <<bindings, last>>
          ELSE /\ \E u \in Roomy(bindings, now) :
                    bindings' = SuccessBound(u, q.session, p, q.mode, now, q.crossed)
               /\ last' = [last EXCEPT ![q.session] = p]
    BY <1>1 DEF Succeed
  <1>10. p \in Providers
    <2>1. q.candidates \in Seq(Providers) BY <1>3, OrderIs
    <2> QED BY <2>1, RangeOf
  <1>11. /\ bindings' \in Table /\ Cardinality(Bound(bindings')) <= MaxBindings
         /\ last' \in [Sessions -> Providers \cup {None}]
    <2>1. CASE q.session = None BY <1>4, <1>9, <2>1
    <2>2. CASE q.session # None
      <3>1. PICK u \in Roomy(bindings, now) :
              bindings' = SuccessBound(u, q.session, p, q.mode, now, q.crossed)
        BY <1>9, <2>2
      <3>2. u \in Table /\ Cardinality(Bound(u)) < MaxBindings BY <1>4, RoomyTyped
      <3>3. PICK b : b = bindings' OBVIOUS
      <3>4. q.session \in Sessions BY <1>3, <2>2
      <3>5. Changed(u, q.session, b)
        BY <1>3, <1>4, <1>10, <3>1, <3>2, <3>3, <3>4, SuccessBoundTyped DEF BoundTo
      <3>6. b \in Table /\ Bound(b) \subseteq Bound(u) \cup {q.session}
        BY <3>4, <3>5, ChangedWithin DEF Within
      <3>7. Cardinality(Bound(b)) <= MaxBindings BY <3>2, <3>6, OneMore
      <3>8. last' \in [Sessions -> Providers \cup {None}] BY <1>4, <1>9, <1>10, <2>2
      <3> QED BY <3>3, <3>6, <3>7, <3>8
    <2> QED BY <2>1, <2>2
  <1>12. recent' \in [Keys -> Entry \cup {None}] BY <1>8 DEF TInv, TypeOK
  <1> QED BY <1>6, <1>7, <1>8, <1>11, <1>12, ProperStep

\* A request that ends and changes nothing else.
LEMMA EndTyped ==
    ASSUME TInv, NEW r \in Requests, NEW outcome \in Outcomes,
           req' = [req EXCEPT ![r].pc = "done", ![r].outcome = outcome],
           UNCHANGED <<now, active, lists, denied, bindings, recent, command, edits, last>>
    PROVE  TInv'
  <1>1. PICK q : q = req[r] OBVIOUS
  <1>2. PICK t : t = [q EXCEPT !.pc = "done", !.outcome = outcome] OBVIOUS
  <1>3. Proper(t) BY <1>1, <1>2, ProperIs, DoneProper
  <1>4. req' = [req EXCEPT ![r] = t] BY <1>1, <1>2
  <1> QED BY <1>3, <1>4, ProperMove

LEMMA FailTyped ==
    ASSUME TInv, NEW r \in Requests, Fail(r) \/ Abort(r)
    PROVE  TInv'
  <1>1. /\ req' = [req EXCEPT ![r].pc = "done", ![r].outcome = "failed"]
        /\ UNCHANGED <<now, active, lists, denied, bindings, recent, command, edits, last>>
    BY DEF Fail, Abort
  <1>2. "failed" \in Outcomes BY DEF Outcomes
  <1> QED BY <1>1, <1>2, EndTyped

LEMMA UnavailableTyped ==
    ASSUME TInv, NEW r \in Requests, Unavailable(r)
    PROVE  TInv'
  <1>1. PICK q : q = req[r] OBVIOUS
  <1>2. q.pc = "run" /\ Proper(q) /\ q \in Request BY <1>1, ProperIs DEF Unavailable
  <1>3. UNCHANGED <<now, active, lists, denied, bindings, recent, command, edits, last>>
    BY DEF Unavailable
  <1>4. PICK retry \in RetryAfters :
          req' = [req EXCEPT ![r] =
            IF retry = 0 THEN [q EXCEPT !.pc = "done", !.outcome = "unavailable"]
            ELSE [q EXCEPT !.pc = "insert", !.at = now,
                           !.answer = [expires |-> now + retry, mode |-> q.mode,
                                       considered |-> Considered(q), forced |-> q.forced,
                                       crossed |-> q.crossed]]]
    BY <1>1 DEF Unavailable
  <1>5. CASE retry = 0
    <2>1. PICK t : t = [q EXCEPT !.pc = "done", !.outcome = "unavailable"] OBVIOUS
    <2>2. req' = [req EXCEPT ![r] = t] BY <1>4, <1>5, <2>1
    <2>3. Proper(t) BY <1>2, <2>1, DoneProper DEF Outcomes
    <2> QED BY <1>3, <2>2, <2>3, ProperMove
  <1>6. CASE retry # 0
    <2>1. PICK e : e = [expires |-> now + retry, mode |-> q.mode,
                        considered |-> Considered(q), forced |-> q.forced,
                        crossed |-> q.crossed]
      OBVIOUS
    <2>2. PICK t : t = [q EXCEPT !.pc = "insert", !.at = now, !.answer = e] OBVIOUS
    <2>3. req' = [req EXCEPT ![r] = t] BY <1>4, <1>6, <2>1, <2>2
    <2>4. now \in Nat /\ now + retry \in Nat
      <3>1. now \in Nat /\ retry \in Nat BY RoutingAssumption DEF TInv, TypeOK
      <3> QED BY <3>1
    <2>5. e \in Entry
      <3>1. /\ q.candidates \in Orders /\ q.bound \in Providers \cup {None}
            /\ q.mode \in AllModes /\ q.forced \in Providers \cup {None} /\ q.crossed \in BOOLEAN
        BY <1>2, Fields
      <3>2. q.candidates \in Seq(Providers) BY <3>1, OrderIs
      <3>3. Considered(q) \in SUBSET Providers BY <3>1, <3>2, RangeOf DEF Considered
      <3> QED BY <2>1, <2>4, <3>1, <3>3 DEF Entry
    <2>6. /\ t \in Request /\ t.pc = "insert" /\ t.candidates = q.candidates /\ t.list = q.list
          /\ t.order = q.order /\ t.forced = q.forced /\ t.bound = q.bound /\ t.reuse = q.reuse
          /\ t.answer = e
      BY <1>2, <2>2, <2>4, <2>5 DEF Request
    <2>7. Proper(t) BY <1>2, <2>5, <2>6 DEF Proper, Routed, Ready
    <2> QED BY <1>3, <2>3, <2>7, ProperMove
  <1> QED BY <1>5, <1>6

LEMMA InsertErrorTyped ==
    ASSUME TInv, NEW r \in Requests, InsertError(r)
    PROVE  TInv'
  <1>1. PICK q : q = req[r] OBVIOUS
  <1>2. q.pc = "insert" /\ Proper(q) /\ q \in Request BY <1>1, ProperIs DEF InsertError
  <1>3. q.answer \in Entry /\ q.crossed \in BOOLEAN BY <1>2, Fields DEF Proper
  <1>4. PICK e : e = [q.answer EXCEPT !.crossed = q.crossed] OBVIOUS
  <1>5. e \in Entry BY <1>3, <1>4 DEF Entry
  <1>6. PICK pruned : pruned = Pruned(q.at) OBVIOUS
  <1>7. pruned \in [Keys -> Entry \cup {None}] BY <1>6, PrunedTyped
  <1>8. recent' = [pruned EXCEPT ![RequestKey(q.session)] = e, ![RouteKey(q.mode)] = e]
    BY <1>1, <1>4, <1>6 DEF InsertError
  <1>9. recent' \in [Keys -> Entry \cup {None}] BY <1>5, <1>7, <1>8
  <1>10. PICK t : t = [q EXCEPT !.pc = "done", !.outcome = "unavailable"] OBVIOUS
  <1>11. Proper(t) BY <1>2, <1>10, DoneProper DEF Outcomes
  <1>12. /\ req' = [req EXCEPT ![r] = t]
         /\ UNCHANGED <<now, active, lists, denied, bindings, command, edits, last>>
    BY <1>1, <1>10 DEF InsertError
  <1>13. /\ bindings' \in Table /\ Cardinality(Bound(bindings')) <= MaxBindings
         /\ last' \in [Sessions -> Providers \cup {None}]
    BY <1>12 DEF TInv, TypeOK
  <1> QED BY <1>9, <1>11, <1>12, <1>13, ProperStep

LEMMA IdleProper == Proper(Idle)
  <1>1. Idle.pc = "idle" BY DEF Idle
  <1>2. Idle \in Request BY EmptyOrder DEF Idle, Request, AllModes
  <1> QED BY <1>1, <1>2 DEF Proper, Routed, Ready

LEMMA LeaveTyped ==
    ASSUME TInv, NEW r \in Requests, Leave(r)
    PROVE  TInv'
  <1>1. PICK t : t = Idle OBVIOUS
  <1>2. /\ req' = [req EXCEPT ![r] = t]
        /\ UNCHANGED <<now, active, lists, denied, bindings, recent, command, edits, last>>
    BY <1>1 DEF Leave
  <1> QED BY <1>1, <1>2, IdleProper, ProperMove

\* A command crosses the requests under way and leaves the rest of them.
LEMMA CrossedProper ==
    ASSUME TInv, req' = Crossed
    PROVE  req' \in [Requests -> Request] /\ \A r \in Requests : Proper(req'[r])
  <1>1. ASSUME NEW r \in Requests PROVE req'[r] \in Request /\ Proper(req'[r])
    <2>1. PICK q : q = req[r] OBVIOUS
    <2>2. Proper(q) /\ q \in Request BY <2>1, ProperIs
    <2>3. PICK b \in BOOLEAN : b = (q.pc # "idle") OBVIOUS
    <2>4. PICK t : t = [q EXCEPT !.crossed = b] OBVIOUS
    <2>5. req'[r] = t BY <2>1, <2>3, <2>4 DEF Crossed
    <2>6. /\ t \in Request /\ t.pc = q.pc /\ t.candidates = q.candidates /\ t.list = q.list
          /\ t.order = q.order /\ t.forced = q.forced /\ t.bound = q.bound /\ t.reuse = q.reuse
          /\ t.session = q.session /\ t.answer = q.answer
      BY <2>2, <2>4 DEF Request
    <2>7. Proper(t) BY <2>2, <2>6 DEF Proper, Routed, Ready
    <2> QED BY <2>5, <2>6, <2>7
  <1>2. req' = [r \in Requests |-> req'[r]] BY DEF Crossed
  <1> QED BY <1>1, <1>2

LEMMA EmptyTyped ==
    Empty \in Table /\ Bound(Empty) = {} /\ Cardinality(Bound(Empty)) <= MaxBindings
  <1>1. Empty \in Table /\ Bound(Empty) = {} BY DEF Empty, Table, Bound
  <1>2. Cardinality(Bound(Empty)) = 0 BY <1>1, FS_EmptySet
  <1> QED BY <1>1, <1>2, TableAssumption

LEMMA CommandTyped ==
    ASSUME TInv, NEW c \in Commands,
           Edit(c) \/ ClearSessions(c) \/ ClearErrors(c) \/ ResetProvider(c)
    PROVE  TInv'
  <1>0. /\ now \in Nat /\ edits \in Nat /\ active \in AllModes /\ lists \in [AllModes -> Orders]
        /\ denied \subseteq Providers /\ bindings \in Table
        /\ Cardinality(Bound(bindings)) <= MaxBindings
        /\ recent \in [Keys -> Entry \cup {None}]
        /\ command \in [Commands -> {"idle", "sessions", "errors"}]
        /\ last \in [Sessions -> Providers \cup {None}]
    BY DEF TInv, TypeOK
  <1>1. req' = Crossed BY DEF Edit, ClearSessions, ClearErrors, ResetProvider
  <1>2. req' \in [Requests -> Request] /\ \A r \in Requests : Proper(req'[r])
    BY <1>1, CrossedProper
  <1>3. CASE Edit(c)
    <2>1. PICK route \in Routes : active' = route.active /\ lists' = route.lists
      BY <1>3 DEF Edit
    <2>2. active' \in AllModes /\ lists' \in [AllModes -> Orders] BY <2>1, RoutingAssumption
    <2>3. /\ command' = [command EXCEPT ![c] = "sessions"] /\ edits' = edits + 1
          /\ UNCHANGED <<now, denied, bindings, recent, last>>
      BY <1>3 DEF Edit
    <2>4. TypeOK' BY <1>0, <1>2, <2>2, <2>3 DEF TypeOK
    <2> QED BY <1>2, <2>4 DEF TInv
  <1>4. CASE ClearSessions(c)
    <2>1. /\ bindings' = Empty /\ command' = [command EXCEPT ![c] = "errors"]
          /\ UNCHANGED <<now, active, lists, denied, recent, edits, last>>
      BY <1>4 DEF ClearSessions, SessionsCleared
    <2>2. bindings' \in Table /\ Cardinality(Bound(bindings')) <= MaxBindings
      BY <2>1, EmptyTyped
    <2>3. TypeOK' BY <1>0, <1>2, <2>1, <2>2 DEF TypeOK
    <2> QED BY <1>2, <2>3 DEF TInv
  <1>5. CASE ClearErrors(c)
    <2>1. /\ recent' = [k \in Keys |-> None] /\ command' = [command EXCEPT ![c] = "idle"]
          /\ UNCHANGED <<now, active, lists, denied, bindings, edits, last>>
      BY <1>5 DEF ClearErrors, ErrorsCleared
    <2>2. recent' \in [Keys -> Entry \cup {None}] BY <2>1
    <2>3. TypeOK' BY <1>0, <1>2, <2>1, <2>2 DEF TypeOK
    <2> QED BY <1>2, <2>3 DEF TInv
  <1>6. CASE ResetProvider(c)
    <2>1. denied' \subseteq Providers BY <1>0, <1>6 DEF ResetProvider
    <2>2. /\ command' = [command EXCEPT ![c] = "errors"] /\ edits' = edits + 1
          /\ UNCHANGED <<now, active, lists, bindings, recent, last>>
      BY <1>6 DEF ResetProvider
    <2>3. TypeOK' BY <1>0, <1>2, <2>1, <2>2 DEF TypeOK
    <2> QED BY <1>2, <2>3 DEF TInv
  <1> QED BY <1>3, <1>4, <1>5, <1>6

LEMMA OtherTyped ==
    ASSUME TInv, ListActive \/ Flip \/ Tick \/ UNCHANGED vars
    PROVE  TInv'
  <1>0. /\ now \in Nat /\ edits \in Nat /\ active \in AllModes /\ lists \in [AllModes -> Orders]
        /\ denied \subseteq Providers /\ bindings \in Table
        /\ Cardinality(Bound(bindings)) <= MaxBindings
        /\ recent \in [Keys -> Entry \cup {None}]
        /\ command \in [Commands -> {"idle", "sessions", "errors"}]
        /\ req \in [Requests -> Request] /\ last \in [Sessions -> Providers \cup {None}]
    BY DEF TInv, TypeOK
  <1>1. UNCHANGED <<active, lists, recent, command, edits, req, last>>
    BY DEF ListActive, Flip, Tick, vars
  <1>2. now' \in Nat BY <1>0 DEF ListActive, Flip, Tick, vars
  <1>3. denied' \subseteq Providers BY <1>0, RoutingAssumption DEF ListActive, Flip, Tick, vars
  <1>4. bindings' \in Table /\ Cardinality(Bound(bindings')) <= MaxBindings
    <2>1. CASE UNCHANGED bindings BY <1>0, <2>1
    <2>2. CASE bindings' = DropExpired(bindings, now)
      <3>1. PICK b : b = bindings' OBVIOUS
      <3>2. b \in Table /\ Bound(b) \subseteq Bound(bindings)
        BY <1>0, <2>2, <3>1, DroppedTyped DEF Within
      <3>3. Cardinality(Bound(b)) <= Cardinality(Bound(bindings)) BY <3>2, Smaller
      <3>4. /\ Cardinality(Bound(b)) \in Nat /\ Cardinality(Bound(bindings)) \in Nat
            /\ MaxBindings \in Nat
        BY BoundFinite, TableAssumption
      <3> QED BY <1>0, <3>1, <3>2, <3>3, <3>4
    <2> QED BY <2>1, <2>2 DEF ListActive, Flip, Tick, vars
  <1>5. TypeOK' BY <1>0, <1>1, <1>2, <1>3, <1>4 DEF TypeOK
  <1>6. \A r \in Requests : Proper(req'[r]) BY <1>1 DEF TInv
  <1> QED BY <1>5, <1>6 DEF TInv

LEMMA InitTyped == Init => TInv
  <1> SUFFICES ASSUME Init PROVE TInv OBVIOUS
  <1>1. active \in AllModes /\ lists \in [AllModes -> Orders] BY RoutingAssumption DEF Init
  <1>2. bindings \in Table /\ Cardinality(Bound(bindings)) <= MaxBindings
    BY EmptyTyped DEF Init
  <1>3. /\ recent \in [Keys -> Entry \cup {None}] /\ command \in [Commands -> {"idle", "sessions", "errors"}]
        /\ last \in [Sessions -> Providers \cup {None}] /\ denied \subseteq Providers
        /\ now \in Nat /\ edits \in Nat
    BY DEF Init
  <1>4. PICK t : t = Idle OBVIOUS
  <1>5. t \in Request /\ Proper(t) BY <1>4, IdleProper DEF Proper
  <1>6. req = [r \in Requests |-> t] BY <1>4 DEF Init
  <1>7. req \in [Requests -> Request] /\ \A r \in Requests : Proper(req[r]) BY <1>5, <1>6
  <1>8. TypeOK BY <1>1, <1>2, <1>3, <1>7 DEF TypeOK
  <1> QED BY <1>7, <1>8 DEF TInv

LEMMA NextTyped == TInv /\ [Next]_vars => TInv'
  <1> SUFFICES ASSUME TInv, [Next]_vars PROVE TInv' OBVIOUS
  <1>1. ASSUME NEW r \in Requests,
               \/ Start(r) \/ ReadMode(r) \/ ReadActive(r) \/ ReadList(r) \/ BindMode(r)
               \/ ReadOrder(r) \/ ReadProvider(r) \/ ClearStale(r) \/ GateBound(r)
        PROVE  TInv'
    BY <1>1, StartTyped, ReadModeTyped, ReadActiveTyped, ReadListTyped, BindModeTyped,
       ReadOrderTyped, ReadProviderTyped, ClearStaleTyped, GateBoundTyped
  <1>2. ASSUME NEW r \in Requests,
               \/ CheckCache(r) \/ Succeed(r) \/ Fail(r) \/ Unavailable(r)
               \/ InsertError(r) \/ Abort(r) \/ Leave(r)
        PROVE  TInv'
    BY <1>2, CheckCacheTyped, SucceedTyped, FailTyped, UnavailableTyped, InsertErrorTyped,
       LeaveTyped
  <1>3. CASE \E c \in Commands : Edit(c) \/ ClearSessions(c) \/ ClearErrors(c) \/ ResetProvider(c)
    BY <1>3, CommandTyped
  <1>4. CASE ListActive \/ Flip \/ Tick \/ UNCHANGED vars BY <1>4, OtherTyped
  <1> QED BY <1>1, <1>2, <1>3, <1>4 DEF Next

LEMMA TInvHolds == Spec => []TInv
  BY InitTyped, NextTyped, PTL DEF Spec

\* Every variable keeps its type, a list of providers has none twice, and the bindings
\* stay within their bound, as both binds make room first (session_manager.rs:217-331).
THEOREM TypesCorrect == Spec => []TypeOK
  <1>1. TInv => TypeOK BY DEF TInv
  <1> QED BY <1>1, TInvHolds, PTL

\* Whatever the sessions remember and commands change meanwhile, the candidates of a
\* request are the providers it read, each once, without the bound one if its circuit
\* refuses, in the bound order once round (provider_selection.rs:101-157, provider_order.rs:5-68).
THEOREM RouteOrderKept == Spec => []CandidatesInRouteOrder
  <1>1. TInv => CandidatesInRouteOrder
    <2> SUFFICES ASSUME TInv, NEW r \in Requests, Ready(req[r])
                 PROVE  LET q == req[r] IN
        /\ \/ q.forced = None /\ Range(q.candidates) = Range(q.list)
           \/ q.forced = None /\ q.bound # None /\ q.reuse
              /\ Range(q.candidates) = Range(q.list) \ {q.bound}
           \/ q.forced \in Range(q.list) /\ q.candidates = <<q.forced>>
        /\ q.forced = None =>
             LET kept == Kept(Reordered(q.list, q.order), Range(q.candidates))
             IN  q.candidates = RotatedTo(kept, Head(q.candidates))
      BY DEF CandidatesInRouteOrder
    <2>1. Proper(req[r]) BY ProperIs
    <2> QED BY <2>1 DEF Proper, Routed, RightOrder
  <1> QED BY <1>1, TInvHolds, PTL

------------------------------------------------------------------------------
(* What requests that overlap no command read, bind and cache is in force.    *)

LEMMA UnavailableStep ==
    ASSUME IInv, TInv, NEW r \in Requests, Unavailable(r)
    PROVE  IInv'
  <1>1. req[r].pc = "run" /\ UNCHANGED <<active, lists, command, bindings, recent>>
    BY DEF Unavailable
  <1>2. PICK retry \in RetryAfters :
            \/ req' = [req EXCEPT ![r].pc = "done", ![r].outcome = "unavailable"]
            \/ req' = [req EXCEPT ![r] =
                  [req[r] EXCEPT !.pc = "insert", !.at = now,
                                 !.answer = [expires |-> now + retry, mode |-> req[r].mode,
                                             considered |-> Considered(req[r]),
                                             forced |-> req[r].forced,
                                             crossed |-> req[r].crossed]]]
    BY DEF Unavailable
  <1>3. CASE req' = [req EXCEPT ![r].pc = "done", ![r].outcome = "unavailable"]
    BY <1>1, <1>3, SameBindings, SameRecent, EndStep
  <1>4. CASE req' = [req EXCEPT ![r] =
                  [req[r] EXCEPT !.pc = "insert", !.at = now,
                                 !.answer = [expires |-> now + retry, mode |-> req[r].mode,
                                             considered |-> Considered(req[r]),
                                             forced |-> req[r].forced,
                                             crossed |-> req[r].crossed]]]
    <2>1. PICK e : e = [expires |-> now + retry, mode |-> req[r].mode,
                        considered |-> Considered(req[r]), forced |-> req[r].forced,
                        crossed |-> req[r].crossed]
      OBVIOUS
    <2>2. PICK q : q = [req[r] EXCEPT !.pc = "insert", !.at = now, !.answer = e] OBVIOUS
    <2>3. req' = [req EXCEPT ![r] = q] BY <1>4, <2>1, <2>2
    <2>4. /\ IsRequest(req[r])
          /\ ~req[r].crossed => /\ ~UnderWay
                                /\ req[r].mode = active /\ req[r].list = lists[active]
      BY <1>1, Known DEF OnRoute
    <2>5. req[r].crossed \in BOOLEAN BY <2>4 DEF IsRequest
    <2>6. IsEntry(e) /\ e.mode = req[r].mode
          /\ e.considered = Considered(req[r]) /\ e.forced = req[r].forced
      BY <2>1, <2>5 DEF IsEntry
    <2>7. IsRequest(q) BY <2>2, <2>4, <2>6 DEF IsRequest
    <2>8. /\ q.pc = "insert" /\ q.mode = req[r].mode /\ q.list = req[r].list
          /\ q.crossed = req[r].crossed /\ q.answer = e
      BY <2>2, <2>4 DEF IsRequest
    <2>9. Covers(e, req[r].list)
      <3>1. RightOrder(req[r].list, req[r].order, req[r].forced, req[r].bound, req[r].reuse,
                       req[r].candidates)
        BY <1>1, ProperIs DEF Proper, Routed, Ready
      <3>2. req[r].list \in Orders BY ProperIs, Fields
      <3>3. Range(req[r].list) \subseteq Providers BY <3>2, OrderIs, RangeOf
      <3>4. None \notin Range(req[r].list) BY <3>3, TableAssumption
      <3>5. req[r].forced = None => Range(req[r].list) \subseteq Considered(req[r])
        BY <3>1, <3>4 DEF RightOrder, Considered
      <3> QED BY <2>6, <3>5 DEF Covers
    <2>10. ~q.crossed => OnRoute(q) BY <2>4, <2>6, <2>8, <2>9 DEF OnRoute
    <2> QED BY <1>1, <2>3, <2>4, <2>7, <2>8, <2>10, MovedOn
  <1> QED BY <1>2, <1>3, <1>4

LEMMA NextInv == IInv /\ TInv /\ [Next]_vars => IInv'
  <1> SUFFICES ASSUME IInv, TInv, [Next]_vars PROVE IInv' OBVIOUS
  <1>1. ASSUME NEW r \in Requests,
               \/ Start(r) \/ ReadMode(r) \/ ReadActive(r) \/ ReadList(r) \/ BindMode(r)
               \/ ReadOrder(r) \/ ReadProvider(r) \/ ClearStale(r) \/ GateBound(r)
        PROVE  IInv'
    BY <1>1, StartStep, ReadModeStep, ReadActiveStep, ReadListStep, BindModeStep,
       ReadOrderStep, ReadProviderStep, ClearStaleStep, GateBoundStep
  <1>2. ASSUME NEW r \in Requests,
               \/ CheckCache(r) \/ Succeed(r) \/ Fail(r) \/ Unavailable(r)
               \/ InsertError(r) \/ Abort(r) \/ Leave(r)
        PROVE  IInv'
    BY <1>2, CheckCacheStep, SucceedStep, FailStep, UnavailableStep, InsertErrorStep, LeaveStep
  <1>3. ASSUME NEW c \in Commands,
               Edit(c) \/ ClearSessions(c) \/ ClearErrors(c) \/ ResetProvider(c)
        PROVE  IInv'
    BY <1>3, EditStep, ClearSessionsStep, ClearErrorsStep, ResetProviderStep
  <1>4. CASE ListActive BY <1>4, ListActiveStep
  <1>5. CASE Flip \/ Tick \/ UNCHANGED vars
    <2>1. UNCHANGED <<active, lists, command, req, bindings, recent>>
      BY <1>5 DEF Flip, Tick, vars
    <2> QED BY <2>1, SameBindings, SameRecent, OtherStep
  <1> QED BY <1>1, <1>2, <1>3, <1>4, <1>5 DEF Next

\* However requests and commands interleave, the strengthened invariant holds of
\* provider_selection.rs, session_manager.rs, caches.rs and runtime.rs:172-188.
THEOREM Inductive == Spec => []IInv
  BY InitInv, NextInv, TInvHolds, PTL DEF Spec

\* Once no command is under way, the bindings of requests that overlapped none have
\* the active mode and its list (runtime.rs:180-188, session_manager.rs:217-331).
THEOREM BindingsFollowRoutes == Spec => []RoutesFollowed
  <1>1. IInv => RoutesFollowed
    BY ClearingUnderWay DEF IInv, RoutesFollowed, BindingsFollow, Follows, Live
  <1> QED BY <1>1, Inductive, PTL

\* A request that overlaps no command is answered from the recent errors only with an
\* answer of its own route, which considered every provider of its list, or of a forced
\* request, or of one that overlapped a command (caches.rs:56-84,
\* request_fingerprint.rs:66-105).
THEOREM CacheFollowsRoutes == Spec => []CachedAnswerIsCurrent
  <1>1. IInv => CachedAnswerIsCurrent
    BY DEF IInv, CachedAnswerIsCurrent, RequestsOnRoute, OnRoute
  <1> QED BY <1>1, Inductive, PTL

------------------------------------------------------------------------------
(* A conversation stays with its provider.                                    *)

\* A session is bound to the provider that served it last, or to none.
ServedLast ==
    \A s \in Sessions : bindings[s] # None /\ bindings[s].provider # None =>
        bindings[s].provider = last[s]

LEMMA MilderServed ==
    ASSUME ServedLast, Milder(bindings, bindings'), UNCHANGED last
    PROVE  ServedLast'
  BY DEF Milder, ServedLast

LEMMA SameMilder == ASSUME NEW t PROVE Milder(t, t)
  BY DEF Milder

\* A request takes bindings away at most, until it succeeds.
LEMMA FreeMilder ==
    ASSUME TInv, NEW r \in Requests,
           \/ Start(r) \/ ReadMode(r) \/ ReadActive(r) \/ ReadList(r) \/ BindMode(r)
           \/ ReadOrder(r) \/ ReadProvider(r) \/ ClearStale(r) \/ GateBound(r)
           \/ CheckCache(r) \/ Fail(r) \/ Unavailable(r) \/ InsertError(r) \/ Abort(r)
           \/ Leave(r)
    PROVE  Milder(bindings, bindings') /\ UNCHANGED last
  <1>1. PICK q : q = req[r] OBVIOUS
  <1>2. Proper(q) /\ q \in Request BY <1>1, ProperIs
  <1>3. bindings \in Table /\ Cardinality(Bound(bindings)) <= MaxBindings
    BY DEF TInv, TypeOK
  <1>4. q.session \in Sessions \cup {None} /\ q.at \in Nat BY <1>2, Fields
  <1>5. CASE BindMode(r)
    <2>1. PICK u \in Roomy(bindings, q.at) :
            bindings' = ModeBound(u, q.session, q.mode, q.list, q.at, q.crossed)
      BY <1>1, <1>5 DEF BindMode
    <2>2. u \in Table /\ \A s \in Sessions : u[s] \in {bindings[s], None}
      BY <1>3, <1>4, <2>1, RoomyTyped
    <2>3. q.session \in Sessions BY <1>1, <1>2, <1>4, <1>5 DEF BindMode, Proper
    <2>4. q.crossed \in BOOLEAN /\ q.mode \in Modes \cup {None} /\ q.list \in Orders
      BY <1>2, Fields DEF AllModes
    <2>5. Milder(u, bindings') BY <1>4, <2>1, <2>2, <2>3, <2>4, ModeBoundTyped
    <2>6. Milder(bindings, bindings') BY <2>2, <2>5 DEF Milder
    <2> QED BY <1>5, <2>6 DEF BindMode
  <1>6. CASE ReadMode(r) \/ ReadOrder(r)
    <2>1. bindings' = Touched(bindings, q.session, q.at) /\ q.pc \in {"mode", "order"}
          /\ UNCHANGED last
      BY <1>1, <1>6 DEF ReadMode, ReadOrder
    <2>2. q.session \in Sessions BY <1>2, <1>4, <2>1 DEF Proper
    <2> QED BY <1>3, <1>4, <2>1, <2>2, TouchedTyped
  <1>7. CASE ReadProvider(r)
    <2>1. /\ bindings' = (IF q.session = None THEN bindings
                          ELSE Touched(bindings, q.session, q.at))
          /\ UNCHANGED last
      BY <1>1, <1>7 DEF ReadProvider
    <2>2. CASE q.session = None BY <2>1, <2>2, SameMilder
    <2>3. CASE q.session # None BY <1>3, <1>4, <2>1, <2>3, TouchedTyped
    <2> QED BY <2>2, <2>3
  <1>8. CASE ClearStale(r)
    <2>1. bindings' = ProviderCleared(bindings, q.session, q.at) /\ UNCHANGED last
      BY <1>1, <1>8 DEF ClearStale
    <2>2. q.session \in Sessions BY <1>1, <1>8, Resolving DEF ClearStale
    <2> QED BY <1>3, <1>4, <2>1, <2>2, ClearedTyped
  <1>9. CASE \/ Start(r) \/ ReadActive(r) \/ ReadList(r) \/ GateBound(r) \/ CheckCache(r)
             \/ Fail(r) \/ Unavailable(r) \/ InsertError(r) \/ Abort(r) \/ Leave(r)
    <2>1. UNCHANGED <<bindings, last>>
      BY <1>9 DEF Start, ReadActive, ReadList, GateBound, CheckCache, Fail, Unavailable,
         InsertError, Abort, Leave
    <2> QED BY <2>1, SameMilder
  <1> QED BY <1>5, <1>6, <1>7, <1>8, <1>9

\* Commands, the session list, the circuits and the clock take bindings away at most.
LEMMA AroundMilder ==
    ASSUME TInv,
           \/ \E c \in Commands : Edit(c) \/ ClearSessions(c) \/ ClearErrors(c) \/ ResetProvider(c)
           \/ ListActive \/ Flip \/ Tick \/ UNCHANGED vars
    PROVE  Milder(bindings, bindings') /\ UNCHANGED last
  <1>1. bindings \in Table BY DEF TInv, TypeOK
  <1>2. CASE \E c \in Commands : ClearSessions(c)
    <2>1. bindings' = Empty /\ UNCHANGED last BY <1>2 DEF ClearSessions, SessionsCleared
    <2> QED BY <2>1 DEF Milder, Empty
  <1>3. CASE ListActive BY <1>1, <1>3, DroppedTyped DEF ListActive
  <1>4. CASE \/ \E c \in Commands : Edit(c) \/ ClearErrors(c) \/ ResetProvider(c)
             \/ Flip \/ Tick \/ UNCHANGED vars
    <2>1. UNCHANGED <<bindings, last>>
      BY <1>4 DEF Edit, ClearErrors, ResetProvider, Flip, Tick, vars
    <2> QED BY <2>1, SameMilder
  <1> QED BY <1>2, <1>3, <1>4

\* A success binds the session to the provider that served it, and touches no other.
LEMMA SucceedServed ==
    ASSUME TInv, ServedLast, NEW r \in Requests, Succeed(r)
    PROVE  ServedLast'
  <1>1. PICK q : q = req[r] OBVIOUS
  <1>2. q \in Request BY <1>1, ProperIs
  <1>3. /\ q.session \in Sessions \cup {None} /\ q.mode \in Modes \cup {None}
        /\ q.crossed \in BOOLEAN /\ q.candidates \in Orders
    BY <1>2, Fields DEF AllModes
  <1>4. /\ now \in Nat /\ bindings \in Table /\ Cardinality(Bound(bindings)) <= MaxBindings
        /\ last \in [Sessions -> Providers \cup {None}]
    BY DEF TInv, TypeOK
  <1>5. PICK p \in Range(q.candidates) :
          IF q.session = None THEN UNCHANGED <<bindings, last>>
          ELSE /\ \E u \in Roomy(bindings, now) :
                    bindings' = SuccessBound(u, q.session, p, q.mode, now, q.crossed)
               /\ last' = [last EXCEPT ![q.session] = p]
    BY <1>1 DEF Succeed
  <1>6. p \in Providers
    <2>1. q.candidates \in Seq(Providers) BY <1>3, OrderIs
    <2> QED BY <2>1, RangeOf
  <1>7. CASE q.session = None BY <1>5, <1>7 DEF ServedLast
  <1>8. CASE q.session # None
    <2>1. PICK u \in Roomy(bindings, now) :
            bindings' = SuccessBound(u, q.session, p, q.mode, now, q.crossed)
      BY <1>5, <1>8
    <2>2. u \in Table /\ \A s \in Sessions : u[s] \in {bindings[s], None}
      BY <1>4, RoomyTyped
    <2>3. q.session \in Sessions BY <1>3, <1>8
    <2>4. Changed(u, q.session, bindings') /\ bindings'[q.session].provider = p
      <3>1. BoundTo(u, q.session, p, bindings')
        BY <1>3, <1>4, <1>6, <2>1, <2>2, <2>3, SuccessBoundTyped
      <3> QED BY <3>1 DEF BoundTo
    <2>5. /\ last'[q.session] = p
          /\ \A s \in Sessions \ {q.session} : last'[s] = last[s]
      BY <1>4, <1>5, <1>8, <2>3
    <2>6. ASSUME NEW s \in Sessions, bindings'[s] # None, bindings'[s].provider # None
          PROVE  bindings'[s].provider = last'[s]
      <3>1. CASE s = q.session BY <2>4, <2>5, <3>1
      <3>2. CASE s # q.session
        <4>1. bindings'[s] = bindings[s] BY <2>2, <2>4, <2>6, <3>2 DEF Changed
        <4> QED BY <2>5, <2>6, <3>2, <4>1 DEF ServedLast
      <3> QED BY <3>1, <3>2
    <2> QED BY <2>6 DEF ServedLast
  <1> QED BY <1>7, <1>8

\* Whatever overlaps, a binding that has a provider has the one whose success came last
\* in its session: a success is recorded under one lock, and nothing else binds a
\* provider (session_manager.rs:283-331).
THEOREM BoundToLastServer == Spec => []ServedLast
  <1>1. Init => ServedLast
    <2> SUFFICES ASSUME Init PROVE ServedLast OBVIOUS
    <2>1. \A s \in Sessions : bindings[s] = None BY DEF Init, Empty
    <2> QED BY <2>1 DEF ServedLast
  <1>2. TInv /\ ServedLast /\ [Next]_vars => ServedLast'
    <2> SUFFICES ASSUME TInv, ServedLast, [Next]_vars PROVE ServedLast' OBVIOUS
    <2>1. ASSUME NEW r \in Requests,
                 \/ Start(r) \/ ReadMode(r) \/ ReadActive(r) \/ ReadList(r) \/ BindMode(r)
                 \/ ReadOrder(r) \/ ReadProvider(r) \/ ClearStale(r) \/ GateBound(r)
                 \/ CheckCache(r) \/ Fail(r) \/ Unavailable(r) \/ InsertError(r) \/ Abort(r)
                 \/ Leave(r)
          PROVE  ServedLast'
      BY <2>1, FreeMilder, MilderServed
    <2>2. ASSUME NEW r \in Requests, Succeed(r) PROVE ServedLast'
      BY <2>2, SucceedServed
    <2>3. CASE \/ \E c \in Commands :
                     Edit(c) \/ ClearSessions(c) \/ ClearErrors(c) \/ ResetProvider(c)
               \/ ListActive \/ Flip \/ Tick \/ UNCHANGED vars
      BY <2>3, AroundMilder, MilderServed
    <2> QED BY <2>1, <2>2, <2>3 DEF Next
  <1> QED BY <1>1, <1>2, TInvHolds, PTL DEF Spec

\* The table agrees with what a request has read and put first: between two steps of
\* its own only other requests bind a provider.
Agrees(q, b) ==
    /\ q.pc = "resolve" /\ b # None => b.provider \in {None, q.bound}
    /\ q.pc = "check" /\ q.reuse /\ q.forced = None /\ q.session # None /\ b # None =>
         b.provider = None \/ b.provider \notin Range(q.candidates)
         \/ Head(q.candidates) = b.provider

\* The inductive form of LastServerFirst.
LInv == ServedLast /\ \A r \in Requests :
                        req[r].session # None => Agrees(req[r], bindings[req[r].session])

LEMMA MilderAgrees ==
    ASSUME NEW t, NEW u, Milder(t, u), NEW q, q.session \in Sessions,
           Agrees(q, t[q.session])
    PROVE  Agrees(q, u[q.session])
  BY DEF Milder, Agrees

\* A step of the one request.
LEMMA OneStep ==
    ASSUME TInv, NEW r \in Requests, Requests = {r}, NEW q, req' = [req EXCEPT ![r] = q],
           ServedLast', q.session # None => Agrees(q, bindings'[q.session])
    PROVE  LInv'
  <1>1. req' \in [Requests -> {q}] BY DEF TInv, TypeOK
  <1>2. \A z \in Requests : req'[z] = q BY <1>1
  <1> QED BY <1>2 DEF LInv

LEMMA OtherAgrees ==
    ASSUME NEW q, q.pc \notin {"resolve", "check"}, NEW b
    PROVE  Agrees(q, b)
  BY DEF Agrees

\* Steps that leave the request where the table does not matter to it.
LEMMA FreeStep ==
    ASSUME TInv, LInv, NEW r \in Requests, Requests = {r},
           \/ Start(r) \/ ReadMode(r) \/ ReadActive(r) \/ ReadList(r) \/ BindMode(r)
           \/ ReadOrder(r) \/ CheckCache(r) \/ Fail(r) \/ Unavailable(r)
           \/ InsertError(r) \/ Abort(r) \/ Leave(r)
    PROVE  LInv'
  <1>1. ServedLast BY DEF LInv
  <1>2. PICK q : q = req[r] OBVIOUS
  <1>3. Proper(q) /\ q \in Request BY <1>2, ProperIs
  <1>4. Milder(bindings, bindings') /\ UNCHANGED last BY FreeMilder
  <1>7. ServedLast' BY <1>1, <1>4, MilderServed
  <1>8. req'[r].pc \notin {"resolve", "check"}
    <2>1. req \in [Requests -> Request] BY DEF TInv, TypeOK
    <2>2. CASE Start(r)
      <3>1. PICK call \in Calls :
             req' = [req EXCEPT ![r] =
                [Idle EXCEPT !.pc = IF call.session = None THEN "active" ELSE "mode",
                             !.session = call.session, !.reuse = call.reuse,
                             !.forced = call.forced, !.at = now, !.crossed = UnderWay]]
        BY <2>2 DEF Start
      <3>2. PICK pc : pc = IF call.session = None THEN "active" ELSE "mode" OBVIOUS
      <3>3. PICK t : t = [Idle EXCEPT !.pc = pc, !.session = call.session, !.reuse = call.reuse,
                             !.forced = call.forced, !.at = now, !.crossed = UnderWay]
        OBVIOUS
      <3>4. req'[r] = t BY <2>1, <3>1, <3>2, <3>3
      <3>5. t.pc = pc BY <3>3 DEF Idle
      <3> QED BY <3>2, <3>4, <3>5
    <2>3. CASE Leave(r) BY <2>1, <2>3 DEF Leave, Idle
    <2>4. CASE ReadMode(r)
      <3>1. PICK b : b = bindings[q.session] OBVIOUS
      <3>2. PICK x : x = (q.crossed \/ b.crossed) OBVIOUS
      <3>3. PICK t : t = [q EXCEPT !.pc = "list", !.mode = b.mode, !.crossed = x] OBVIOUS
      <3>4. PICK u : u = [q EXCEPT !.pc = "active"] OBVIOUS
      <3>5. req'[r] = IF Live(bindings, q.session, q.at) THEN t ELSE u
        BY <1>2, <2>1, <2>4, <3>1, <3>2, <3>3, <3>4 DEF ReadMode
      <3>6. t.pc = "list" /\ u.pc = "active" BY <1>3, <3>3, <3>4 DEF Request
      <3> QED BY <3>5, <3>6
    <2>5. CASE ReadActive(r)
      <3>1. PICK t : t = [q EXCEPT !.pc = "list", !.mode = active] OBVIOUS
      <3>2. req'[r] = t BY <1>2, <2>1, <2>5, <3>1 DEF ReadActive
      <3>3. t.pc = "list" BY <1>3, <3>1 DEF Request
      <3> QED BY <3>2, <3>3
    <2>6. CASE ReadList(r)
      <3>1. PICK pc : pc = IF q.session = None THEN "provider" ELSE "bind" OBVIOUS
      <3>2. PICK t : t = [q EXCEPT !.list = lists[q.mode], !.candidates = lists[q.mode], !.pc = pc]
        OBVIOUS
      <3>3. req'[r] = t BY <1>2, <2>1, <2>6, <3>1, <3>2 DEF ReadList
      <3>4. t.pc = pc BY <1>3, <3>2 DEF Request
      <3> QED BY <3>1, <3>3, <3>4
    <2>7. CASE BindMode(r)
      <3>1. PICK t : t = [q EXCEPT !.pc = "order"] OBVIOUS
      <3>2. req'[r] = t BY <1>2, <2>1, <2>7, <3>1 DEF BindMode
      <3>3. t.pc = "order" BY <1>3, <3>1 DEF Request
      <3> QED BY <3>2, <3>3
    <2>8. CASE ReadOrder(r)
      <3>1. PICK order : order = IF Live(bindings, q.session, q.at)
                                 THEN bindings[q.session].order ELSE None
        OBVIOUS
      <3>2. PICK t : t = [q EXCEPT !.pc = "provider", !.order = order,
                                   !.candidates = Reordered(q.list, order)]
        OBVIOUS
      <3>3. req'[r] = t BY <1>2, <2>1, <2>8, <3>1, <3>2 DEF ReadOrder
      <3>4. t.pc = "provider" BY <1>3, <3>2 DEF Request
      <3> QED BY <3>3, <3>4
    <2>9. CASE CheckCache(r)
      <3>1. PICK t : t = [q EXCEPT !.pc = "run"] OBVIOUS
      <3>2. \E hit : req'[r] = IF hit = None THEN t
                      ELSE [q EXCEPT !.pc = "done", !.outcome = "cached", !.answer = hit]
        BY <1>2, <2>1, <2>9, <3>1 DEF CheckCache
      <3>3. PICK hit : req'[r] = IF hit = None THEN t
                      ELSE [q EXCEPT !.pc = "done", !.outcome = "cached", !.answer = hit]
        BY <3>2
      <3>4. PICK u : u = [q EXCEPT !.pc = "done", !.outcome = "cached", !.answer = hit] OBVIOUS
      <3>5. t.pc = "run" /\ u.pc = "done" BY <1>3, <3>1, <3>4 DEF Request
      <3> QED BY <3>3, <3>4, <3>5
    <2>10. CASE Fail(r) \/ Abort(r) \/ InsertError(r)
      <3>1. PICK outcome : req'[r] = [q EXCEPT !.pc = "done", !.outcome = outcome]
        BY <1>2, <2>1, <2>10 DEF Fail, Abort, InsertError
      <3>2. PICK t : t = [q EXCEPT !.pc = "done", !.outcome = outcome] OBVIOUS
      <3>3. t.pc = "done" BY <1>3, <3>2 DEF Request
      <3> QED BY <3>1, <3>2, <3>3
    <2>11. CASE Unavailable(r)
      <3>1. PICK retry \in RetryAfters :
              req' = [req EXCEPT ![r] =
                IF retry = 0 THEN [q EXCEPT !.pc = "done", !.outcome = "unavailable"]
                ELSE [q EXCEPT !.pc = "insert", !.at = now,
                               !.answer = [expires |-> now + retry, mode |-> q.mode,
                                           considered |-> Considered(q), forced |-> q.forced,
                                           crossed |-> q.crossed]]]
        BY <1>2, <2>11 DEF Unavailable
      <3>2. PICK t : t = [q EXCEPT !.pc = "done", !.outcome = "unavailable"] OBVIOUS
      <3>3. PICK e : e = [expires |-> now + retry, mode |-> q.mode,
                          considered |-> Considered(q), forced |-> q.forced,
                          crossed |-> q.crossed]
        OBVIOUS
      <3>4. PICK u : u = [q EXCEPT !.pc = "insert", !.at = now, !.answer = e] OBVIOUS
      <3>5. req'[r] = IF retry = 0 THEN t ELSE u BY <2>1, <3>1, <3>2, <3>3, <3>4
      <3>6. t.pc = "done" /\ u.pc = "insert" BY <1>3, <3>2, <3>4 DEF Request
      <3> QED BY <3>5, <3>6
    <2> QED BY <2>2, <2>3, <2>4, <2>5, <2>6, <2>7, <2>8, <2>9, <2>10, <2>11
  <1>9. \A z \in Requests : z = r OBVIOUS
  <1>10. Agrees(req'[r], bindings'[req'[r].session]) BY <1>8, OtherAgrees
  <1> QED BY <1>7, <1>9, <1>10 DEF LInv

\* A request that resolves its candidates: what it puts first.
LEMMA ResolvedAgrees ==
    ASSUME NEW q \in Request, NEW c \in Orders, NEW b,
           b # None /\ q.reuse /\ q.forced = None /\ q.session # None /\ c # <<>> =>
              b.provider = None \/ b.provider \notin Range(c) \/ Head(c) = b.provider
    PROVE  Agrees(Resolved(q, c), b) /\ Resolved(q, c).session = q.session
  <1>1. PICK pc : pc = IF c = <<>> THEN "done" ELSE "check" OBVIOUS
  <1>2. PICK outcome : outcome = IF c = <<>> THEN "none" ELSE None OBVIOUS
  <1>3. PICK t : t = [q EXCEPT !.candidates = c, !.pc = pc, !.outcome = outcome] OBVIOUS
  <1>4. t = Resolved(q, c) BY <1>1, <1>2, <1>3 DEF Resolved
  <1>5. /\ t.pc = pc /\ t.candidates = c /\ t.forced = q.forced /\ t.bound = q.bound
        /\ t.reuse = q.reuse /\ t.session = q.session
    BY <1>3 DEF Request
  <1> QED BY <1>1, <1>4, <1>5 DEF Agrees

LEMMA ReadProviderAgrees ==
    ASSUME TInv, LInv, NEW r \in Requests, Requests = {r}, ReadProvider(r)
    PROVE  LInv'
  <1>1. PICK q : q = req[r] OBVIOUS
  <1>2. q.pc = "provider" /\ Proper(q) /\ q \in Request BY <1>1, ProperIs DEF ReadProvider
  <1>3. /\ q.session \in Sessions \cup {None} /\ q.at \in Nat /\ q.reuse \in BOOLEAN
        /\ q.candidates \in Orders /\ q.order \in Orders \cup {None}
        /\ q.forced \in Providers \cup {None} /\ bindings \in Table
    BY <1>2, Fields DEF TInv, TypeOK
  <1>4. PICK bound : bound = IF q.session # None /\ Live(bindings, q.session, q.at)
                             THEN bindings[q.session].provider ELSE None
    OBVIOUS
  <1>5. /\ bindings' = (IF q.session = None THEN bindings ELSE Touched(bindings, q.session, q.at))
        /\ UNCHANGED last
    BY <1>1 DEF ReadProvider
  <1>6. Milder(bindings, bindings') /\ UNCHANGED last BY FreeMilder
  <1>7. ServedLast' BY <1>5, <1>6, MilderServed DEF LInv
  <1>8. PICK b : b = bindings'[q.session] OBVIOUS
  <1>9. q.session # None /\ b # None => b.provider = bound
    <2> SUFFICES ASSUME q.session # None, b # None PROVE b.provider = bound OBVIOUS
    <2>1. q.session \in Sessions /\ bindings' = Touched(bindings, q.session, q.at) BY <1>3, <1>5
    <2>2. Live(bindings, q.session, q.at) BY <1>3, <1>8, <2>1, TouchedTyped
    <2> QED BY <1>3, <1>4, <1>8, <2>1, <2>2, TouchedTyped
  <1>10. req' = [req EXCEPT ![r] =
          IF q.reuse /\ q.forced = None /\ bound # None
          THEN [q EXCEPT !.pc = "resolve", !.bound = bound]
          ELSE WithPreference(q, Forced(q.candidates, q.forced), bound)]
    BY <1>1, <1>4 DEF ReadProvider
  <1>11. CASE q.reuse /\ q.forced = None /\ bound # None
    <2>1. PICK t : t = [q EXCEPT !.pc = "resolve", !.bound = bound] OBVIOUS
    <2>2. req' = [req EXCEPT ![r] = t] BY <1>10, <1>11, <2>1
    <2>3. t.pc = "resolve" /\ t.bound = bound /\ t.session = q.session
      BY <1>2, <2>1 DEF Request
    <2>4. t.session # None => Agrees(t, b) BY <1>9, <2>3 DEF Agrees
    <2> QED BY <1>7, <1>8, <2>2, <2>3, <2>4, OneStep
  <1>12. CASE ~(q.reuse /\ q.forced = None /\ bound # None)
    <2>1. PICK left : left = Forced(q.candidates, q.forced) OBVIOUS
    <2>2. PICK c : c = IF q.reuse /\ bound # None THEN Preferred(left, bound, q.order) ELSE left
      OBVIOUS
    <2>3. PICK t : t = Resolved(q, c) OBVIOUS
    <2>4. req' = [req EXCEPT ![r] = t] BY <1>10, <1>12, <2>1, <2>2, <2>3 DEF WithPreference
    <2>5. c \in Orders
      <3>1. left \in Orders BY <1>3, <2>1, OneProvider, EmptyOrder DEF Forced
      <3>2. Preferred(left, bound, q.order) \in Orders BY <1>3, <3>1, PreferredOf, Rotation
      <3> QED BY <2>2, <3>1, <3>2
    <2>6. t.session = q.session /\ (q.session # None => Agrees(t, b))
      BY <1>2, <1>9, <1>12, <2>3, <2>5, ResolvedAgrees
    <2> QED BY <1>7, <1>8, <2>4, <2>6, OneStep
  <1> QED BY <1>11, <1>12

LEMMA ClearStaleAgrees ==
    ASSUME TInv, LInv, NEW r \in Requests, Requests = {r}, ClearStale(r)
    PROVE  LInv'
  <1>1. PICK q : q = req[r] OBVIOUS
  <1>2. /\ q \in Request /\ q.session \in Sessions /\ q.bound # None /\ q.reuse
        /\ q.candidates \in Orders /\ q.order \in Orders \cup {None} /\ bindings \in Table
    BY <1>1, Resolving DEF ClearStale
  <1>3. PICK c : c = Preferred(q.candidates, q.bound, q.order) OBVIOUS
  <1>4. PICK t : t = Resolved(q, c) OBVIOUS
  <1>5. t = WithPreference(q, q.candidates, q.bound) BY <1>2, <1>3, <1>4 DEF WithPreference
  <1>6. /\ bindings' = ProviderCleared(bindings, q.session, q.at)
        /\ req' = [req EXCEPT ![r] = t] /\ UNCHANGED last
    BY <1>1, <1>5 DEF ClearStale
  <1>7. Milder(bindings, bindings') BY FreeMilder
  <1>8. ServedLast' BY <1>6, <1>7, MilderServed DEF LInv
  <1>9. PICK b : b = bindings'[q.session] OBVIOUS
  <1>10. b = None \/ b.provider = None BY <1>2, <1>6, <1>9, ClearedTyped
  <1>11. c \in Orders BY <1>2, <1>3, PreferredOf, Rotation
  <1>12. t.session = q.session /\ Agrees(t, b) BY <1>2, <1>4, <1>10, <1>11, ResolvedAgrees
  <1> QED BY <1>6, <1>8, <1>9, <1>12, OneStep

LEMMA GateBoundAgrees ==
    ASSUME TInv, LInv, NEW r \in Requests, Requests = {r}, GateBound(r)
    PROVE  LInv'
  <1>1. PICK q : q = req[r] OBVIOUS
  <1>2. /\ q \in Request /\ q.bound # None /\ q.reuse /\ q.session \in Sessions
        /\ q.candidates \in Orders /\ q.order \in Orders \cup {None}
        /\ q.bound \in Range(q.candidates) /\ q.pc = "resolve" /\ bindings \in Table
    BY <1>1, Resolving DEF GateBound
  <1>3. PICK c : c = IF q.bound \in denied THEN Without(q.candidates, q.bound)
                     ELSE RotatedTo(q.candidates, q.bound)
    OBVIOUS
  <1>4. PICK t : t = Resolved(q, c) OBVIOUS
  <1>5. Preferred(q.candidates, q.bound, q.order) = RotatedTo(q.candidates, q.bound)
    BY <1>2, PreferredOf
  <1>6. q.bound \notin denied => t = WithPreference(q, q.candidates, q.bound)
    BY <1>2, <1>3, <1>4, <1>5 DEF WithPreference
  <1>7. req' = [req EXCEPT ![r] = t] /\ UNCHANGED <<bindings, last>>
    BY <1>1, <1>3, <1>4, <1>6 DEF GateBound
  <1>8. ServedLast' BY <1>7 DEF LInv, ServedLast
  <1>9. PICK b : b = bindings[q.session] OBVIOUS
  <1>10. Agrees(q, b)
    <2>1. q.session # None BY <1>2, TableAssumption
    <2> QED BY <1>1, <1>9, <2>1 DEF LInv
  <1>11. b # None => b.provider \in {None, q.bound} BY <1>2, <1>10 DEF Agrees
  <1>12. c \in Orders /\ (q.bound \notin Range(c) \/ Head(c) = q.bound)
    BY <1>2, <1>3, WithoutOf, Rotation
  <1>13. t.session = q.session /\ Agrees(t, b) BY <1>2, <1>4, <1>11, <1>12, ResolvedAgrees
  <1> QED BY <1>7, <1>8, <1>9, <1>13, OneStep

LEMMA SucceedAgrees ==
    ASSUME TInv, LInv, NEW r \in Requests, Requests = {r}, Succeed(r)
    PROVE  LInv'
  <1>1. PICK q : q = req[r] OBVIOUS
  <1>2. q \in Request BY <1>1, ProperIs
  <1>3. PICK t : t = [q EXCEPT !.pc = "done", !.outcome = "served"] OBVIOUS
  <1>4. req' = [req EXCEPT ![r] = t] BY <1>1, <1>3 DEF Succeed
  <1>5. t.pc = "done" BY <1>2, <1>3 DEF Request
  <1>6. ServedLast' BY SucceedServed DEF LInv
  <1>7. t.session # None => Agrees(t, bindings'[t.session]) BY <1>5, OtherAgrees
  <1> QED BY <1>4, <1>6, <1>7, OneStep

\* Commands, the session list, the circuits and the clock take bindings away at most.
LEMMA AroundAgrees ==
    ASSUME TInv, LInv,
           \/ \E c \in Commands : Edit(c) \/ ClearSessions(c) \/ ClearErrors(c) \/ ResetProvider(c)
           \/ ListActive \/ Flip \/ Tick \/ UNCHANGED vars
    PROVE  LInv'
  <1>1. bindings \in Table /\ req \in [Requests -> Request] BY DEF TInv, TypeOK
  <1>2. Milder(bindings, bindings') /\ UNCHANGED last BY AroundMilder
  <1>3. ServedLast' BY <1>2, MilderServed DEF LInv
  <1>4. ASSUME NEW z \in Requests
        PROVE  /\ req'[z].session = req[z].session
               /\ \A b : Agrees(req[z], b) => Agrees(req'[z], b)
    <2>1. CASE \E c \in Commands : Edit(c) \/ ClearSessions(c) \/ ClearErrors(c) \/ ResetProvider(c)
      <3>1. req' = Crossed BY <2>1 DEF Edit, ClearSessions, ClearErrors, ResetProvider
      <3>2. PICK q : q = req[z] OBVIOUS
      <3>3. PICK x \in BOOLEAN : x = (q.pc # "idle") OBVIOUS
      <3>4. PICK t : t = [q EXCEPT !.crossed = x] OBVIOUS
      <3>5. req'[z] = t BY <3>1, <3>2, <3>3, <3>4 DEF Crossed
      <3>6. /\ t.pc = q.pc /\ t.candidates = q.candidates /\ t.forced = q.forced
            /\ t.bound = q.bound /\ t.reuse = q.reuse /\ t.session = q.session
        BY <1>1, <3>2, <3>4 DEF Request
      <3> QED BY <3>2, <3>5, <3>6 DEF Agrees
    <2>2. CASE ListActive \/ Flip \/ Tick \/ UNCHANGED vars
      <3>1. UNCHANGED req BY <2>2 DEF ListActive, Flip, Tick, vars
      <3> QED BY <3>1
    <2> QED BY <2>1, <2>2
  <1>5. ASSUME NEW z \in Requests, req'[z].session # None
        PROVE  Agrees(req'[z], bindings'[req'[z].session])
    <2>1. PICK q : q = req[z] OBVIOUS
    <2>2. q.session \in Sessions BY <1>1, <1>4, <1>5, <2>1, Fields
    <2>3. Agrees(q, bindings[q.session]) BY <1>4, <1>5, <2>1 DEF LInv
    <2>4. Agrees(q, bindings'[q.session]) BY <1>2, <2>2, <2>3, MilderAgrees
    <2> QED BY <1>4, <2>1, <2>4
  <1> QED BY <1>3, <1>5 DEF LInv

LEMMA InitServed == Init => LInv
  <1> SUFFICES ASSUME Init PROVE LInv OBVIOUS
  <1>1. \A s \in Sessions : bindings[s] = None BY DEF Init, Empty
  <1>2. \A r \in Requests : req[r].session = None BY DEF Init, Idle
  <1> QED BY <1>1, <1>2 DEF LInv, ServedLast

\* When requests follow one another, a bound session tries first the provider that served
\* it last, if it is among the candidates. Of two requests at once, one may have read the
\* binding before the other bound it (session_manager.rs:283-331, provider_selection.rs:131-157).
THEOREM LastServerIsFirst ==
    ASSUME NEW r, Requests = {r}
    PROVE  Spec => []LastServerFirst
  <1>1. TInv /\ LInv /\ [Next]_vars => LInv'
    <2> SUFFICES ASSUME TInv, LInv, [Next]_vars PROVE LInv' OBVIOUS
    <2>1. r \in Requests OBVIOUS
    <2>2. ASSUME NEW z \in Requests,
                 \/ Start(z) \/ ReadMode(z) \/ ReadActive(z) \/ ReadList(z) \/ BindMode(z)
                 \/ ReadOrder(z) \/ CheckCache(z) \/ Fail(z) \/ Unavailable(z)
                 \/ InsertError(z) \/ Abort(z) \/ Leave(z)
          PROVE  LInv'
      <3>1. z = r OBVIOUS
      <3> QED BY <2>1, <2>2, <3>1, FreeStep
    <2>3. ASSUME NEW z \in Requests,
                 ReadProvider(z) \/ ClearStale(z) \/ GateBound(z) \/ Succeed(z)
          PROVE  LInv'
      <3>1. z = r OBVIOUS
      <3> QED BY <2>1, <2>3, <3>1, ReadProviderAgrees, ClearStaleAgrees, GateBoundAgrees,
                 SucceedAgrees
    <2>4. CASE \/ \E c \in Commands :
                     Edit(c) \/ ClearSessions(c) \/ ClearErrors(c) \/ ResetProvider(c)
               \/ ListActive \/ Flip \/ Tick \/ UNCHANGED vars
      BY <2>4, AroundAgrees
    <2> QED BY <2>2, <2>3, <2>4 DEF Next
  <1>2. TInv /\ LInv => LastServerFirst
    <2> SUFFICES ASSUME TInv, LInv, NEW z \in Requests, req[z].pc = "check", req[z].reuse,
                        req[z].forced = None, req[z].session # None,
                        bindings[req[z].session] # None,
                        bindings[req[z].session].provider # None,
                        last[req[z].session] \in Range(req[z].candidates)
                 PROVE  Head(req[z].candidates) = last[req[z].session]
      BY DEF LastServerFirst
    <2>1. PICK q : q = req[z] OBVIOUS
    <2>2. q.session \in Sessions BY <2>1, ProperIs, Fields
    <2>3. bindings[q.session].provider = last[q.session] BY <2>1, <2>2 DEF LInv, ServedLast
    <2>4. Agrees(q, bindings[q.session]) BY <2>1 DEF LInv
    <2> QED BY <2>1, <2>3, <2>4 DEF Agrees
  <1> QED BY <1>1, <1>2, TInvHolds, InitServed, PTL DEF Spec
==============================================================================
