----------------------------- MODULE RequestEnd -----------------------------
(* How a request ends. The handler (gateway/proxy/handler/mod.rs) arms a guard *)
(* and enters the request into the registry of active requests, writes a       *)
(* placeholder, and runs the failover loop. The end is stated by the handler,  *)
(* by the guard when the handler's future is dropped, or by the stream the     *)
(* answer became (gateway/streams/usage_tee.rs): the entry is removed, the     *)
(* event is published, and the record goes the way of RequestLog.tla.          *)
(*                                                                             *)
(* The client can leave at every await. A stop of the gateway leaves handlers  *)
(* and streams running, a restart of the process does not. Requests that are   *)
(* not observed leave no trace here and are left out; an id is used once.      *)
EXTENDS RequestLog

VARIABLES
    server,  \* "up", "stopping" until the pending rows are reconciled, "stopped"
    active,  \* the registry of active requests
    req,     \* the handlers and their streams
    ended    \* history: the ends that were published, in order

vars == <<tasks, queue, batch, direct, rows, lost, server, active, req, ended>>

\* What a stream has shown: output, usage, its completion, an error marker.
Marks == {"output", "usage", "completed", "error"}

Idle == [pc |-> "idle", armed |-> FALSE, seeded |-> FALSE, says |-> "none", seen |-> {}]

\* An event stream that is teed, a buffered body, the relay of a Codex stream, and the
\* relay once its client has left.
Streaming == {"tee", "body", "relay", "drain"}

Request ==
    [pc : {"idle", "chain", "refusing", "seeding", "running", "ending", "unended", "done"}
          \cup Streaming,
     armed : BOOLEAN, seeded : BOOLEAN, says : Outcomes \cup {"none"},
     seen : SUBSET Marks]

TypeOK ==
    /\ LogType
    /\ server \in {"up", "stopping", "stopped"}
    /\ active \subseteq Requests
    /\ req \in [Requests -> Request]
    /\ ended \in [Requests -> Seq(Outcomes)]

Init ==
    /\ LogInit
    /\ server = "up" /\ active = {}
    /\ req = [r \in Requests |-> Idle]
    /\ ended = [r \in Requests |-> <<>>]

Set(r, q) == req' = [req EXCEPT ![r] = q]
Done(r) == Set(r, [Idle EXCEPT !.pc = "done", !.says = req[r].says])
Says(r, o) == [id |-> r, says |-> o]

\* The registry entry goes before the event and both before the record.
State(r, o) ==
    /\ active' = active \ {r}
    /\ ended' = [ended EXCEPT ![r] = Append(@, o)]

\* emit_request_event_and_spawn_request_log
EndWith(r, o) == State(r, o) /\ Spawn(Says(r, o))

\* The record that the handler holds while it waits for its place.
Held(r) == IF req[r].pc \in {"ending", "refusing"} THEN {Says(r, req[r].says)} ELSE {}

NoWrite == UNCHANGED <<batch, rows, server>>
NoLog == UNCHANGED logVars /\ UNCHANGED server

---------------------------------------------------------------------------
(* The handler.                                                              *)

Arrive(r) ==
    /\ server = "up" /\ req[r].pc = "idle"
    /\ Set(r, [Idle EXCEPT !.pc = "chain"])
    /\ NoLog /\ UNCHANGED <<active, ended>>

\* A middleware answers: some wait for the record to be queued, some do not.
Refuse(r) ==
    /\ req[r].pc = "chain"
    /\ State(r, "failed")
    /\ Set(r, [req[r] EXCEPT !.pc = "refusing", !.says = "failed"])
    /\ NoLog

RefuseAtOnce(r) ==
    /\ req[r].pc = "chain"
    /\ EndWith(r, "failed")
    /\ Done(r)
    /\ NoWrite

\* mutant: the guard is armed after the placeholder is written
Entered_Late(seed) == [Idle EXCEPT !.pc = IF seed THEN "seeding" ELSE "running",
                                   !.seeded = seed, !.armed = ~seed]

Entered(seed) == [Idle EXCEPT !.pc = IF seed THEN "seeding" ELSE "running",
                              !.seeded = seed, !.armed = TRUE]

\* The registry of a stopped gateway is not looked at any more.
Enter(r) ==
    /\ req[r].pc = "chain"
    /\ \E seed \in BOOLEAN : Set(r, Entered(seed))
    /\ active' = IF server = "up" THEN active \cup {r} ELSE active
    /\ NoLog /\ UNCHANGED ended

Seed(r) ==
    /\ req[r].pc = "seeding"
    /\ Deliver(Says(r, "pending"))
    /\ Set(r, [req[r] EXCEPT !.pc = "running"])
    /\ NoWrite /\ UNCHANGED <<tasks, active, ended>>

\* The loop has its answer: it states the end and waits for the record's place.
Answer(r) ==
    /\ req[r].pc = "running"
    /\ \E o \in {"ok", "failed"} :
         /\ State(r, o)
         /\ Set(r, [req[r] EXCEPT !.pc = "ending", !.says = o])
    /\ NoLog

\* mutant: the guard is disarmed a wait later
Log_Armed(r) ==
    /\ req[r].pc \in {"ending", "refusing"}
    /\ Deliver(Says(r, req[r].says))
    /\ IF req[r].armed THEN UNCHANGED req ELSE Done(r)
    /\ NoWrite /\ UNCHANGED <<tasks, active, ended>>

\* The record has its place, and without another wait the guard is disarmed.
Log(r) ==
    /\ req[r].pc \in {"ending", "refusing"}
    /\ Deliver(Says(r, req[r].says))
    /\ Done(r)
    /\ NoWrite /\ UNCHANGED <<tasks, active, ended>>

\* A plugin blocks the attempt: the loop returns with the guard armed.
Block(r) ==
    /\ req[r].pc = "running"
    /\ EndWith(r, "aborted")
    /\ Done(r)
    /\ NoWrite

\* A response.after hook blocks or fails: the guard is disarmed, the client gets an
\* error, and nobody states the end.
HookEnds(r) ==
    /\ req[r].pc = "running"
    /\ Set(r, [Idle EXCEPT !.pc = "unended"])
    /\ NoLog /\ UNCHANGED <<active, ended>>

Opened(q, kind) == [q EXCEPT !.pc = kind, !.armed = FALSE]

\* mutant: the loop returns the stream with the guard armed
Open_Armed(r) ==
    /\ req[r].pc = "running"
    /\ \E kind \in {"tee", "body", "relay"} : Set(r, Opened(req[r], kind))
    /\ EndWith(r, "aborted") /\ NoWrite

\* The answer streams. Event streams of Codex are relayed by a task of their own, and
\* only Claude messages have a placeholder.
Open(r) ==
    /\ req[r].pc = "running"
    /\ \E kind \in {"tee", "body", "relay"} :
         /\ kind = "relay" => ~req[r].seeded
         /\ Set(r, Opened(req[r], kind))
    /\ NoLog /\ UNCHANGED <<active, ended>>

\* The client leaves while the handler waits: its future is dropped.
Cancel(r) ==
    LET q == req[r] IN
    /\ q.pc \in {"chain", "refusing", "seeding", "running", "ending"}
    /\ Done(r)
    /\ NoWrite
    /\ IF q.armed THEN EndWith(r, "aborted")
       ELSE /\ lost' = lost \cup Held(r)
            /\ UNCHANGED <<tasks, queue, direct, active, ended>>

---------------------------------------------------------------------------
(* The stream.                                                               *)

Finalize(r, o) == EndWith(r, o) /\ NoWrite

\* A tee ends at an error marker; a body, whose marker is a 200 that is none, and the
\* relay of Codex leave it for later.
Chunk(r) ==
    \E mark \in Marks :
        LET shown == req[r].seen \cup {"output", mark} IN
        /\ req[r].pc \in Streaming
        /\ req[r].pc = "body" => mark # "completed"
        /\ IF req[r].pc = "tee" /\ mark = "error"
           THEN Done(r) /\ Finalize(r, "failed")
           ELSE /\ Set(r, [req[r] EXCEPT !.seen = shown])
                /\ NoLog /\ UNCHANGED <<active, ended>>

Finished(q) == q.seen \cap {"usage", "completed"} # {}

Close(r, o) == Done(r) /\ Finalize(r, o)

\* What the end of the upstream makes of the stream.
EndVerdict(q) ==
    IF q.pc = "tee" \/ "error" \notin q.seen THEN "ok"
    ELSE IF q.pc = "drain" THEN (IF Finished(q) THEN "ok" ELSE "aborted")
    ELSE IF "completed" \in q.seen THEN "ok" ELSE "failed"

UpstreamEnds(r) == req[r].pc \in Streaming /\ Close(r, EndVerdict(req[r]))

\* A read error; the relay tolerates one behind the completion.
UpstreamFails(r) ==
    /\ req[r].pc \in Streaming
    /\ Close(r, IF req[r].pc # "tee" /\ "completed" \in req[r].seen THEN "ok" ELSE "failed")

\* The idle timeout, or the total one of a body; a drain has its own deadline.
Timeout(r) == req[r].pc \in {"tee", "body", "relay"} /\ Close(r, "failed")

\* A body that is dropped: a Codex response counts as read once its usage is.
DropVerdict(q, codex) ==
    IF codex /\ "usage" \in q.seen THEN EndVerdict(q) ELSE "aborted"

\* A tee and a body are dropped with the response, the relay goes on reading.
ClientLeaves(r) ==
    \/ req[r].pc = "tee" /\ Close(r, "aborted")
    \/ /\ req[r].pc = "body"
       /\ \E codex \in BOOLEAN :
            /\ codex => ~req[r].seeded
            /\ Close(r, DropVerdict(req[r], codex))
    \/ /\ req[r].pc = "relay"
       /\ Set(r, [req[r] EXCEPT !.pc = "drain"])
       /\ NoLog /\ UNCHANGED <<active, ended>>

\* The drain stops at the completion or at its deadline.
StopDrain(r) ==
    /\ req[r].pc = "drain"
    /\ Close(r, IF "output" \in req[r].seen /\ Finished(req[r]) THEN "ok" ELSE "aborted")

---------------------------------------------------------------------------
(* The gateway and its process.                                              *)

\* take_running finishes the entries, the server is told to shut down.
StopGateway ==
    /\ server = "up"
    /\ server' = "stopping" /\ active' = {}
    /\ UNCHANGED logVars /\ UNCHANGED <<req, ended>>

\* Once the stop has waited for the tasks, and again at the stops of later
\* gateways of this process.
ReconcileStopped ==
    /\ server # "up"
    /\ server' = "stopped" /\ rows' = Reconciled
    /\ UNCHANGED <<tasks, queue, batch, direct, lost, active, req, ended>>

\* The process ends, in order or not, and the next one starts.
Restart ==
    /\ server' = "up" /\ active' = {}
    /\ rows' = Reconciled
    /\ lost' = lost \cup InFlight \cup UNION {Held(r) : r \in Requests}
    /\ tasks' = {} /\ queue' = <<>> /\ batch' = <<>> /\ direct' = {}
    /\ req' = [r \in Requests |-> IF req[r].pc = "idle" THEN req[r]
                                  ELSE [Idle EXCEPT !.pc = "done", !.says = req[r].says]]
    /\ UNCHANGED ended

Step(r) ==
    \/ Arrive(r) \/ Refuse(r) \/ RefuseAtOnce(r) \/ Enter(r) \/ Seed(r)
    \/ Answer(r) \/ Log(r) \/ Block(r) \/ HookEnds(r) \/ Open(r) \/ Cancel(r)
    \/ Chunk(r) \/ UpstreamEnds(r) \/ UpstreamFails(r) \/ Timeout(r)
    \/ ClientLeaves(r) \/ StopDrain(r)

Next ==
    \/ \E r \in Requests : Step(r)
    \/ LogNext /\ UNCHANGED <<server, active, req, ended>>
    \/ StopGateway \/ ReconcileStopped \/ Restart

\* A wait for the channel is bounded, and so is a drain.
Fairness ==
    /\ LogFairness
    /\ \A r \in Requests : WF_vars(Seed(r)) /\ WF_vars(Log(r)) /\ WF_vars(StopDrain(r))

Spec == Init /\ [][Next]_vars /\ Fairness

---------------------------------------------------------------------------
(* Properties.                                                               *)

\* Nothing of a request is forgotten, but of one that a response.after hook ended. An
\* entry of the registry has somebody who will remove it, an armed guard or a stream
\* that is not finalized: the order of guard, entry and first await in proxy_impl is
\* there for this; without it a card stays "in progress" for ever. A pending row, and a
\* placeholder on its way, has somebody who will end it, or the record that would have
\* was dropped for want of room or by the database. Requests whose hook blocked or
\* failed keep both (success_non_stream.rs:1071-1112): they are left out here.
NothingForgotten ==
    \A r \in Requests : req[r].pc # "unended" =>
        /\ r \in active => req[r].pc \in Streaming \/ (req[r].armed /\ req[r].pc # "ending")
        /\ rows[r] = "pending" \/ Says(r, "pending") \in InFlight =>
            \/ req[r].armed \/ req[r].pc \in Streaming
            \/ rows[r] \in Terminal
            \/ \E o \in Outcomes : Says(r, o) \in InFlight \cup lost

\* The refinement: the published ends and the rows stand for themselves, requests in
\* hand, records on their way and the registry are hidden.
Ledger == INSTANCE RequestLedger WITH Requests <- Requests, Outcomes <- Outcomes,
                                      ended <- ended, rows <- rows

\* The ends and the table keep what RequestLedger.tla promises: an end is published
\* once, or a second time as aborted while its record waits for its place; a row
\* says only what was published last; and a late placeholder, a second record or a
\* reconciliation never changes a row that says how its request ended.
KeepsLedger == Ledger!Spec

\* Every end that is published reaches the table or is dropped on its way.
EndIsWritten ==
    \A r \in Requests :
        ended[r] # <<>> ~> \/ rows[r] \in Outcomes
                           \/ \E o \in Outcomes : Says(r, o) \in lost

=============================================================================
