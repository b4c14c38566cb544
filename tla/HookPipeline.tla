---------------------------- MODULE HookPipeline ----------------------------
(* The gateway's hook pipeline (gateway/plugins/pipeline.rs) over the registry *)
(* of extension hosts: a request runs the plugins of the snapshot it took, in  *)
(* their order, skips those whose circuit is open, and records each result.    *)
(* The request, response, stream and log hooks share this shape; what they     *)
(* change in the request is left out. A client that leaves drops the call.     *)
EXTENDS PluginHosts, Sequences

CONSTANTS
    HookOf,         \* per request, the plugins of its hook by priority
    FailClosed,     \* those whose failure ends the request
    Threshold,      \* circuit_failure_threshold
    MaxChanges      \* bound on replacements, disposals and retains

ASSUME PipelineAssumption ==
    /\ HookOf \in [Requests -> Seq(Plugins)] /\ FailClosed \subseteq Plugins
    /\ Threshold \in Nat \ {0} /\ MaxChanges \in Nat

VARIABLES
    active,     \* the snapshot: per plugin its version, or 0
    todo,       \* per request, the keys it still has to run
    circuits,   \* per plugin; failures stop counting at the threshold
    lost,       \* ghost: plugins whose probe's caller left
    changes

vars == <<registry, active, todo, circuits, lost, changes>>

NewCircuit == [failures |-> 0, open |-> FALSE, cooled |-> FALSE, half |-> FALSE]

TypeOK ==
    /\ Registered
    /\ active \in [Plugins -> 0..MaxVersion]
    /\ todo \in [Requests -> SUBSET Key]
    /\ circuits \in [Plugins -> [failures : 0..Threshold, open : BOOLEAN,
                                 cooled : BOOLEAN, half : BOOLEAN]]
    /\ \A p \in Plugins : /\ circuits[p].open <=> circuits[p].failures = Threshold
                          /\ circuits[p].half => circuits[p].open /\ circuits[p].cooled
    /\ lost \subseteq Plugins /\ changes \in 0..MaxChanges

Init ==
    /\ NoHosts
    /\ active = [p \in Plugins |-> 1]
    /\ todo = [r \in Requests |-> {}]
    /\ circuits = [p \in Plugins |-> NewCircuit]
    /\ lost = {} /\ changes = 0

-------------------------------------------------------------------------------
(* plugins_for_hook: the request keeps the list it read.                       *)
Snapshot(r) ==
    {[plugin |-> p, version |-> active[p]] : p \in {q \in Range(HookOf[r]) : active[q] # 0}}

Begin(r) ==
    /\ todo[r] = {} /\ At(r, "idle") /\ Snapshot(r) # {}
    /\ todo' = [todo EXCEPT ![r] = Snapshot(r)]
    /\ UNCHANGED <<registry, active, circuits, lost, changes>>

(* The plugin that comes first among those left.                               *)
IsNext(r, k) ==
    \E i \in DOMAIN HookOf[r] :
        /\ k.plugin = HookOf[r][i]
        /\ \A o \in todo[r], j \in 1..(i-1) : o.plugin # HookOf[r][j]

(* should_skip_for_circuit: one call after the cooldown is the probe.          *)
Probes(p) == circuits[p].open /\ circuits[p].cooled /\ ~circuits[p].half
\* mutant: an open circuit skips, cooled down or not
Skips_WhileOpen(p) == circuits[p].open
Skips(p) == circuits[p].open /\ ~Probes(p)

Check(r) ==
    /\ At(r, "idle")
    /\ \E k \in todo[r] :
        /\ IsNext(r, k)
        /\ IF Skips(k.plugin)
           THEN /\ todo' = [todo EXCEPT ![r] = @ \ {k}]
                /\ UNCHANGED <<call, circuits>>
           ELSE /\ call' = [call EXCEPT ![r].at = "gate", ![r].key = k,
                                        ![r].probe = Probes(k.plugin)]
                /\ circuits' = [circuits EXCEPT ![k.plugin].half = Probes(k.plugin)]
                /\ UNCHANGED todo
    /\ UNCHANGED <<up, keyOf, unread, warm, lockOf, admin, dropping, faults,
                   active, lost, changes>>

\* mutant: the threshold is missed by one
Failed_OneMore(c) ==
    IF c.failures >= Threshold
    THEN [failures |-> Threshold, open |-> TRUE, cooled |-> FALSE, half |-> FALSE]
    ELSE [c EXCEPT !.failures = @ + 1]
(* record_failure: at the threshold the cooldown begins, or begins again.      *)
Failed(c) ==
    IF c.failures + 1 >= Threshold
    THEN [failures |-> Threshold, open |-> TRUE, cooled |-> FALSE, half |-> FALSE]
    ELSE [c EXCEPT !.failures = @ + 1]

(* An accepted result closes the circuit; a plugin that blocks the request      *)
(* succeeds too, and ends it.                                                  *)
Accept(r) ==
    /\ call[r].result = "good"
    /\ circuits' = [circuits EXCEPT ![Plugin(r)] = NewCircuit]
    /\ \/ todo' = [todo EXCEPT ![r] = @ \ {call[r].key}]
       \/ todo' = [todo EXCEPT ![r] = {}]

(* A failed call, and a result with changes the plugin may not make, count     *)
(* against the plugin. The request goes on with the next one or, as the policy *)
(* of the plugin says, ends; a refused change of the headers always ends it.   *)
Reject(r) ==
    /\ circuits' = [circuits EXCEPT ![Plugin(r)] = Failed(@)]
    /\ \/ /\ Plugin(r) \notin FailClosed
          /\ todo' = [todo EXCEPT ![r] = @ \ {call[r].key}]
       \/ /\ Plugin(r) \in FailClosed \/ call[r].result = "good"
          /\ todo' = [todo EXCEPT ![r] = {}]

(* A good call whose result is refused is a fault of its plugin.               *)
Record(r) ==
    /\ \E accepted \in BOOLEAN :
        /\ Return(r, accepted \/ call[r].result = "bad")
        /\ IF accepted THEN Accept(r) ELSE Reject(r)
    /\ lost' = lost \ {Plugin(r)}
    /\ UNCHANGED <<active, changes>>

(* The client leaves: nothing is recorded.                                     *)
Leave(r) ==
    /\ Abandon(r) /\ todo' = [todo EXCEPT ![r] = {}]
    /\ lost' = IF call[r].probe THEN lost \cup {Plugin(r)} ELSE lost
    /\ UNCHANGED <<active, circuits, changes>>

(* replace_plugins: the retain is spawned, the snapshot replaced, and the      *)
(* circuits of the plugins that are gone are forgotten.                        *)
Replace(p, v) ==
    LET next == [active EXCEPT ![p] = v] IN
    /\ changes < MaxChanges /\ changes' = changes + 1
    /\ active[p] # v /\ active' = next
    /\ TakeGate("retain", {q \in Plugins : next[q] = 0})
    /\ circuits' = [q \in Plugins |-> IF next[q] = 0 THEN NewCircuit ELSE circuits[q]]
    /\ lost' = {q \in lost : next[q] # 0}
    /\ UNCHANGED <<up, keyOf, unread, warm, lockOf, call, dropping, todo>>

(* Thirty seconds have passed.                                                 *)
Cool(p) ==
    /\ circuits[p].open /\ ~circuits[p].cooled
    /\ circuits' = [circuits EXCEPT ![p].cooled = TRUE]
    /\ UNCHANGED <<registry, active, todo, lost, changes>>

-------------------------------------------------------------------------------
pipeline == <<active, todo, circuits, lost, changes>>

Hosted(r) ==
    \/ Enter(r) \/ Acquire(r) \/ Use(r) \/ Evict(r) \/ StartHost(r)
    \/ \E result \in {"good", "bad"} : Answer(r, result)
    \/ Misanswer(r) \/ Break(r)
(* A plugin is stopped by a command, or all of them at the exit.               *)
DisposeSome ==
    /\ changes < MaxChanges /\ changes' = changes + 1
    /\ \/ \E p \in Plugins : DisposePlugin(p)
       \/ TakeGate("all", Plugins) /\ UNCHANGED <<up, keyOf, unread, warm, lockOf, call, dropping>>
    /\ UNCHANGED <<active, todo, circuits, lost>>

Next ==
    \/ \E r \in Requests : Begin(r) \/ Check(r) \/ Record(r) \/ Leave(r)
    \/ \E p \in Plugins : Cool(p) \/ \E v \in 0..MaxVersion : Replace(p, v)
    \/ DisposeSome
    \/ /\ UNCHANGED pipeline
       /\ \/ \E r \in Requests : Hosted(r)
          \/ \E c \in Callers, h \in Hosts : Dispose(c, h)
          \/ Remove \/ Disposed

(* Calls go on, answers are bounded by their timeouts and time passes; the     *)
(* mutexes and the gate serve their waiters in order. Requests keep coming.    *)
Fairness ==
    /\ \A r \in Requests :
        /\ WF_vars(Begin(r)) /\ WF_vars(Check(r)) /\ WF_vars(Record(r))
        /\ WF_vars(Hosted(r) /\ UNCHANGED pipeline)
        /\ SF_vars((Enter(r) \/ Acquire(r)) /\ UNCHANGED pipeline)
    /\ \A c \in Callers : WF_vars((\E h \in Hosts : Dispose(c, h)) /\ UNCHANGED pipeline)
    /\ WF_vars(Disposed /\ UNCHANGED pipeline) /\ SF_vars(Remove /\ UNCHANGED pipeline)
    /\ \A p \in Plugins : WF_vars(Cool(p))

Spec == Init /\ [][Next]_vars /\ Fairness

-------------------------------------------------------------------------------
(* A call ends, whatever waits for whatever: plugin locks, processes that      *)
(* others dispose of, and the gate.                                            *)
CallsEnd == \A r \in Requests : ~At(r, "idle") ~> At(r, "idle")

(* An open circuit is tried again, as the test                                 *)
(* gateway_plugin_pipeline_allows_half_open_probe_after_cooldown shows for one *)
(* request, if requests get as far as its plugin, unless the probe's caller    *)
(* left: then nobody clears half_open.                                         *)
First == {HookOf[r][1] : r \in Requests}
TriedAgain ==
    \A p \in First :
        circuits[p].open ~> \/ ~circuits[p].open \/ active[p] = 0 \/ p \in lost
                            \/ \E r \in Requests : call[r].probe /\ Plugin(r) = p
=============================================================================
