----------------------------- MODULE PluginHosts -----------------------------
(* The registry of warm extension hosts (app/plugins/extension_host_registry.rs) *)
(* over the processes that run the plugins' code (extension_host_process.rs).  *)
(* A call takes the operation gate for reading and the plugin's lock, asks the *)
(* warm process of its key or starts one, and leaves the new one in the map.   *)
(* Retaining the active plugins and disposing all take the gate for writing;   *)
(* disposing one plugin takes it for reading.                                  *)
(*                                                                             *)
(* The application has two registries, one for gateway hooks and one for the   *)
(* window's commands; here one serves both, with more interleavings than each. *)
(* A key is a plugin and a version, which stands for all else the key holds.   *)
(* Which hosts are idle for 120 seconds and which is the least recently used   *)
(* is left open. A process ends with its last handle (Drop).                   *)
EXTENDS Naturals, FiniteSets, FiniteSetsExt

CONSTANTS
    Requests,       \* the calls that can be under way
    Admin,          \* the slot for disposals and retains, one at a time
    Plugins,
    MaxVersion,     \* bound on the versions of a plugin
    MaxHosts,       \* bound on the processes with a handle
    MaxLocks,       \* bound on the locks of a plugin with a handle
    MaxWarm,        \* max_warm_instances
    MaxFaults,      \* bound on failures of plugins and clients that leave
    None

ASSUME RegistryAssumption ==
    /\ MaxVersion \in Nat \ {0} /\ MaxWarm \in Nat \ {0}
    /\ MaxHosts \in Nat \ {0} /\ MaxLocks \in Nat \ {0} /\ MaxFaults \in Nat
    /\ Admin \notin Requests /\ None \notin Plugins \cup Nat

VARIABLES
    up,         \* the processes that run
    keyOf,      \* the key each process was started for
    unread,     \* processes whose pipe holds the answer of an abandoned call
    warm,       \* the processes in the map
    lockOf,     \* the map from plugins to their locks
    call,       \* per request
    admin,      \* the disposal or retain under way
    dropping,   \* processes out of the map that a caller still has to end
    faults

registry == <<up, keyOf, unread, warm, lockOf, call, admin, dropping, faults>>

Hosts == 1..MaxHosts
Locks == 1..MaxLocks
Callers == Requests \cup {Admin}
Key == [plugin : Plugins, version : 1..MaxVersion]

NoCall == [at |-> "idle", key |-> None, lock |-> None, host |-> None,
           cold |-> FALSE, result |-> None, probe |-> FALSE]
NoAdmin == [at |-> "idle", kind |-> "retain", plugins |-> {}, lock |-> None]

Registered ==
    /\ up \subseteq Hosts /\ unread \subseteq Hosts /\ warm \subseteq Hosts
    /\ keyOf \in [Hosts -> Key \cup {None}]
    /\ lockOf \in [Plugins -> Locks \cup {None}]
    /\ call \in [Requests ->
        [at : {"idle", "gate", "wait", "use", "evict", "start", "call", "done"},
         key : Key \cup {None}, lock : Locks \cup {None}, host : Hosts \cup {None},
         cold : BOOLEAN, result : {"good", "bad", None}, probe : BOOLEAN]]
    /\ admin \in [at : {"idle", "gate", "wait", "drop"}, kind : {"dispose", "retain", "all"},
                  plugins : SUBSET Plugins, lock : Locks \cup {None}]
    /\ dropping \in [Callers -> SUBSET Hosts]
    /\ Cardinality(warm) <= MaxWarm /\ faults \in 0..MaxFaults
    /\ \A g, h \in warm : keyOf[g].plugin = keyOf[h].plugin => g = h

NoHosts ==
    /\ up = {} /\ unread = {} /\ warm = {}
    /\ keyOf = [h \in Hosts |-> None] /\ lockOf = [p \in Plugins |-> None]
    /\ call = [r \in Requests |-> NoCall] /\ admin = NoAdmin
    /\ dropping = [c \in Callers |-> {}] /\ faults = 0

-------------------------------------------------------------------------------
Fault == faults < MaxFaults /\ faults' = faults + 1
NoFault == UNCHANGED faults
Outcome(ok) == IF ok THEN NoFault ELSE Fault

At(r, step) == call[r].at = step
Goto(r, step) == call' = [call EXCEPT ![r].at = step]
Plugin(r) == call[r].key.plugin

(* A process is serving the call that holds its mutex.                         *)
Serving(h) == \E r \in Requests : At(r, "call") /\ call[r].host = h
Held(h) == \/ h \in warm \/ \E c \in Callers : h \in dropping[c]
           \/ \E r \in Requests : call[r].host = h

(* Of the processes in running, with the abandoned answers in pipes, those with *)
(* a handle left go on (Drop).                                                 *)
Settle(running, pipes) ==
    /\ up' = {h \in running : Held(h)'} /\ unread' = {h \in pipes : Held(h)'}
    /\ keyOf' = [h \in Hosts |-> IF Held(h)' THEN keyOf[h] ELSE None]

(* plugin_lock_for: the lock in the map, or a new one. A lock in nobody's      *)
(* hands and in no entry is no longer there.                                   *)
InHand(p, l) == \E r \in Requests : call[r].lock = l /\ Plugin(r) = p
LockFor(p) ==
    IF lockOf[p] # None THEN lockOf[p] ELSE Min({l \in Locks : ~InHand(p, l)})

(* Who is between the lock and its release.                                    *)
HasLock(r) == call[r].at \in {"use", "evict", "start", "call", "done"}
Locked(p, l) == \/ \E r \in Requests : HasLock(r) /\ Plugin(r) = p /\ call[r].lock = l
                \/ admin.at = "drop" /\ p \in admin.plugins /\ admin.lock = l

(* The gate prefers a waiting writer; a call holds it from entering to its end. *)
Writing == admin.at # "idle" /\ admin.kind # "dispose"
Reading == \E r \in Requests : call[r].at \notin {"idle", "gate"}

Enter(r) ==
    /\ NoFault
    /\ At(r, "gate") /\ ~Writing
    /\ LET l == LockFor(Plugin(r)) IN
       /\ lockOf' = [lockOf EXCEPT ![Plugin(r)] = l]
       /\ call' = [call EXCEPT ![r].at = "wait", ![r].lock = l]
    /\ UNCHANGED <<up, keyOf, unread, warm, admin, dropping>>

(* With the lock, the warm process of the call's key is looked up.             *)
Acquire(r) ==
    /\ NoFault
    /\ At(r, "wait") /\ ~Locked(Plugin(r), call[r].lock)
    /\ \/ \E h \in warm : /\ keyOf[h] = call[r].key
                          /\ call' = [call EXCEPT ![r].at = "use", ![r].host = h]
       \/ (\A h \in warm : keyOf[h] # call[r].key) /\ Goto(r, "evict")
    /\ UNCHANGED <<up, keyOf, unread, warm, lockOf, admin, dropping>>

\* mutant: a dead process stays in the map, and the call looks there again
Use_Again(r) ==
    LET h == call[r].host IN
    /\ At(r, "use") /\ ~Serving(h)
    /\ UNCHANGED <<lockOf, admin, dropping, warm>>
    /\ \/ h \in up /\ Goto(r, "call") /\ UNCHANGED <<up, keyOf, unread, faults>>
       \/ /\ Outcome(h \notin up)
          /\ call' = [call EXCEPT ![r].at = "wait", ![r].host = None]
          /\ Settle(up \ {h}, unread)
(* Another caller may have ended the process, or it died by itself (when does  *)
(* not matter before now): it leaves the map, if it is still there, and the    *)
(* call starts another.                                                        *)
Use(r) ==
    LET h == call[r].host IN
    /\ At(r, "use") /\ ~Serving(h)
    /\ UNCHANGED <<lockOf, admin, dropping>>
    /\ \/ h \in up /\ Goto(r, "call") /\ UNCHANGED <<warm, up, keyOf, unread, faults>>
       \/ /\ Outcome(h \notin up)
          /\ call' = [call EXCEPT ![r].at = "evict", ![r].host = None]
          /\ warm' = warm \ {h} /\ Settle(up \ {h}, unread)

Outdated(r) == {h \in warm : keyOf[h].plugin = Plugin(r) /\ keyOf[h] # call[r].key}

(* Before a cold start the plugin's other processes and the idle ones go.      *)
Evict(r) ==
    /\ NoFault
    /\ At(r, "evict")
    /\ \E idle \in SUBSET warm :
        /\ dropping' = [dropping EXCEPT ![r] = idle \cup Outdated(r)]
        /\ warm' = warm \ (idle \cup Outdated(r))
    /\ Goto(r, "start")
    /\ UNCHANGED <<up, keyOf, unread, lockOf, admin>>

\* mutant: nobody waits for the call a process is serving
Dispose_Now(c, h) ==
    /\ NoFault
    /\ h \in dropping[c] /\ dropping' = [dropping EXCEPT ![c] = @ \ {h}]
    /\ UNCHANGED <<warm, lockOf, call, admin>>
    /\ Settle(up \ {h}, unread)
(* Disposing waits for the call the process is serving.                        *)
Dispose(c, h) ==
    /\ NoFault
    /\ h \in dropping[c] /\ ~Serving(h)
    /\ dropping' = [dropping EXCEPT ![c] = @ \ {h}]
    /\ UNCHANGED <<warm, lockOf, call, admin>>
    /\ Settle(up \ {h}, unread)

StartHost(r) ==
    /\ At(r, "start") /\ dropping[r] = {}
    /\ \/ /\ NoFault
          /\ \E h \in Hosts :
              /\ ~Held(h) /\ \A i \in 1..(h-1) : Held(i)
              /\ call' = [call EXCEPT ![r].at = "call", ![r].host = h, ![r].cold = TRUE]
              /\ up' = up \cup {h} /\ unread' = unread \ {h}
              /\ keyOf' = [keyOf EXCEPT ![h] = call[r].key]
       \/ /\ Fault
          /\ call' = [call EXCEPT ![r].at = "done", ![r].result = "bad"]
          /\ UNCHANGED <<up, unread, keyOf>>
    /\ UNCHANGED <<warm, lockOf, admin, dropping>>

(* An answer of this call can be read: the process runs and its pipe does not  *)
(* begin with the answer of an abandoned one.                                  *)
Answers(h) == h \in up /\ h \notin unread

Finish(r, result) ==
    call' = [call EXCEPT ![r].at = "done", ![r].host = None, ![r].result = result]

\* mutant: the map is not cut back
Kept_All(w) == {w}
(* What the map can keep when it is over its limit.                            *)
Kept(w) == kSubset(Min({MaxWarm, Cardinality(w)}), w)

(* An answer the pipeline then accepts ("good") or refuses ("bad"): a new      *)
(* process goes into the map, and the map back to its limit.                   *)
Answer(r, result) ==
    LET h == call[r].host
        w == IF call[r].cold THEN warm \cup {h} ELSE warm IN
    /\ At(r, "call") /\ Answers(h) /\ Finish(r, result)
    /\ Outcome(result = "good")
    /\ warm' \in Kept(w) /\ dropping' = [dropping EXCEPT ![r] = w \ warm']
    /\ UNCHANGED <<lockOf, admin>>
    /\ Settle(up, unread)

(* An answer that is no hook result: a warm process stays, a new one ends.     *)
Misanswer(r) ==
    /\ Fault
    /\ At(r, "call") /\ Answers(call[r].host) /\ Finish(r, "bad")
    /\ UNCHANGED <<warm, lockOf, admin, dropping>>
    /\ Settle(up, unread)

(* The process dies, breaks the protocol, answers too late or with an earlier  *)
(* call's answer: it is killed and leaves the map.                             *)
Break(r) ==
    /\ At(r, "call") /\ Finish(r, "bad")
    /\ Outcome(~Answers(call[r].host))
    /\ warm' = warm \ {call[r].host}
    /\ UNCHANGED <<lockOf, admin, dropping>>
    /\ Settle(up \ {call[r].host}, unread)

(* The caller's future is dropped at any await. The answer a warm process was  *)
(* to give stays unread in its pipe.                                           *)
Abandon(r) ==
    /\ Fault
    /\ ~At(r, "idle") /\ call' = [call EXCEPT ![r] = NoCall]
    /\ dropping' = [dropping EXCEPT ![r] = {}]
    /\ UNCHANGED <<warm, lockOf, admin>>
    /\ Settle(up, IF At(r, "call") /\ ~call[r].cold THEN unread \cup {call[r].host}
                  ELSE unread)

Return(r, ok) ==
    /\ Outcome(ok)
    /\ At(r, "done") /\ dropping[r] = {} /\ call' = [call EXCEPT ![r] = NoCall]
    /\ UNCHANGED <<up, keyOf, unread, warm, lockOf, admin, dropping>>

-------------------------------------------------------------------------------
(* dispose_plugin: under the plugin's lock its processes leave the map and end. *)
DisposePlugin(p) ==
    /\ NoFault
    /\ admin.at = "idle"
    /\ lockOf' = [lockOf EXCEPT ![p] = LockFor(p)]
    /\ admin' = [at |-> "wait", kind |-> "dispose", plugins |-> {p}, lock |-> LockFor(p)]
    /\ UNCHANGED <<up, keyOf, unread, warm, call, dropping>>

(* retain_plugins and dispose_all: with the gate to themselves the processes   *)
(* of the plugins that are not kept leave the map and end.                     *)
TakeGate(kind, gone) ==
    /\ NoFault
    /\ admin.at = "idle"
    /\ admin' = [at |-> "gate", kind |-> kind, plugins |-> gone, lock |-> None]

Remove ==
    LET gone == {h \in warm : keyOf[h].plugin \in admin.plugins} IN
    /\ \/ admin.at = "wait" /\ \A p \in admin.plugins : ~Locked(p, admin.lock)
       \/ admin.at = "gate" /\ ~Reading
    /\ NoFault
    /\ admin' = [admin EXCEPT !.at = "drop",
            !.plugins = IF admin.kind = "retain" THEN {keyOf[h].plugin : h \in gone} ELSE @]
    /\ warm' = warm \ gone /\ dropping' = [dropping EXCEPT ![Admin] = gone]
    /\ UNCHANGED <<up, keyOf, unread, lockOf, call>>

\* mutant: a lock somebody waits for leaves the map
LastHandle_Assumed(p) == TRUE
(* Nobody but the map and the disposal holds the lock (its strong count is 2). *)
LastHandle(p) == lockOf[p] = admin.lock /\ ~InHand(p, admin.lock)

(* The locks go too, unless a caller still has one in hand.                    *)
Disposed ==
    /\ NoFault
    /\ admin.at = "drop" /\ dropping[Admin] = {} /\ admin' = NoAdmin
    /\ lockOf' = [p \in Plugins |->
            IF \/ admin.kind = "all"
               \/ p \in admin.plugins /\ (admin.kind = "retain" \/ LastHandle(p))
            THEN None ELSE lockOf[p]]
    /\ UNCHANGED <<up, keyOf, unread, warm, call, dropping>>

-------------------------------------------------------------------------------
(* The lock map hands out one lock per plugin however calls, disposals and     *)
(* retains come and go: no two of them are between lock and release for one    *)
(* plugin (plugin_lock_for and the removals by strong count).                  *)
PluginExclusive ==
    /\ \A r, s \in Requests :
        HasLock(r) /\ HasLock(s) /\ Plugin(r) = Plugin(s) => r = s
    /\ \A r \in Requests :
        admin.at = "drop" /\ HasLock(r) => admin.kind = "dispose" /\ Plugin(r) \notin admin.plugins

(* A process that serves a call ends by that call's own doing, not by another  *)
(* caller's disposal of what it found in the map.                              *)
ServedUndisturbed ==
    [][\A r \in Requests :
        At(r, "call") /\ call'[r] = call[r] => call[r].host \in up']_registry
=============================================================================
