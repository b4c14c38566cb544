------------------------- MODULE HookPipeline_proofs -------------------------
(* What the registry of plugin hosts and the hook pipeline keep for any plugins, *)
(* requests, hooks, limits and number of processes: their types with the limit  *)
(* of the map, one caller per plugin between lock and release, and that nobody   *)
(* ends a process that serves another's call.                                   *)
EXTENDS HookPipeline, FiniteSetTheorems, TLAPS

Steps == {"idle", "gate", "wait", "use", "evict", "start", "call", "done"}
Call == [at : Steps, key : Key \cup {None}, lock : Locks \cup {None},
         host : Hosts \cup {None}, cold : BOOLEAN, result : {"good", "bad", None},
         probe : BOOLEAN]

\* A call inside the gate has the lock that the map has for its plugin.
LockKept(r) ==
    /\ call[r].at # "idle" => call[r].key \in Key
    /\ IF call[r].at \in {"idle", "gate"} THEN call[r].lock = None
       ELSE call[r].lock \in Locks /\ call[r].lock = lockOf[Plugin(r)]

\* The process a call found or started was started for its key, and runs while it
\* serves the call.
HostKept(r) ==
    /\ call[r].at \in {"use", "call"} =>
           call[r].host \in Hosts /\ keyOf[call[r].host] = call[r].key
    /\ call[r].at = "call" => call[r].host \in up

\* What the map has of a plugin while a call has its lock.
MapKept(r) ==
    \A g \in warm :
        keyOf[g].plugin = Plugin(r) =>
            /\ call[r].at \in {"use", "call"} => g = call[r].host
            /\ call[r].at = "evict" => keyOf[g] # call[r].key
            /\ call[r].at # "start"

\* A process serves one call.
ServesOne ==
    \A r, s \in Requests :
        At(r, "call") /\ At(s, "call") /\ call[r].host = call[s].host => r = s

\* A disposal has the plugin's lock, and a retain drops with nobody inside.
AdminKept ==
    /\ admin.at = "gate" => admin.kind # "dispose"
    /\ admin.at = "wait" => admin.kind = "dispose"
    /\ admin.at \in {"wait", "drop"} /\ admin.kind = "dispose" =>
           /\ admin.lock \in Locks
           /\ \A p \in admin.plugins : lockOf[p] = admin.lock
    /\ admin.at = "drop" /\ admin.kind # "dispose" => ~Reading

\* The inductive invariant.
IInv ==
    /\ TypeOK
    /\ \A r \in Requests : LockKept(r) /\ HostKept(r) /\ MapKept(r)
    /\ \A h \in warm : keyOf[h] \in Key
    /\ ServesOne
    /\ AdminKept
    /\ PluginExclusive

-------------------------------------------------------------------------------
LEMMA CallTyped == Registered => call \in [Requests -> Call]
  BY DEF Registered, Call, Steps

\* Settling changes no process that has a handle.
LEMMA SettleKeeps ==
    ASSUME keyOf \in [Hosts -> Key \cup {None}], NEW running \in SUBSET Hosts,
           NEW pipes \in SUBSET Hosts, Settle(running, pipes)
    PROVE  /\ up' \in SUBSET Hosts /\ unread' \in SUBSET Hosts
           /\ keyOf' \in [Hosts -> Key \cup {None}]
           /\ \A h \in warm' \cup {call'[r].host : r \in Requests} :
                 h \in Hosts => keyOf'[h] = keyOf[h] /\ (h \in running => h \in up')
  BY DEF Settle, Held

\* Where the lock map has none for a plugin, no call has one in hand.
LEMMA LockForTyped ==
    ASSUME IInv, NEW p \in Plugins
    PROVE  /\ LockFor(p) \in Locks
           /\ lockOf[p] # None => LockFor(p) = lockOf[p]
  <1>1. CASE lockOf[p] # None
    BY <1>1 DEF IInv, TypeOK, Registered, LockFor
  <1>2. CASE lockOf[p] = None
    <2>1. \A l \in Locks : ~InHand(p, l)
      <3> SUFFICES ASSUME NEW l \in Locks, NEW r \in Requests,
                          call[r].lock = l, Plugin(r) = p
                   PROVE  FALSE
        BY DEF InHand
      <3>1. l # None BY RegistryAssumption DEF Locks
      <3> QED BY <1>2, <3>1 DEF IInv, LockKept
    <2>2. {l \in Locks : ~InHand(p, l)} = Locks BY <2>1
    <2>3. /\ 1 \in Locks /\ \A l \in Locks : l \in Nat /\ 1 =< l
      BY RegistryAssumption DEF Locks
    <2>4. Min(Locks) \in Locks BY <2>3 DEF Min
    <2> QED BY <1>2, <2>2, <2>4 DEF LockFor
  <1> QED BY <1>1, <1>2

-------------------------------------------------------------------------------
Inside(r) == call[r].at \notin {"idle", "gate"}

\* A step of r leaves the other calls, the disposals and the locks in use.
Moves(r) ==
    /\ call' \in [Requests -> Call]
    /\ \A s \in Requests \ {r} : call'[s] = call[s]
    /\ admin' = admin
    /\ \A p \in Plugins : lockOf[p] # None => lockOf'[p] = lockOf[p]

\* It adds none but its own plugin's process to the map, and ends or starts none
\* that another call uses.
LeavesOthers(r) ==
    /\ \A h \in warm' :
          \/ h \in warm /\ keyOf'[h] = keyOf[h]
          \/ keyOf'[h] \in Key /\ keyOf'[h].plugin = Plugin(r) /\ HasLock(r)
    /\ \A s \in Requests \ {r} :
          /\ call[s].at \in {"use", "call"} => keyOf'[call[s].host] = keyOf[call[s].host]
          /\ At(s, "call") => call[s].host \in up'

\* It takes the gate and the lock only when they are free.
TakesTurn(r) ==
    /\ Inside(r)' => Inside(r) \/ ~Writing
    /\ HasLock(r)' =>
          /\ call'[r].key = call[r].key
          /\ HasLock(r) \/ (At(r, "wait") /\ ~Locked(Plugin(r), call[r].lock))

\* It ends with what the invariant says of its own call.
EndsWell(r) ==
    /\ LockKept(r)' /\ HostKept(r)' /\ MapKept(r)'
    /\ At(r, "call")' =>
          \A s \in Requests \ {r} : At(s, "call") => call[s].host # call'[r].host

LEMMA StepLocks ==
    ASSUME IInv, NEW r \in Requests, Moves(r), EndsWell(r), NEW s \in Requests
    PROVE  LockKept(s)'
  <1>1. CASE s = r BY <1>1 DEF EndsWell
  <1>2. CASE s # r
    <2>1. call'[s] = call[s] /\ LockKept(s) BY <1>2 DEF Moves, IInv
    <2>2. call[s].lock \in Locks => call[s].lock # None
      BY RegistryAssumption DEF Locks
    <2>3. call[s].key \in Key => Plugin(s) \in Plugins BY DEF Key, Plugin
    <2> QED BY <2>1, <2>2, <2>3 DEF LockKept, Moves, Plugin
  <1> QED BY <1>1, <1>2

LEMMA StepHosts ==
    ASSUME IInv, NEW r \in Requests, Moves(r), LeavesOthers(r), EndsWell(r)
    PROVE  /\ \A s \in Requests : HostKept(s)'
           /\ ServesOne'
           /\ \A h \in warm' : keyOf'[h] \in Key
  <1>1. \A s \in Requests : HostKept(s)'
    BY DEF IInv, Moves, LeavesOthers, EndsWell, HostKept, At
  <1>2. ServesOne' BY DEF IInv, Moves, EndsWell, ServesOne, At
  <1>3. \A h \in warm' : keyOf'[h] \in Key BY DEF IInv, LeavesOthers
  <1> QED BY <1>1, <1>2, <1>3

\* Two calls with locks of one plugin are one.
LEMMA StepExclusive ==
    ASSUME IInv, NEW r \in Requests, Moves(r), TakesTurn(r)
    PROVE  PluginExclusive'
  <1>1. ASSUME NEW s \in Requests \ {r}, HasLock(s)', HasLock(r)', Plugin(s)' = Plugin(r)'
        PROVE  FALSE
    <2>1. HasLock(s) /\ Plugin(s) = Plugin(r)
      BY <1>1 DEF HasLock, Plugin, Moves, TakesTurn
    <2>2. ~HasLock(r) BY <2>1, <1>1 DEF IInv, PluginExclusive
    <2>3. At(r, "wait") /\ ~Locked(Plugin(r), call[r].lock)
      BY <2>2, <1>1 DEF TakesTurn
    <2>4. call[s].lock = call[r].lock
      BY <2>1, <2>3 DEF IInv, LockKept, HasLock, At
    <2> QED BY <2>1, <2>3, <2>4 DEF Locked
  <1>2. ASSUME admin'.at = "drop", HasLock(r)'
        PROVE  admin'.kind = "dispose" /\ Plugin(r)' \notin admin'.plugins
    <2>1. Inside(r) BY <1>2 DEF TakesTurn, HasLock, Inside, At
    <2>2. admin' = admin BY DEF Moves
    <2>3. admin.kind = "dispose" BY <2>1, <2>2, <1>2 DEF IInv, AdminKept, Reading, Inside
    <2>4. Plugin(r)' = Plugin(r) BY <1>2 DEF TakesTurn, Plugin
    <2>5. CASE HasLock(r) BY <2>5, <2>2, <2>3, <2>4, <1>2 DEF IInv, PluginExclusive
    <2>6. CASE At(r, "wait") /\ ~Locked(Plugin(r), call[r].lock)
      <3>1. call[r].lock = lockOf[Plugin(r)] BY <2>6 DEF IInv, LockKept, At
      <3>2. Plugin(r) \in admin.plugins => call[r].lock = admin.lock
        BY <3>1, <2>2, <2>3, <1>2 DEF IInv, AdminKept
      <3> QED BY <3>2, <2>2, <2>3, <2>4, <2>6, <1>2 DEF Locked
    <2> QED BY <2>5, <2>6, <1>2 DEF TakesTurn
  <1>3. ASSUME NEW s \in Requests \ {r}
        PROVE  HasLock(s)' = HasLock(s) /\ Plugin(s)' = Plugin(s)
    BY DEF HasLock, Plugin, Moves
  <1>4. admin' = admin BY DEF Moves
  <1> QED BY <1>1, <1>2, <1>3, <1>4 DEF IInv, PluginExclusive

LEMMA StepMap ==
    ASSUME IInv, NEW r \in Requests, Moves(r), LeavesOthers(r), EndsWell(r),
           NEW s \in Requests
    PROVE  MapKept(s)'
  <1>1. CASE s = r BY <1>1 DEF EndsWell
  <1>2. CASE s # r
    <2> SUFFICES ASSUME NEW g \in warm', keyOf'[g].plugin = Plugin(s)'
                 PROVE  /\ call'[s].at \in {"use", "call"} => g = call'[s].host
                        /\ call'[s].at = "evict" => keyOf'[g] # call'[s].key
                        /\ call'[s].at # "start"
      BY DEF MapKept
    <2>1. call'[s] = call[s] /\ Plugin(s)' = Plugin(s) BY <1>2 DEF Moves, Plugin
    <2>2. CASE g \in warm /\ keyOf'[g] = keyOf[g]
      BY <2>1, <2>2 DEF IInv, MapKept
    <2>3. CASE keyOf'[g].plugin = Plugin(r) /\ HasLock(r)
      <3>1. ~HasLock(s) BY <2>1, <2>3, <1>2 DEF IInv, PluginExclusive
      <3> QED BY <3>1, <2>1 DEF HasLock
    <2> QED BY <2>2, <2>3 DEF LeavesOthers
  <1> QED BY <1>1, <1>2

LEMMA StepAdmin ==
    ASSUME IInv, NEW r \in Requests, Moves(r), TakesTurn(r)
    PROVE  AdminKept'
  <1>1. ASSUME admin.at \in {"wait", "drop"}, admin.kind = "dispose", NEW p \in admin.plugins
        PROVE  lockOf'[p] = admin.lock
    <2>1. lockOf[p] = admin.lock /\ admin.lock \in Locks BY <1>1 DEF IInv, AdminKept
    <2>2. lockOf[p] # None BY <2>1, RegistryAssumption DEF Locks
    <2>3. p \in Plugins BY <1>1 DEF IInv, TypeOK, Registered
    <2> QED BY <2>1, <2>2, <2>3 DEF Moves
  <1>2. ASSUME admin.at = "drop", admin.kind # "dispose" PROVE ~Reading'
    <2>1. ~Reading /\ Writing BY <1>2 DEF IInv, AdminKept, Writing
    <2> QED BY <2>1 DEF Reading, Moves, TakesTurn, Inside
  <1>3. admin' = admin BY DEF Moves
  <1> QED BY <1>1, <1>2, <1>3 DEF IInv, AdminKept

LEMMA StepKeeps ==
    ASSUME IInv, NEW r \in Requests, Moves(r), LeavesOthers(r), TakesTurn(r), EndsWell(r),
           TypeOK'
    PROVE  IInv'
  BY StepLocks, StepHosts, StepExclusive, StepMap, StepAdmin DEF IInv

-------------------------------------------------------------------------------
LEMMA WarmLess ==
    ASSUME Registered, NEW W \in SUBSET warm
    PROVE  Cardinality(W) <= MaxWarm
  <1>1. IsFiniteSet(Hosts) BY FS_Interval, RegistryAssumption DEF Hosts
  <1>2. IsFiniteSet(warm) BY <1>1, FS_Subset DEF Registered
  <1>3. Cardinality(W) <= Cardinality(warm) BY <1>2, FS_Subset
  <1>4. Cardinality(W) \in Nat /\ Cardinality(warm) \in Nat
    BY <1>2, FS_Subset, FS_CardinalityType
  <1> QED BY <1>3, <1>4, RegistryAssumption DEF Registered

\* A map that only loses processes keeps its limit, and one process per plugin.
LEMMA LessStaysTyped ==
    ASSUME Registered, warm' \subseteq warm, \A h \in warm' : keyOf'[h] = keyOf[h],
           up' \subseteq Hosts, unread' \subseteq Hosts,
           keyOf' \in [Hosts -> Key \cup {None}],
           lockOf' \in [Plugins -> Locks \cup {None}],
           call' \in [Requests -> Call], admin' = admin,
           dropping' \in [Callers -> SUBSET Hosts], faults' \in 0..MaxFaults
    PROVE  Registered'
  <1>1. Cardinality(warm') <= MaxWarm BY WarmLess
  <1>2. \A g, h \in warm' : keyOf'[g].plugin = keyOf'[h].plugin => g = h
    BY DEF Registered
  <1>3. call' \in [Requests ->
            [at : {"idle", "gate", "wait", "use", "evict", "start", "call", "done"},
             key : Key \cup {None}, lock : Locks \cup {None}, host : Hosts \cup {None},
             cold : BOOLEAN, result : {"good", "bad", None}, probe : BOOLEAN]]
    BY DEF Call, Steps
  <1> QED BY <1>1, <1>2, <1>3 DEF Registered

LEMMA FaultsTyped ==
    ASSUME Registered, NoFault \/ Fault
    PROVE  faults' \in 0..MaxFaults
  BY RegistryAssumption DEF Registered, NoFault, Fault

\* Nothing but the call, and locks that were in no hand, changes.
LEMMA QuietStep ==
    ASSUME IInv, NEW r \in Requests, UNCHANGED <<up, keyOf, unread, warm, admin, dropping>>,
           NoFault \/ Fault, Moves(r), lockOf' \in [Plugins -> Locks \cup {None}]
    PROVE  LeavesOthers(r) /\ Registered'
  <1>1. Registered' BY FaultsTyped, LessStaysTyped DEF IInv, TypeOK, Registered, Moves
  <1>2. LeavesOthers(r) BY DEF LeavesOthers, IInv, HostKept, At
  <1> QED BY <1>1, <1>2

LEMMA EnterStep ==
    ASSUME IInv, NEW r \in Requests, Enter(r)
    PROVE  Moves(r) /\ LeavesOthers(r) /\ TakesTurn(r) /\ EndsWell(r) /\ Registered'
  <1> DEFINE p == Plugin(r)
  <1>1. call \in [Requests -> Call] /\ lockOf \in [Plugins -> Locks \cup {None}]
    BY CallTyped DEF IInv, TypeOK, Registered
  <1>2. call[r].key \in Key /\ p \in Plugins BY DEF Enter, At, IInv, LockKept, Key, Plugin
  <1>3. LockFor(p) \in Locks /\ (lockOf[p] # None => LockFor(p) = lockOf[p])
    BY <1>2, LockForTyped
  <1>4. lockOf' = [lockOf EXCEPT ![p] = LockFor(p)] BY DEF Enter
  <1>5. call' = [call EXCEPT ![r].at = "wait", ![r].lock = LockFor(p)] BY DEF Enter
  <1>6. /\ call' \in [Requests -> Call] /\ \A s \in Requests \ {r} : call'[s] = call[s]
        /\ call'[r].at = "wait" /\ call'[r].lock = LockFor(p)
        /\ call'[r].key = call[r].key
    <2> HIDE DEF p
    <2> QED BY <1>1, <1>3, <1>5 DEF Call, Steps
  <1>7. lockOf' \in [Plugins -> Locks \cup {None}] /\ lockOf'[p] = LockFor(p)
    BY <1>1, <1>2, <1>3, <1>4
  <1>8. Moves(r) BY <1>1, <1>3, <1>4, <1>6 DEF Moves, Enter
  <1>9. LeavesOthers(r) /\ Registered' BY <1>7, <1>8, QuietStep DEF Enter
  <1>10. EndsWell(r)
    BY <1>2, <1>3, <1>6, <1>7 DEF EndsWell, LockKept, HostKept, MapKept, At, Plugin
  <1>11. TakesTurn(r) BY <1>6 DEF TakesTurn, Enter, HasLock, Inside
  <1> QED BY <1>8, <1>9, <1>10, <1>11

LEMMA AcquireStep ==
    ASSUME IInv, NEW r \in Requests, Acquire(r)
    PROVE  Moves(r) /\ LeavesOthers(r) /\ TakesTurn(r) /\ EndsWell(r) /\ Registered'
  <1>1. call \in [Requests -> Call] /\ lockOf \in [Plugins -> Locks \cup {None}]
    BY CallTyped DEF IInv, TypeOK, Registered
  <1>2. PICK h : \/ /\ h \in warm /\ keyOf[h] = call[r].key
                    /\ call' = [call EXCEPT ![r].at = "use", ![r].host = h]
                 \/ /\ \A g \in warm : keyOf[g] # call[r].key
                    /\ call' = [call EXCEPT ![r].at = "evict"]
    BY DEF Acquire, Goto
  <1>3. warm \subseteq Hosts BY DEF IInv, TypeOK, Registered
  <1>4. /\ call' \in [Requests -> Call] /\ \A s \in Requests \ {r} : call'[s] = call[s]
        /\ call'[r].key = call[r].key /\ call'[r].lock = call[r].lock
        /\ \/ call'[r].at = "use" /\ call'[r].host = h /\ h \in warm /\ keyOf[h] = call[r].key
           \/ call'[r].at = "evict" /\ \A g \in warm : keyOf[g] # call[r].key
    BY <1>1, <1>2, <1>3 DEF Call, Steps
  <1>5. Moves(r) BY <1>4 DEF Moves, Acquire
  <1>6. LeavesOthers(r) /\ Registered' BY <1>1, <1>5, QuietStep DEF Acquire
  <1>7. LockKept(r)' BY <1>4 DEF Acquire, IInv, LockKept, At, Plugin
  <1>8. HostKept(r)' BY <1>3, <1>4 DEF Acquire, HostKept
  <1>9. MapKept(r)'
    BY <1>4 DEF Acquire, MapKept, Plugin, IInv, TypeOK, Registered
  <1>10. EndsWell(r) BY <1>4, <1>7, <1>8, <1>9 DEF EndsWell, At
  <1>11. TakesTurn(r) BY <1>4 DEF TakesTurn, Acquire, Inside, At
  <1> QED BY <1>5, <1>6, <1>10, <1>11

\* Processes may end, but for those that serve another call.
LEMMA SettleStep ==
    ASSUME IInv, NEW r \in Requests, Moves(r), lockOf' = lockOf, NoFault \/ Fault,
           NEW running \in SUBSET Hosts, NEW pipes \in SUBSET Hosts,
           Settle(running, pipes), warm' \subseteq warm,
           dropping' \in [Callers -> SUBSET Hosts],
           \A s \in Requests \ {r} : At(s, "call") => call[s].host \in running
    PROVE  LeavesOthers(r) /\ Registered'
  <1>1. keyOf \in [Hosts -> Key \cup {None}] /\ warm \subseteq Hosts
    BY DEF IInv, TypeOK, Registered
  <1>2. /\ up' \subseteq Hosts /\ unread' \subseteq Hosts
        /\ keyOf' \in [Hosts -> Key \cup {None}]
        /\ \A h \in warm' \cup {call'[q].host : q \in Requests} :
              h \in Hosts => keyOf'[h] = keyOf[h] /\ (h \in running => h \in up')
    BY <1>1, SettleKeeps
  <1>3. \A h \in warm' : h \in warm /\ keyOf'[h] = keyOf[h] BY <1>1, <1>2
  <1>4. Registered'
    BY <1>2, <1>3, FaultsTyped, LessStaysTyped DEF IInv, TypeOK, Registered, Moves
  <1>5. ASSUME NEW s \in Requests \ {r}, call[s].at \in {"use", "call"}
        PROVE  /\ keyOf'[call[s].host] = keyOf[call[s].host]
               /\ At(s, "call") => call[s].host \in up'
    BY <1>2, <1>5 DEF Moves, IInv, HostKept, At
  <1> QED BY <1>3, <1>4, <1>5 DEF LeavesOthers, At

LEMMA UseStep ==
    ASSUME IInv, NEW r \in Requests, Use(r)
    PROVE  Moves(r) /\ LeavesOthers(r) /\ TakesTurn(r) /\ EndsWell(r) /\ Registered'
  <1> DEFINE h == call[r].host
  <1>1. call \in [Requests -> Call] /\ lockOf \in [Plugins -> Locks \cup {None}]
    BY CallTyped DEF IInv, TypeOK, Registered
  <1>2. At(r, "use") /\ ~Serving(h) /\ UNCHANGED <<lockOf, admin, dropping>> BY DEF Use
  <1>3. CASE h \in up /\ Goto(r, "call") /\ UNCHANGED <<warm, up, keyOf, unread, faults>>
    <2>1. /\ call' \in [Requests -> Call] /\ \A s \in Requests \ {r} : call'[s] = call[s]
          /\ call'[r].at = "call" /\ call'[r].host = h
          /\ call'[r].key = call[r].key /\ call'[r].lock = call[r].lock
      BY <1>1, <1>3 DEF Goto, Call, Steps
    <2>2. Moves(r) BY <1>2, <2>1 DEF Moves
    <2>3. LeavesOthers(r) /\ Registered'
      <3>1. UNCHANGED <<up, keyOf, unread, warm, admin, dropping>> /\ NoFault
        BY <1>2, <1>3 DEF NoFault
      <3>2. lockOf' \in [Plugins -> Locks \cup {None}] BY <1>1, <1>2
      <3> QED BY <2>2, <3>1, <3>2, QuietStep
    <2>4. LockKept(r)' BY <1>2, <2>1 DEF IInv, LockKept, At, Plugin
    <2>5. HostKept(r)' BY <1>2, <1>3, <2>1 DEF IInv, HostKept, At
    <2>6. MapKept(r)' BY <1>2, <1>3, <2>1 DEF IInv, MapKept, At, Plugin
    <2>7. EndsWell(r) BY <1>2, <2>1, <2>4, <2>5, <2>6 DEF EndsWell, Serving
    <2>8. TakesTurn(r) BY <1>2, <2>1 DEF TakesTurn, HasLock, Inside, At
    <2> QED BY <2>2, <2>3, <2>7, <2>8
  <1>4. CASE /\ Outcome(h \notin up)
             /\ call' = [call EXCEPT ![r].at = "evict", ![r].host = None]
             /\ warm' = warm \ {h} /\ Settle(up \ {h}, unread)
    <2>1. /\ call' \in [Requests -> Call] /\ \A s \in Requests \ {r} : call'[s] = call[s]
          /\ call'[r].at = "evict"
          /\ call'[r].key = call[r].key /\ call'[r].lock = call[r].lock
      BY <1>1, <1>4 DEF Call, Steps
    <2>2. Moves(r) BY <1>2, <2>1 DEF Moves
    <2>3. ASSUME NEW s \in Requests \ {r}, At(s, "call") PROVE call[s].host \in up \ {h}
      BY <1>2, <2>3 DEF Serving, IInv, HostKept, At
    <2>4. NoFault \/ Fault BY <1>4 DEF Outcome
    <2>5. dropping' \in [Callers -> SUBSET Hosts] BY <1>2 DEF IInv, TypeOK, Registered
    <2>6. up \ {h} \in SUBSET Hosts /\ unread \in SUBSET Hosts
      BY DEF IInv, TypeOK, Registered
    <2>7. LeavesOthers(r) /\ Registered'
      BY <1>2, <1>4, <2>2, <2>3, <2>4, <2>5, <2>6, SettleStep
    <2>8. LockKept(r)' BY <1>2, <2>1 DEF IInv, LockKept, At, Plugin
    <2>9. HostKept(r)' BY <2>1 DEF HostKept
    <2>10. MapKept(r)'
      <3> SUFFICES ASSUME NEW g \in warm', keyOf'[g].plugin = Plugin(r)' PROVE FALSE
        BY <2>1 DEF MapKept
      <3>1. Plugin(r)' = Plugin(r) BY <2>1 DEF Plugin
      <3>2. g # h /\ g \in warm BY <1>4
      <3>3. keyOf'[g] = keyOf[g] \/ Plugin(r)' # Plugin(r)
        <4>1. warm \subseteq Hosts /\ keyOf \in [Hosts -> Key \cup {None}]
          BY DEF IInv, TypeOK, Registered
        <4>2. \A i \in warm' \cup {call'[q].host : q \in Requests} :
                i \in Hosts => keyOf'[i] = keyOf[i] /\ (i \in up \ {h} => i \in up')
          BY <4>1, <1>4, <2>6, SettleKeeps
        <4> QED BY <4>1, <4>2, <3>2
      <3> QED BY <3>1, <3>2, <3>3, <1>2 DEF IInv, MapKept, At
    <2>11. EndsWell(r) BY <2>1, <2>8, <2>9, <2>10 DEF EndsWell, At
    <2>12. TakesTurn(r) BY <1>2, <2>1 DEF TakesTurn, HasLock, Inside, At
    <2> QED BY <2>2, <2>7, <2>11, <2>12
  <1> QED BY <1>3, <1>4 DEF Use

LEMMA EvictStep ==
    ASSUME IInv, NEW r \in Requests, Evict(r)
    PROVE  Moves(r) /\ LeavesOthers(r) /\ TakesTurn(r) /\ EndsWell(r) /\ Registered'
  <1>1. call \in [Requests -> Call] /\ lockOf \in [Plugins -> Locks \cup {None}]
    BY CallTyped DEF IInv, TypeOK, Registered
  <1>2. PICK idle \in SUBSET warm :
            /\ dropping' = [dropping EXCEPT ![r] = idle \cup Outdated(r)]
            /\ warm' = warm \ (idle \cup Outdated(r))
    BY DEF Evict
  <1>3. /\ At(r, "evict") /\ Goto(r, "start") /\ NoFault
        /\ UNCHANGED <<up, keyOf, unread, lockOf, admin>>
    BY DEF Evict
  <1>4. /\ call' \in [Requests -> Call] /\ \A s \in Requests \ {r} : call'[s] = call[s]
        /\ call'[r].at = "start"
        /\ call'[r].key = call[r].key /\ call'[r].lock = call[r].lock
    BY <1>1, <1>3 DEF Goto, Call, Steps
  <1>5. Moves(r) BY <1>3, <1>4 DEF Moves
  <1>6. dropping' \in [Callers -> SUBSET Hosts]
    BY <1>2 DEF Outdated, IInv, TypeOK, Registered
  <1>7. Registered'
    <2>1. warm' \subseteq warm /\ \A h \in warm' : keyOf'[h] = keyOf[h] BY <1>2, <1>3
    <2>2. faults' \in 0..MaxFaults BY <1>3, FaultsTyped DEF IInv, TypeOK
    <2> QED
      BY <1>3, <1>4, <1>6, <2>1, <2>2, LessStaysTyped DEF IInv, TypeOK, Registered
  <1>8. LeavesOthers(r) BY <1>2, <1>3 DEF LeavesOthers, IInv, HostKept, At
  <1>9. LockKept(r)' BY <1>3, <1>4 DEF IInv, LockKept, At, Plugin
  <1>10. MapKept(r)'
    BY <1>2, <1>3, <1>4 DEF IInv, MapKept, At, Plugin, Outdated
  <1>11. EndsWell(r) BY <1>4, <1>9, <1>10 DEF EndsWell, HostKept, At
  <1>12. TakesTurn(r) BY <1>3, <1>4 DEF TakesTurn, HasLock, Inside, At
  <1> QED BY <1>5, <1>7, <1>8, <1>11, <1>12

LEMMA StartHostStep ==
    ASSUME IInv, NEW r \in Requests, StartHost(r)
    PROVE  Moves(r) /\ LeavesOthers(r) /\ TakesTurn(r) /\ EndsWell(r) /\ Registered'
  <1>1. call \in [Requests -> Call] /\ lockOf \in [Plugins -> Locks \cup {None}]
    BY CallTyped DEF IInv, TypeOK, Registered
  <1>2. At(r, "start") /\ UNCHANGED <<warm, lockOf, admin, dropping>> BY DEF StartHost
  <1>3. ASSUME NEW h \in Hosts, NoFault, ~Held(h),
               call' = [call EXCEPT ![r].at = "call", ![r].host = h, ![r].cold = TRUE],
               up' = up \cup {h}, unread' = unread \ {h},
               keyOf' = [keyOf EXCEPT ![h] = call[r].key]
        PROVE  Moves(r) /\ LeavesOthers(r) /\ TakesTurn(r) /\ EndsWell(r) /\ Registered'
    <2>1. /\ call' \in [Requests -> Call] /\ \A s \in Requests \ {r} : call'[s] = call[s]
          /\ call'[r].at = "call" /\ call'[r].host = h
          /\ call'[r].key = call[r].key /\ call'[r].lock = call[r].lock
      BY <1>1, <1>3 DEF Call, Steps
    <2>2. Moves(r) BY <1>2, <2>1 DEF Moves
    <2>3. h \notin warm /\ \A s \in Requests : call[s].host # h BY <1>3 DEF Held
    <2>4. call[r].key \in Key BY <1>2 DEF IInv, LockKept, At
    <2>5. keyOf' \in [Hosts -> Key \cup {None}] /\ keyOf'[h] = call[r].key
      BY <1>3, <2>4 DEF IInv, TypeOK, Registered
    <2>6. \A g \in warm' : g \in warm /\ keyOf'[g] = keyOf[g]
      BY <1>2, <1>3, <2>3 DEF IInv, TypeOK, Registered
    <2>7. LeavesOthers(r)
      BY <1>3, <2>3, <2>6 DEF LeavesOthers, IInv, HostKept, At, TypeOK, Registered
    <2>8. Registered'
      <3>1. faults' \in 0..MaxFaults BY <1>3, FaultsTyped DEF IInv, TypeOK
      <3>2. up' \subseteq Hosts /\ unread' \subseteq Hosts
        BY <1>3 DEF IInv, TypeOK, Registered
      <3> QED
        BY <1>1, <1>2, <2>1, <2>5, <2>6, <3>1, <3>2, LessStaysTyped
        DEF IInv, TypeOK, Registered
    <2>9. LockKept(r)' BY <1>2, <2>1 DEF IInv, LockKept, At, Plugin
    <2>10. HostKept(r)' BY <1>3, <2>1, <2>5 DEF HostKept
    <2>11. MapKept(r)' BY <1>2, <2>1, <2>6 DEF IInv, MapKept, At, Plugin
    <2>12. EndsWell(r) BY <2>1, <2>3, <2>9, <2>10, <2>11 DEF EndsWell
    <2>13. TakesTurn(r) BY <1>2, <2>1 DEF TakesTurn, HasLock, Inside, At
    <2> QED BY <2>2, <2>7, <2>8, <2>12, <2>13
  <1>4. CASE /\ Fault
             /\ call' = [call EXCEPT ![r].at = "done", ![r].result = "bad"]
             /\ UNCHANGED <<up, unread, keyOf>>
    <2>1. /\ call' \in [Requests -> Call] /\ \A s \in Requests \ {r} : call'[s] = call[s]
          /\ call'[r].at = "done"
          /\ call'[r].key = call[r].key /\ call'[r].lock = call[r].lock
      BY <1>1, <1>4 DEF Call, Steps
    <2>2. Moves(r) BY <1>2, <2>1 DEF Moves
    <2>3. LeavesOthers(r) /\ Registered'
      <3>1. UNCHANGED <<up, keyOf, unread, warm, admin, dropping>> BY <1>2, <1>4
      <3>2. lockOf' \in [Plugins -> Locks \cup {None}] BY <1>1, <1>2
      <3> QED BY <1>4, <2>2, <3>1, <3>2, QuietStep
    <2>4. LockKept(r)' BY <1>2, <2>1 DEF IInv, LockKept, At, Plugin
    <2>5. EndsWell(r) BY <2>1, <2>4 DEF EndsWell, HostKept, MapKept, At
    <2>6. TakesTurn(r) BY <1>2, <2>1 DEF TakesTurn, HasLock, Inside, At
    <2> QED BY <2>2, <2>3, <2>5, <2>6
  <1> QED BY <1>3, <1>4 DEF StartHost

\* A call that ends keeps its lock until it is recorded.
LEMMA FinishStep ==
    ASSUME IInv, NEW r \in Requests, At(r, "call"),
           NEW result \in {"good", "bad"}, Finish(r, result), lockOf' = lockOf, admin' = admin
    PROVE  Moves(r) /\ TakesTurn(r) /\ EndsWell(r)
  <1>1. call \in [Requests -> Call] BY CallTyped DEF IInv, TypeOK
  <1>2. /\ call' \in [Requests -> Call] /\ \A s \in Requests \ {r} : call'[s] = call[s]
        /\ call'[r].at = "done"
        /\ call'[r].key = call[r].key /\ call'[r].lock = call[r].lock
    <2> DEFINE c == [call[r] EXCEPT !.at = "done", !.host = None, !.result = result]
    <2>1. call' = [call EXCEPT ![r] = c] BY <1>1 DEF Finish
    <2>2. call[r] \in Call BY <1>1
    <2>3. c \in Call /\ c.at = "done" /\ c.key = call[r].key /\ c.lock = call[r].lock
      BY <2>2 DEF Call, Steps
    <2> HIDE DEF c
    <2> QED BY <1>1, <2>1, <2>3
  <1>3. Moves(r) BY <1>2 DEF Moves
  <1>4. LockKept(r)' BY <1>2 DEF IInv, LockKept, At, Plugin
  <1>5. EndsWell(r) BY <1>2, <1>4 DEF EndsWell, HostKept, MapKept, At
  <1>6. TakesTurn(r) BY <1>2 DEF TakesTurn, HasLock, Inside, At
  <1> QED BY <1>3, <1>5, <1>6

LEMMA MisanswerStep ==
    ASSUME IInv, NEW r \in Requests, Misanswer(r)
    PROVE  Moves(r) /\ LeavesOthers(r) /\ TakesTurn(r) /\ EndsWell(r) /\ Registered'
  <1>1. /\ At(r, "call") /\ Finish(r, "bad") /\ Fault /\ Settle(up, unread)
        /\ UNCHANGED <<warm, lockOf, admin, dropping>>
    BY DEF Misanswer
  <1>2. Moves(r) /\ TakesTurn(r) /\ EndsWell(r) BY <1>1, FinishStep
  <1>3. up \in SUBSET Hosts /\ unread \in SUBSET Hosts /\ dropping \in [Callers -> SUBSET Hosts]
    BY DEF IInv, TypeOK, Registered
  <1>4. \A s \in Requests \ {r} : At(s, "call") => call[s].host \in up
    BY DEF IInv, HostKept, At
  <1>5. LeavesOthers(r) /\ Registered' BY <1>1, <1>2, <1>3, <1>4, SettleStep
  <1> QED BY <1>2, <1>5

LEMMA BreakStep ==
    ASSUME IInv, NEW r \in Requests, Break(r)
    PROVE  Moves(r) /\ LeavesOthers(r) /\ TakesTurn(r) /\ EndsWell(r) /\ Registered'
  <1> DEFINE h == call[r].host
  <1>1. /\ At(r, "call") /\ Finish(r, "bad") /\ (NoFault \/ Fault)
        /\ Settle(up \ {h}, unread) /\ warm' = warm \ {h}
        /\ UNCHANGED <<lockOf, admin, dropping>>
    BY DEF Break, Outcome
  <1>2. Moves(r) /\ TakesTurn(r) /\ EndsWell(r) BY <1>1, FinishStep
  <1>3. /\ up \ {h} \in SUBSET Hosts /\ unread \in SUBSET Hosts
        /\ dropping \in [Callers -> SUBSET Hosts]
    BY DEF IInv, TypeOK, Registered
  <1>4. \A s \in Requests \ {r} : At(s, "call") => call[s].host \in up \ {h}
    BY <1>1 DEF IInv, HostKept, ServesOne, At
  <1>5. LeavesOthers(r) /\ Registered' BY <1>1, <1>2, <1>3, <1>4, SettleStep
  <1> QED BY <1>2, <1>5

\* Cutting the map back leaves some of its processes, and no more than the limit.
LEMMA KeptBounded ==
    ASSUME NEW w \in SUBSET Hosts, NEW k \in Kept(w)
    PROVE  k \subseteq w /\ Cardinality(k) <= MaxWarm
  <1>1. IsFiniteSet(w)
    <2>1. IsFiniteSet(Hosts) BY FS_Interval, RegistryAssumption DEF Hosts
    <2> QED BY <2>1, FS_Subset
  <1>2. Cardinality(w) \in Nat /\ MaxWarm \in Nat
    BY <1>1, FS_CardinalityType, RegistryAssumption
  <1> DEFINE m == Min({MaxWarm, Cardinality(w)})
  <1>3. k \subseteq w /\ Cardinality(k) = m BY DEF Kept, kSubset
  <1>4. \E x \in {MaxWarm, Cardinality(w)} :
            \A y \in {MaxWarm, Cardinality(w)} : x =< y
    BY <1>2
  <1>5. m \in {MaxWarm, Cardinality(w)} /\ \A y \in {MaxWarm, Cardinality(w)} : m =< y
    BY <1>4 DEF Min
  <1> HIDE DEF m
  <1> QED BY <1>2, <1>3, <1>5

LEMMA AnswerStep ==
    ASSUME IInv, NEW r \in Requests, NEW result \in {"good", "bad"}, Answer(r, result)
    PROVE  Moves(r) /\ LeavesOthers(r) /\ TakesTurn(r) /\ EndsWell(r) /\ Registered'
  <1> DEFINE h == call[r].host
             w == IF call[r].cold THEN warm \cup {h} ELSE warm
  <1>1. /\ At(r, "call") /\ Finish(r, result) /\ (NoFault \/ Fault)
        /\ warm' \in Kept(w) /\ dropping' = [dropping EXCEPT ![r] = w \ warm']
        /\ UNCHANGED <<lockOf, admin>> /\ Settle(up, unread)
    BY DEF Answer, Outcome
  <1>2. Moves(r) /\ TakesTurn(r) /\ EndsWell(r) BY <1>1, FinishStep
  <1>3. /\ up \in SUBSET Hosts /\ unread \in SUBSET Hosts /\ warm \in SUBSET Hosts
        /\ dropping \in [Callers -> SUBSET Hosts]
        /\ keyOf \in [Hosts -> Key \cup {None}]
    BY DEF IInv, TypeOK, Registered
  <1>4. h \in Hosts /\ keyOf[h] = call[r].key /\ call[r].key \in Key
    BY <1>1 DEF IInv, HostKept, LockKept, At
  <1>5. w \subseteq warm \cup {h} /\ w \in SUBSET Hosts BY <1>3, <1>4
  <1>6. warm' \subseteq w /\ Cardinality(warm') <= MaxWarm BY <1>1, <1>5, KeptBounded
  <1>7. /\ up' \in SUBSET Hosts /\ unread' \in SUBSET Hosts
        /\ keyOf' \in [Hosts -> Key \cup {None}]
        /\ \A g \in warm' \cup {call'[q].host : q \in Requests} :
              g \in Hosts => keyOf'[g] = keyOf[g] /\ (g \in up => g \in up')
    BY <1>1, <1>3, SettleKeeps
  <1>8. \A g \in warm' : keyOf'[g] = keyOf[g] /\ (g \in warm \/ g = h)
    BY <1>5, <1>6, <1>7
  <1>9. LeavesOthers(r)
    <2>1. HasLock(r) BY <1>1 DEF HasLock, At
    <2>2. ASSUME NEW g \in warm'
          PROVE  \/ g \in warm /\ keyOf'[g] = keyOf[g]
                 \/ keyOf'[g] \in Key /\ keyOf'[g].plugin = Plugin(r) /\ HasLock(r)
      BY <1>4, <1>8, <2>1 DEF Plugin
    <2>3. ASSUME NEW s \in Requests \ {r}, call[s].at \in {"use", "call"}
          PROVE  /\ keyOf'[call[s].host] = keyOf[call[s].host]
                 /\ At(s, "call") => call[s].host \in up'
      BY <1>2, <1>7, <2>3 DEF Moves, IInv, HostKept, At
    <2> QED BY <2>2, <2>3 DEF LeavesOthers, At
  <1>10. \A g, i \in warm' : keyOf'[g].plugin = keyOf'[i].plugin => g = i
    <2>1. \A g \in warm : keyOf[g].plugin = keyOf[h].plugin => g = h
      BY <1>1, <1>4 DEF IInv, MapKept, Plugin, At
    <2>2. \A g, i \in warm : keyOf[g].plugin = keyOf[i].plugin => g = i
      BY DEF IInv, TypeOK, Registered
    <2> HIDE DEF h
    <2> QED BY <1>8, <2>1, <2>2
  <1>11. Registered'
    <2>1. faults' \in 0..MaxFaults BY <1>1, FaultsTyped DEF IInv, TypeOK
    <2>2. dropping' \in [Callers -> SUBSET Hosts] BY <1>1, <1>3, <1>5
    <2>3. warm' \subseteq Hosts BY <1>5, <1>6
    <2>4. call' \in [Requests -> Call] BY <1>2 DEF Moves
    <2> QED
      BY <1>1, <1>6, <1>7, <1>10, <2>1, <2>2, <2>3, <2>4
      DEF IInv, TypeOK, Registered, Call, Steps
  <1> QED BY <1>2, <1>9, <1>11

-------------------------------------------------------------------------------
\* A step of a call inside the registry.
LEMMA HostedStep ==
    ASSUME IInv, NEW r \in Requests, Hosted(r), UNCHANGED pipeline
    PROVE  IInv'
  <1>1. Moves(r) /\ LeavesOthers(r) /\ TakesTurn(r) /\ EndsWell(r) /\ Registered'
    BY EnterStep, AcquireStep, UseStep, EvictStep, StartHostStep, AnswerStep,
       MisanswerStep, BreakStep DEF Hosted
  <1>2. TypeOK' BY <1>1 DEF IInv, TypeOK, pipeline
  <1> QED BY <1>1, <1>2, StepKeeps

\* Steps of the pipeline that leave the registry alone.
LEMMA RegistryStill ==
    ASSUME IInv, UNCHANGED registry, TypeOK'
    PROVE  IInv'
  BY DEF IInv, registry, LockKept, HostKept, MapKept, ServesOne, AdminKept, PluginExclusive,
         At, Plugin, HasLock, Reading

LEMMA SnapshotTyped ==
    ASSUME TypeOK, NEW r \in Requests
    PROVE  Snapshot(r) \subseteq Key
  <1> SUFFICES ASSUME NEW p \in Range(HookOf[r]), active[p] # 0
               PROVE  [plugin |-> p, version |-> active[p]] \in Key
    BY DEF Snapshot
  <1>1. HookOf[r] \in Seq(Plugins) BY PipelineAssumption
  <1>2. p \in Plugins BY <1>1 DEF Range
  <1>3. active[p] \in 1..MaxVersion BY <1>2, RegistryAssumption DEF TypeOK
  <1> QED BY <1>2, <1>3 DEF Key

LEMMA BeginStep ==
    ASSUME IInv, NEW r \in Requests, Begin(r)
    PROVE  IInv'
  <1>1. TypeOK'
    <2>1. TypeOK BY DEF IInv
    <2>2. todo' \in [Requests -> SUBSET Key] BY <2>1, SnapshotTyped DEF Begin, TypeOK
    <2>3. Registered' BY <2>1 DEF Begin, registry, TypeOK, Registered
    <2> QED BY <2>1, <2>2, <2>3 DEF TypeOK, Begin
  <1> QED BY <1>1, RegistryStill DEF Begin

Circuit == [failures : 0..Threshold, open : BOOLEAN, cooled : BOOLEAN, half : BOOLEAN]
GoodCircuit(c) ==
    /\ c.open <=> c.failures = Threshold
    /\ c.half => c.open /\ c.cooled

LEMMA CircuitSteps ==
    ASSUME NEW c \in Circuit, GoodCircuit(c)
    PROVE  /\ NewCircuit \in Circuit /\ GoodCircuit(NewCircuit)
           /\ Failed(c) \in Circuit /\ GoodCircuit(Failed(c))
  BY PipelineAssumption DEF Circuit, GoodCircuit, NewCircuit, Failed

LEMMA CheckStep ==
    ASSUME IInv, NEW r \in Requests, Check(r)
    PROVE  IInv'
  <1>1. TypeOK /\ call \in [Requests -> Call] BY CallTyped DEF IInv, TypeOK
  <1>2. /\ At(r, "idle")
        /\ UNCHANGED <<up, keyOf, unread, warm, lockOf, admin, dropping, faults,
                       active, lost, changes>>
    BY DEF Check
  <1>3. ASSUME NEW k \in todo[r], todo' = [todo EXCEPT ![r] = @ \ {k}],
               UNCHANGED <<call, circuits>>
        PROVE  IInv'
    <2>1. Registered' BY <1>1, <1>2, <1>3 DEF TypeOK, Registered
    <2>2. TypeOK' BY <1>1, <1>2, <1>3, <2>1 DEF TypeOK
    <2> QED BY <1>2, <1>3, <2>2, RegistryStill DEF registry
  <1>4. ASSUME NEW k \in todo[r], ~Skips(k.plugin), UNCHANGED todo,
               call' = [call EXCEPT ![r].at = "gate", ![r].key = k,
                                    ![r].probe = Probes(k.plugin)],
               circuits' = [circuits EXCEPT ![k.plugin].half = Probes(k.plugin)]
        PROVE  IInv'
    <2>1. k \in Key /\ k.plugin \in Plugins BY <1>1, <1>4 DEF TypeOK, Key
    <2>2. circuits[k.plugin] \in Circuit /\ GoodCircuit(circuits[k.plugin])
      BY <1>1, <2>1 DEF TypeOK, Circuit, GoodCircuit
    <2>3. Probes(k.plugin) \in BOOLEAN BY DEF Probes
    <2> DEFINE c == [call[r] EXCEPT !.at = "gate", !.key = k, !.probe = Probes(k.plugin)]
               t == [circuits[k.plugin] EXCEPT !.half = Probes(k.plugin)]
    <2>4. call' = [call EXCEPT ![r] = c] BY <1>1, <1>4
    <2>5. call[r] \in Call BY <1>1
    <2>6. c \in Call /\ c.at = "gate" /\ c.key = k /\ c.lock = call[r].lock
      BY <2>1, <2>3, <2>5 DEF Call, Steps
    <2>7. circuits' = [circuits EXCEPT ![k.plugin] = t] BY <1>1, <1>4 DEF TypeOK
    <2>8. t \in Circuit /\ GoodCircuit(t)
      BY <2>2, <2>3 DEF Circuit, GoodCircuit, Probes
    <2> HIDE DEF c, t
    <2>9. /\ call' \in [Requests -> Call] /\ \A s \in Requests \ {r} : call'[s] = call[s]
          /\ call'[r] = c
      BY <1>1, <2>4, <2>6
    <2>10. Moves(r) BY <1>2, <2>9 DEF Moves
    <2>11. LeavesOthers(r) /\ Registered'
      <3>1. NoFault /\ UNCHANGED <<up, keyOf, unread, warm, admin, dropping>>
        BY <1>2 DEF NoFault
      <3>2. lockOf' \in [Plugins -> Locks \cup {None}] BY <1>1, <1>2 DEF TypeOK, Registered
      <3> QED BY <2>10, <3>1, <3>2, QuietStep
    <2>12. call[r].lock = None BY <1>2 DEF IInv, LockKept, At
    <2>13. EndsWell(r)
      BY <2>1, <2>6, <2>9, <2>12 DEF EndsWell, LockKept, HostKept, MapKept, At
    <2>14. TakesTurn(r) BY <2>6, <2>9 DEF TakesTurn, HasLock, Inside
    <2>15. TypeOK'
      <3>1. circuits' \in [Plugins -> Circuit] /\ \A p \in Plugins : GoodCircuit(circuits'[p])
        BY <1>1, <2>1, <2>7, <2>8 DEF TypeOK, Circuit, GoodCircuit
      <3> QED BY <1>1, <1>2, <1>4, <2>11, <3>1 DEF TypeOK, Circuit, GoodCircuit
    <2> QED BY <2>10, <2>11, <2>13, <2>14, <2>15, StepKeeps
  <1> QED BY <1>3, <1>4 DEF Check

\* A call that is over is as none.
LEMMA NoCallStep ==
    ASSUME IInv, NEW r \in Requests, call' = [call EXCEPT ![r] = NoCall],
           admin' = admin, lockOf' = lockOf
    PROVE  Moves(r) /\ TakesTurn(r) /\ EndsWell(r)
  <1>1. call \in [Requests -> Call] BY CallTyped DEF IInv, TypeOK
  <1>2. NoCall \in Call /\ NoCall.at = "idle" /\ NoCall.lock = None
    BY DEF NoCall, Call, Steps
  <1>3. /\ call' \in [Requests -> Call] /\ \A s \in Requests \ {r} : call'[s] = call[s]
        /\ call'[r].at = "idle" /\ call'[r].lock = None
    BY <1>1, <1>2
  <1>4. Moves(r) BY <1>3 DEF Moves
  <1>5. EndsWell(r) BY <1>3 DEF EndsWell, LockKept, HostKept, MapKept, At
  <1>6. TakesTurn(r) BY <1>3 DEF TakesTurn, HasLock, Inside
  <1> QED BY <1>4, <1>5, <1>6

LEMMA RecordStep ==
    ASSUME IInv, NEW r \in Requests, Record(r)
    PROVE  IInv'
  <1>1. TypeOK /\ lockOf \in [Plugins -> Locks \cup {None}]
    BY DEF IInv, TypeOK, Registered
  <1>2. /\ NoFault \/ Fault
        /\ At(r, "done") /\ call' = [call EXCEPT ![r] = NoCall]
        /\ UNCHANGED <<up, keyOf, unread, warm, lockOf, admin, dropping>>
    BY DEF Record, Return, Outcome
  <1>3. Moves(r) /\ TakesTurn(r) /\ EndsWell(r) BY <1>2, NoCallStep
  <1>4. LeavesOthers(r) /\ Registered' BY <1>1, <1>2, <1>3, QuietStep
  <1> DEFINE p == Plugin(r)
  <1>5. p \in Plugins BY <1>2 DEF IInv, LockKept, At, Key, Plugin
  <1>6. circuits[p] \in Circuit /\ GoodCircuit(circuits[p])
    BY <1>1, <1>5 DEF TypeOK, Circuit, GoodCircuit
  <1>7. PICK c \in {NewCircuit, Failed(circuits[p])} : circuits' = [circuits EXCEPT ![p] = c]
    BY <1>1, <1>5 DEF Record, Accept, Reject, TypeOK
  <1>8. c \in Circuit /\ GoodCircuit(c) BY <1>6, <1>7, CircuitSteps
  <1>9. lost' \subseteq Plugins /\ UNCHANGED <<active, changes>> BY <1>1 DEF Record, TypeOK
  <1>10. todo' \in [Requests -> SUBSET Key] BY <1>1 DEF Record, Accept, Reject, TypeOK
  <1> HIDE DEF p
  <1>11. circuits' \in [Plugins -> Circuit] /\ \A q \in Plugins : GoodCircuit(circuits'[q])
    BY <1>1, <1>5, <1>7, <1>8 DEF TypeOK, Circuit, GoodCircuit
  <1>12. TypeOK' BY <1>1, <1>4, <1>9, <1>10, <1>11 DEF TypeOK, Circuit, GoodCircuit
  <1> QED BY <1>3, <1>4, <1>12, StepKeeps

LEMMA LeaveStep ==
    ASSUME IInv, NEW r \in Requests, Leave(r)
    PROVE  IInv'
  <1> DEFINE pipes == IF At(r, "call") /\ ~call[r].cold THEN unread \cup {call[r].host}
                      ELSE unread
  <1>1. TypeOK BY DEF IInv
  <1>2. /\ Fault /\ ~At(r, "idle") /\ call' = [call EXCEPT ![r] = NoCall]
        /\ dropping' = [dropping EXCEPT ![r] = {}]
        /\ UNCHANGED <<warm, lockOf, admin>> /\ Settle(up, pipes)
    BY DEF Leave, Abandon
  <1>3. Moves(r) /\ TakesTurn(r) /\ EndsWell(r) BY <1>2, NoCallStep
  <1>4. /\ up \in SUBSET Hosts /\ unread \in SUBSET Hosts
        /\ dropping' \in [Callers -> SUBSET Hosts]
    BY <1>1, <1>2 DEF TypeOK, Registered
  <1>5. pipes \in SUBSET Hosts BY <1>4 DEF IInv, HostKept, At
  <1>6. \A s \in Requests \ {r} : At(s, "call") => call[s].host \in up
    BY DEF IInv, HostKept, At
  <1> HIDE DEF pipes
  <1>7. LeavesOthers(r) /\ Registered'
    BY <1>2, <1>3, <1>4, <1>5, <1>6, SettleStep
  <1>8. ~At(r, "idle") => Plugin(r) \in Plugins BY DEF IInv, LockKept, At, Key, Plugin
  <1>9. lost' \subseteq Plugins BY <1>1, <1>2, <1>8 DEF Leave, TypeOK
  <1>10. todo' \in [Requests -> SUBSET Key] BY <1>1 DEF Leave, TypeOK
  <1>11. TypeOK' BY <1>1, <1>7, <1>9, <1>10 DEF TypeOK, Leave
  <1> QED BY <1>3, <1>7, <1>11, StepKeeps

LEMMA CoolStep ==
    ASSUME IInv, NEW p \in Plugins, Cool(p)
    PROVE  IInv'
  <1>1. TypeOK BY DEF IInv
  <1> DEFINE t == [circuits[p] EXCEPT !.cooled = TRUE]
  <1>2. circuits' = [circuits EXCEPT ![p] = t] BY <1>1 DEF Cool, TypeOK
  <1>3. t \in Circuit /\ GoodCircuit(t) BY <1>1 DEF TypeOK, Circuit, GoodCircuit, Cool
  <1> HIDE DEF t
  <1>4. circuits' \in [Plugins -> Circuit] /\ \A q \in Plugins : GoodCircuit(circuits'[q])
    BY <1>1, <1>2, <1>3 DEF TypeOK, Circuit, GoodCircuit
  <1>5. Registered' BY <1>1 DEF Cool, registry, TypeOK, Registered
  <1>6. TypeOK' BY <1>1, <1>4, <1>5 DEF TypeOK, Circuit, GoodCircuit, Cool
  <1> QED BY <1>6, RegistryStill DEF Cool

-------------------------------------------------------------------------------
\* Steps beside the calls: none of the processes that serve one ends.
CallsStay ==
    /\ call' = call /\ warm' \subseteq warm
    /\ \A h \in warm' : keyOf'[h] = keyOf[h]
    /\ \A r \in Requests :
          /\ call[r].at \in {"use", "call"} => keyOf'[call[r].host] = keyOf[call[r].host]
          /\ At(r, "call") => call[r].host \in up'
          /\ Inside(r) => lockOf'[Plugin(r)] = lockOf[Plugin(r)]

LEMMA CallsStayKept ==
    ASSUME IInv, CallsStay
    PROVE  /\ \A r \in Requests : LockKept(r)' /\ HostKept(r)' /\ MapKept(r)'
           /\ \A h \in warm' : keyOf'[h] \in Key
           /\ ServesOne'
  <1>1. ASSUME NEW r \in Requests PROVE LockKept(r)'
    BY DEF IInv, CallsStay, LockKept, Inside, Plugin
  <1>2. ASSUME NEW r \in Requests PROVE HostKept(r)'
    BY DEF IInv, CallsStay, HostKept, At
  <1>3. ASSUME NEW r \in Requests PROVE MapKept(r)'
    BY DEF IInv, CallsStay, MapKept, Plugin
  <1>4. \A h \in warm' : keyOf'[h] \in Key BY DEF IInv, CallsStay
  <1>5. ServesOne' BY DEF IInv, CallsStay, ServesOne, At
  <1> QED BY <1>1, <1>2, <1>3, <1>4, <1>5

LEMMA ExclusiveStays ==
    ASSUME IInv, call' = call,
           admin'.at = "drop" => \A r \in Requests :
               HasLock(r) => admin'.kind = "dispose" /\ Plugin(r) \notin admin'.plugins
    PROVE  PluginExclusive'
  BY DEF IInv, PluginExclusive, HasLock, Plugin

Disposal == [at : {"idle", "gate", "wait", "drop"}, kind : {"dispose", "retain", "all"},
             plugins : SUBSET Plugins, lock : Locks \cup {None}]

LEMMA TakeGateStep ==
    ASSUME IInv, NEW kind \in {"retain", "all"}, NEW gone \in SUBSET Plugins,
           TakeGate(kind, gone), UNCHANGED <<up, keyOf, unread, warm, lockOf, call, dropping>>
    PROVE  /\ Registered'
           /\ TypeOK' => IInv'
  <1>1. /\ NoFault
        /\ admin' = [at |-> "gate", kind |-> kind, plugins |-> gone, lock |-> None]
    BY DEF TakeGate
  <1>2. admin' \in Disposal BY <1>1 DEF Disposal
  <1>3. Registered' BY <1>1, <1>2 DEF IInv, TypeOK, Registered, Disposal, NoFault
  <1>4. CallsStay BY DEF CallsStay, IInv, HostKept, At
  <1>5. AdminKept' BY <1>1 DEF AdminKept
  <1>6. PluginExclusive' BY <1>1, ExclusiveStays
  <1> QED BY <1>3, <1>4, <1>5, <1>6, CallsStayKept DEF IInv

LEMMA ReplaceStep ==
    ASSUME IInv, NEW p \in Plugins, NEW v \in 0..MaxVersion, Replace(p, v)
    PROVE  IInv'
  <1> DEFINE next == [active EXCEPT ![p] = v]
  <1>1. TypeOK BY DEF IInv
  <1>2. /\ active' = next /\ changes < MaxChanges /\ changes' = changes + 1
        /\ TakeGate("retain", {q \in Plugins : next[q] = 0})
        /\ circuits' = [q \in Plugins |-> IF next[q] = 0 THEN NewCircuit ELSE circuits[q]]
        /\ lost' = {q \in lost : next[q] # 0}
        /\ UNCHANGED <<up, keyOf, unread, warm, lockOf, call, dropping, todo>>
    BY DEF Replace
  <1>3. active' \in [Plugins -> 0..MaxVersion] BY <1>1, <1>2 DEF TypeOK
  <1>4. circuits' \in [Plugins -> Circuit] /\ \A q \in Plugins : GoodCircuit(circuits'[q])
    <2>1. \A q \in Plugins : circuits[q] \in Circuit /\ GoodCircuit(circuits[q])
      BY <1>1 DEF TypeOK, Circuit, GoodCircuit
    <2>2. NewCircuit \in Circuit /\ GoodCircuit(NewCircuit)
      BY PipelineAssumption DEF Circuit, GoodCircuit, NewCircuit
    <2> QED BY <1>2, <2>1, <2>2
  <1>5. lost' \subseteq Plugins BY <1>1, <1>2 DEF TypeOK
  <1>6. changes' \in 0..MaxChanges BY <1>1, <1>2, PipelineAssumption DEF TypeOK
  <1>7. {q \in Plugins : next[q] = 0} \in SUBSET Plugins OBVIOUS
  <1> HIDE DEF next
  <1>8. Registered' /\ (TypeOK' => IInv') BY <1>2, <1>7, TakeGateStep
  <1>9. TypeOK' BY <1>1, <1>2, <1>3, <1>4, <1>5, <1>6, <1>8 DEF TypeOK, Circuit, GoodCircuit
  <1> QED BY <1>8, <1>9

LEMMA DisposePluginStep ==
    ASSUME IInv, NEW p \in Plugins, DisposePlugin(p)
    PROVE  /\ Registered'
           /\ TypeOK' => IInv'
  <1>1. /\ NoFault /\ lockOf' = [lockOf EXCEPT ![p] = LockFor(p)]
        /\ admin' = [at |-> "wait", kind |-> "dispose", plugins |-> {p}, lock |-> LockFor(p)]
        /\ UNCHANGED <<up, keyOf, unread, warm, call, dropping>>
    BY DEF DisposePlugin
  <1>2. LockFor(p) \in Locks /\ (lockOf[p] # None => LockFor(p) = lockOf[p])
    BY LockForTyped
  <1>3. lockOf \in [Plugins -> Locks \cup {None}] BY DEF IInv, TypeOK, Registered
  <1>4. lockOf' \in [Plugins -> Locks \cup {None}] /\ lockOf'[p] = LockFor(p)
    BY <1>1, <1>2, <1>3
  <1>5. admin' \in Disposal BY <1>1, <1>2 DEF Disposal
  <1>6. Registered' BY <1>1, <1>4, <1>5 DEF IInv, TypeOK, Registered, Disposal, NoFault
  <1>7. CallsStay
    <2>1. ASSUME NEW r \in Requests, Inside(r)
          PROVE  lockOf'[Plugin(r)] = lockOf[Plugin(r)]
      <3>1. Plugin(r) \in Plugins /\ lockOf[Plugin(r)] \in Locks
        BY <2>1 DEF IInv, LockKept, Inside, Key, Plugin
      <3>2. lockOf[Plugin(r)] # None BY <3>1, RegistryAssumption DEF Locks
      <3> QED BY <1>1, <1>2, <1>3, <3>1, <3>2
    <2> QED BY <1>1, <2>1 DEF CallsStay, IInv, HostKept, At
  <1>8. AdminKept' BY <1>1, <1>2, <1>4 DEF AdminKept
  <1>9. PluginExclusive' BY <1>1, ExclusiveStays
  <1> QED BY <1>6, <1>7, <1>8, <1>9, CallsStayKept DEF IInv

LEMMA DisposeSomeStep ==
    ASSUME IInv, DisposeSome
    PROVE  IInv'
  <1>1. /\ changes < MaxChanges /\ changes' = changes + 1
        /\ UNCHANGED <<active, todo, circuits, lost>>
    BY DEF DisposeSome
  <1>2. Registered' /\ (TypeOK' => IInv')
    BY DisposePluginStep, TakeGateStep DEF DisposeSome
  <1>3. changes' \in 0..MaxChanges BY <1>1, PipelineAssumption DEF IInv, TypeOK
  <1>4. TypeOK' BY <1>1, <1>2, <1>3 DEF IInv, TypeOK
  <1> QED BY <1>2, <1>4

\* Disposing spares a process that serves a call.
LEMMA DisposeStep ==
    ASSUME IInv, NEW c \in Callers, NEW h \in Hosts, Dispose(c, h), UNCHANGED pipeline
    PROVE  IInv'
  <1>1. /\ NoFault /\ h \in dropping[c] /\ ~Serving(h)
        /\ dropping' = [dropping EXCEPT ![c] = @ \ {h}]
        /\ UNCHANGED <<warm, lockOf, call, admin>> /\ Settle(up \ {h}, unread)
    BY DEF Dispose
  <1>2. /\ up \ {h} \in SUBSET Hosts /\ unread \in SUBSET Hosts /\ warm \subseteq Hosts
        /\ dropping \in [Callers -> SUBSET Hosts] /\ keyOf \in [Hosts -> Key \cup {None}]
    BY DEF IInv, TypeOK, Registered
  <1>3. /\ up' \in SUBSET Hosts /\ unread' \in SUBSET Hosts
        /\ keyOf' \in [Hosts -> Key \cup {None}]
        /\ \A g \in warm' \cup {call'[r].host : r \in Requests} :
              g \in Hosts => keyOf'[g] = keyOf[g] /\ (g \in up \ {h} => g \in up')
    BY <1>1, <1>2, SettleKeeps
  <1>4. \A g \in warm' : keyOf'[g] = keyOf[g] BY <1>1, <1>2, <1>3
  <1>5. CallsStay
    <2>1. ASSUME NEW r \in Requests, call[r].at \in {"use", "call"}
          PROVE  /\ keyOf'[call[r].host] = keyOf[call[r].host]
                 /\ At(r, "call") => call[r].host \in up'
      BY <1>1, <1>3, <2>1 DEF IInv, HostKept, Serving, At
    <2> QED BY <1>1, <1>4, <2>1 DEF CallsStay, At
  <1>6. Registered'
    <2>1. dropping' \in [Callers -> SUBSET Hosts] BY <1>1, <1>2
    <2>2. \A g, i \in warm' : keyOf'[g].plugin = keyOf'[i].plugin => g = i
      BY <1>1, <1>4 DEF IInv, TypeOK, Registered
    <2> QED BY <1>1, <1>3, <2>1, <2>2 DEF IInv, TypeOK, Registered, NoFault
  <1>7. AdminKept' BY <1>1 DEF IInv, AdminKept, Reading
  <1>8. PluginExclusive' BY <1>1, ExclusiveStays DEF IInv, PluginExclusive
  <1>9. TypeOK' BY <1>6 DEF IInv, TypeOK, pipeline
  <1> QED BY <1>5, <1>7, <1>8, <1>9, CallsStayKept DEF IInv

LEMMA RemoveStep ==
    ASSUME IInv, Remove, UNCHANGED pipeline
    PROVE  IInv'
  <1> DEFINE gone == {h \in warm : keyOf[h].plugin \in admin.plugins}
  <1>1. /\ \/ admin.at = "wait" /\ \A p \in admin.plugins : ~Locked(p, admin.lock)
           \/ admin.at = "gate" /\ ~Reading
        /\ NoFault
        /\ admin' = [admin EXCEPT !.at = "drop",
               !.plugins = IF admin.kind = "retain" THEN {keyOf[h].plugin : h \in gone} ELSE @]
        /\ warm' = warm \ gone /\ dropping' = [dropping EXCEPT ![Admin] = gone]
        /\ UNCHANGED <<up, keyOf, unread, lockOf, call>>
    BY DEF Remove
  <1>2. TypeOK /\ admin \in Disposal BY DEF IInv, TypeOK, Registered, Disposal
  <1>3. {keyOf[h].plugin : h \in gone} \in SUBSET Plugins BY DEF IInv, Key
  <1>4. /\ admin' \in Disposal /\ admin'.at = "drop" /\ admin'.kind = admin.kind
        /\ admin'.lock = admin.lock
        /\ admin.kind # "retain" => admin'.plugins = admin.plugins
    <2> HIDE DEF gone
    <2> QED BY <1>1, <1>2, <1>3 DEF Disposal
  <1>5. Registered'
    <2>1. Cardinality(warm') <= MaxWarm BY <1>1, <1>2, WarmLess DEF TypeOK
    <2>2. dropping' \in [Callers -> SUBSET Hosts] BY <1>1, <1>2 DEF TypeOK, Registered
    <2> QED BY <1>1, <1>2, <1>4, <2>1, <2>2 DEF TypeOK, Registered, Disposal, NoFault
  <1>6. CallsStay BY <1>1 DEF CallsStay, IInv, HostKept, At
  <1>7. ASSUME admin.at = "wait" /\ \A p \in admin.plugins : ~Locked(p, admin.lock)
        PROVE  AdminKept' /\ PluginExclusive'
    <2>1. /\ admin.kind = "dispose" /\ admin.lock \in Locks
          /\ \A p \in admin.plugins : lockOf[p] = admin.lock
      BY <1>7 DEF IInv, AdminKept
    <2>2. AdminKept' BY <1>1, <1>4, <2>1 DEF AdminKept
    <2>3. ASSUME NEW r \in Requests, HasLock(r) PROVE Plugin(r) \notin admin.plugins
      <3>1. call[r].lock = lockOf[Plugin(r)] BY <2>3 DEF IInv, LockKept, HasLock
      <3> QED BY <1>7, <2>1, <2>3, <3>1 DEF Locked
    <2>4. PluginExclusive' BY <1>1, <1>4, <2>1, <2>3, ExclusiveStays
    <2> QED BY <2>2, <2>4
  <1>8. ASSUME admin.at = "gate" /\ ~Reading
        PROVE  AdminKept' /\ PluginExclusive'
    <2>1. admin.kind # "dispose" BY <1>8 DEF IInv, AdminKept
    <2>2. AdminKept' BY <1>1, <1>4, <1>8, <2>1 DEF AdminKept, Reading
    <2>3. \A r \in Requests : ~HasLock(r) BY <1>8 DEF Reading, HasLock
    <2>4. PluginExclusive' BY <1>1, <2>3, ExclusiveStays
    <2> QED BY <2>2, <2>4
  <1>9. TypeOK' BY <1>2, <1>5 DEF TypeOK, pipeline
  <1> QED BY <1>1, <1>6, <1>7, <1>8, <1>9, CallsStayKept DEF IInv

\* A lock leaves the map only when no call has it in hand.
LEMMA DisposedStep ==
    ASSUME IInv, Disposed, UNCHANGED pipeline
    PROVE  IInv'
  <1>1. /\ NoFault /\ admin.at = "drop" /\ admin' = NoAdmin
        /\ lockOf' = [p \in Plugins |->
               IF \/ admin.kind = "all"
                  \/ p \in admin.plugins /\ (admin.kind = "retain" \/ LastHandle(p))
               THEN None ELSE lockOf[p]]
        /\ UNCHANGED <<up, keyOf, unread, warm, call, dropping>>
    BY DEF Disposed
  <1>2. TypeOK BY DEF IInv
  <1>3. ASSUME NEW r \in Requests, Inside(r)
        PROVE  lockOf'[Plugin(r)] = lockOf[Plugin(r)]
    <2>1. Plugin(r) \in Plugins /\ call[r].lock = lockOf[Plugin(r)]
      BY <1>3 DEF IInv, LockKept, Inside, Key, Plugin
    <2>2. admin.kind = "dispose" BY <1>1, <1>3 DEF IInv, AdminKept, Reading, Inside
    <2>3. ~LastHandle(Plugin(r)) BY <2>1 DEF LastHandle, InHand
    <2> QED BY <1>1, <2>1, <2>2, <2>3
  <1>4. CallsStay BY <1>1, <1>3 DEF CallsStay, IInv, HostKept, At
  <1>5. NoAdmin \in Disposal /\ NoAdmin.at = "idle" BY DEF NoAdmin, Disposal
  <1>6. Registered'
    <2>1. lockOf' \in [Plugins -> Locks \cup {None}] BY <1>1, <1>2 DEF TypeOK, Registered
    <2> QED BY <1>1, <1>2, <1>5, <2>1 DEF TypeOK, Registered, Disposal, NoFault
  <1>7. AdminKept' BY <1>1, <1>5 DEF AdminKept
  <1>8. PluginExclusive' BY <1>1, <1>5, ExclusiveStays
  <1>9. TypeOK' BY <1>2, <1>6 DEF TypeOK, pipeline
  <1> QED BY <1>4, <1>7, <1>8, <1>9, CallsStayKept DEF IInv

-------------------------------------------------------------------------------
LEMMA InitInv == Init => IInv
  <1> SUFFICES ASSUME Init PROVE IInv OBVIOUS
  <1>1. Registered
    <2>1. Cardinality({}) = 0 BY FS_EmptySet
    <2>2. NoCall \in Call /\ NoAdmin \in Disposal
      BY DEF NoCall, NoAdmin, Call, Steps, Disposal
    <2> QED
      BY <2>1, <2>2, RegistryAssumption
      DEF Init, NoHosts, Registered, Call, Steps, Disposal
  <1>2. TypeOK
    BY <1>1, RegistryAssumption, PipelineAssumption DEF Init, TypeOK, NewCircuit
  <1>3. \A r \in Requests : call[r] = NoCall BY DEF Init, NoHosts
  <1>4. warm = {} /\ admin = NoAdmin BY DEF Init, NoHosts
  <1>5. \A r \in Requests : LockKept(r) /\ HostKept(r) /\ MapKept(r)
    BY <1>3, <1>4 DEF LockKept, HostKept, MapKept, NoCall
  <1>6. ServesOne BY <1>3 DEF ServesOne, At, NoCall
  <1>7. AdminKept BY <1>4 DEF AdminKept, NoAdmin
  <1>8. PluginExclusive BY <1>3, <1>4 DEF PluginExclusive, HasLock, NoCall, NoAdmin
  <1> QED BY <1>2, <1>4, <1>5, <1>6, <1>7, <1>8 DEF IInv

LEMMA NextInv == IInv /\ [Next]_vars => IInv'
  <1> SUFFICES ASSUME IInv, [Next]_vars PROVE IInv' OBVIOUS
  <1>1. CASE UNCHANGED vars
    <2>1. TypeOK' BY <1>1 DEF vars, registry, IInv, TypeOK, Registered
    <2> QED BY <1>1, <2>1, RegistryStill DEF vars
  <1>2. ASSUME NEW r \in Requests, Begin(r) \/ Check(r) \/ Record(r) \/ Leave(r)
        PROVE  IInv'
    BY <1>2, BeginStep, CheckStep, RecordStep, LeaveStep
  <1>3. ASSUME NEW p \in Plugins, Cool(p) \/ \E v \in 0..MaxVersion : Replace(p, v)
        PROVE  IInv'
    BY <1>3, CoolStep, ReplaceStep
  <1>4. CASE DisposeSome BY <1>4, DisposeSomeStep
  <1>5. ASSUME UNCHANGED pipeline,
               \/ \E r \in Requests : Hosted(r)
               \/ \E c \in Callers, h \in Hosts : Dispose(c, h)
               \/ Remove \/ Disposed
        PROVE  IInv'
    BY <1>5, HostedStep, DisposeStep, RemoveStep, DisposedStep
  <1> QED BY <1>1, <1>2, <1>3, <1>4, <1>5 DEF Next

(* Whatever requests, replacements, disposals and clients that leave do, the     *)
(* registry and the pipeline stay consistent: the invariant the rest needs.     *)
THEOREM Inductive == Spec => []IInv
  BY InitInv, NextInv, PTL DEF Spec

(* Every variable keeps its type: with it the map's limit, and no more than one *)
(* warm process of a plugin, though a new one enters after its start.           *)
THEOREM HostTypes == Spec => []TypeOK
  <1>1. IInv => TypeOK BY DEF IInv
  <1> QED BY <1>1, Inductive, PTL

(* One caller per plugin is between the lock of the map and its release, though *)
(* disposals and retains take locks out of the map.                             *)
THEOREM OneCallerPerPlugin == Spec => []PluginExclusive
  <1>1. IInv => PluginExclusive BY DEF IInv
  <1> QED BY <1>1, Inductive, PTL

(* No step but the call's own ends the process that serves it.                  *)
THEOREM NotEndedByOthers == Spec => ServedUndisturbed
  <1>1. IInv /\ IInv' /\ [Next]_vars =>
            [\A r \in Requests :
                At(r, "call") /\ call'[r] = call[r] => call[r].host \in up']_registry
    BY DEF IInv, HostKept, At
  <1> QED BY <1>1, Inductive, PTL DEF Spec, ServedUndisturbed
=============================================================================
