---------------------------- MODULE CliProxy_proofs ----------------------------
(* What CliProxy.tla keeps for any files, addresses and keys, whatever fails    *)
(* and however often: the types and the rest of each file; and, where the       *)
(* repair at start-up can do its work, the user's own configuration.            *)
EXTENDS CliProxy, TLAPS

(* ---------------------- who works, and on what ---------------------------- *)

\* The calls of a slot, and the steps of a call.
OwnKinds(s) == IF s = "ui" THEN {"enable", "disable"}
               ELSE {"sync", "retarget", "stop", "exit", "repair"}
StepsOf(k) ==
    CASE k = "enable" -> {"read", "backup", "build", "apply", "flag", "restore"}
      [] k = "sync" -> {"read", "build", "apply", "flag"}
      [] k \in {"disable", "stop"} -> {"read", "restore"}
      [] k = "exit" -> {"read", "restore", "quit"}
      [] k \in {"retarget", "repair"} -> {"read", "flag"}
Locking == {"enable", "sync", "retarget", "stop"}
Walks == {"build", "apply", "flag", "restore"}

CallKnown(s) ==
    IF Busy(s)
    THEN /\ task[s].kind \in OwnKinds(s) /\ task[s].at \in StepsOf(task[s].kind)
         /\ At(s, "read") => task[s].place = 1
         /\ At(s, "apply") => More(s)
         /\ At(s, "backup") => task[s].fresh
    ELSE task[s].kind = "repair"

\* The manifest is on its way to another address.
Following == Doing("app", "sync") \/ Doing("app", "retarget")

\* The lifecycle lock belongs to the enable, sync, retarget or stop at work; an enable
\* and the repair are alone; the gateway does not change under who writes its address.
LockKept ==
    /\ \A s \in Slots : lock = s <=> Busy(s) /\ task[s].kind \in Locking
    /\ Doing("ui", "enable") => ~Busy("app")
    /\ Doing("app", "repair") => ~Busy("ui")
    /\ Doing("ui", "enable") \/ Doing("app", "sync") => gateway \in Origins
    /\ ~MeetsSync => ~(Doing("ui", "disable") /\ Following)

\* Whoever walks the files has the entries of the manifest.
EntriesAgree(s) ==
    task[s].at \in Walks =>
        manifest # Absent /\ task[s].m # Absent /\ task[s].m.entries = manifest.entries

\* What is marked as copied has a copy.
Copied(m) == \A p \in Places : m.entries[p] = "existed" => backup[p] # Absent
BackingUp(s) ==
    At(s, "backup") /\ task[s].place > 1 => task[s].m # Absent /\ Copied(task[s].m)

\* What is about to be written has the address, or the key, and the rest of the file
\* it replaces; a file that is not there has nothing to lose.
BuiltKept(s) ==
    At(s, "apply") => \A p \in Places :
        /\ task[s].built[p] # Absent /\ task[s].built[p].managed = ProxyValue(p)
        /\ p >= task[s].place =>
              IF live[p] # Absent THEN task[s].built[p].other = live[p].other
              ELSE manifest.entries[p] = "existed" => task[s].built[p].other = 0

SlotKept(s) == CallKnown(s) /\ EntriesAgree(s) /\ BackingUp(s) /\ BuiltKept(s)
Base ==
    /\ TypeOK /\ LockKept
    /\ manifest # Absent => Copied(manifest)
    /\ \A s \in Slots : SlotKept(s)

(* ------------------------ the user's configuration ------------------------ *)

\* A file as the user had it.
Own(p) ==
    \/ live[p] = Absent /\ user[p] = Absent
    \/ live[p] # Absent /\ live[p].managed = user[p]

\* The manifest can bring it back while it is on, while somebody walks the files, and
\* when the repair is about to find a torn enable.
Repairing == Doing("app", "repair")
CopiesKept ==
    \/ Enabled \/ \E s \in Slots : task[s].at \in Walks
    \/ Repairing /\ Torn(manifest)
    => \A p \in Places : Recoverable(p)

\* A file is the user's, or it is proxied: by a manifest that is on, or by an enable
\* that is half way, or was when the process died, so that the repair will know it.
Halfway ==
    /\ task["ui"].kind = "enable"
    /\ \/ task["ui"].at \in {"apply", "flag"}
       \/ At("ui", "restore") /\ task["ui"].place = 1
FilesKept ==
    \A p \in Places :
        \/ Own(p)
        \/ Proxied(live[p]) /\ (Enabled \/ (Torn(manifest) /\ (Repairing \/ Halfway)))

\* How far a first enable, the taking back of one, and a disable have come.
FirstEnable ==
    task["ui"].at \in Walks /\ task["ui"].kind = "enable" =>
        /\ task["ui"].fresh <=> ~Enabled
        /\ ~Enabled =>
            /\ ~At("ui", "restore") => manifest.origin = gateway
            /\ At("ui", "apply") => \A p \in Places : p >= task["ui"].place => Own(p)
            /\ At("ui", "apply") /\ task["ui"].place > 1 => Torn(manifest)
            /\ At("ui", "flag") => Torn(manifest)
        /\ At("ui", "restore") =>
            task["ui"].fresh /\ faults > 0 /\ \A p \in Places : p # 1 => Own(p)
BackupKept ==
    At("ui", "backup") =>
        /\ ~Enabled
        /\ task["ui"].place > 1 =>
            /\ task["ui"].m.origin = gateway /\ ~task["ui"].m.enabled
            /\ \A p \in Places : p < task["ui"].place =>
                  \/ task["ui"].m.entries[p] = "existed" /\ backup[p].managed = user[p]
                  \/ task["ui"].m.entries[p] = "absent" /\ user[p] = Absent
SyncKept == Following /\ task["app"].at \in Walks => Enabled
DisableKept ==
    Doing("ui", "disable") =>
        /\ \A p \in Places : Recoverable(p)
        /\ At("ui", "restore") => \A p \in Places : p < task["ui"].place => Own(p)
KeysKnown == \A p \in Places : p # 1 => user[p] \in Keys

Kept == CopiesKept /\ FilesKept /\ FirstEnable /\ BackupKept /\ SyncKept
        /\ DisableKept /\ KeysKnown

IInv == Base /\ Kept

(* ------------------------------- lemmas ----------------------------------- *)

LEMMA PlacesKnown ==
    /\ Len(Files) \in Nat /\ Len(Files) >= 1 /\ 1 \in Places /\ Places \subseteq Nat
    /\ 1 \in 1..(Len(Files) + 1)
    /\ \A p \in Places : p + 1 \in 1..(Len(Files) + 1)
  <1>1. Files \in Seq(STRING) /\ Files # <<>> BY TargetsAssumption
  <1>2. Len(Files) \in Nat /\ Len(Files) # 0 BY <1>1
  <1> QED BY <1>2 DEF Places

LEMMA OtherPlaces == \A p \in Places : p # 1 => Len(Files) # 1
  <1> SUFFICES ASSUME NEW p \in Places, Len(Files) = 1 PROVE p = 1 OBVIOUS
  <1>1. p \in 1..1 BY Zenon DEF Places
  <1> QED BY <1>1

\* No manifest, no file, no holder of the lock doubles as Absent.
LEMMA AbsentApart ==
    /\ "ui" # Absent /\ "app" # Absent /\ "ui" # "app"
    /\ \A c \in Contents : c # Absent
    /\ \A m \in Manifest : m # Absent
    /\ \A o \in Origins : o # Absent
  BY AbsentAssumption, TargetsAssumption DEF Slots

LEMMA IdleTask ==
    /\ Idle \in Task /\ Idle.at = "idle" /\ Idle.place = 1 /\ Idle.kind = "repair"
    /\ \A k \in Kinds : LET t == [Idle EXCEPT !.at = "read", !.kind = k] IN
          t \in Task /\ t.at = "read" /\ t.kind = k /\ t.place = 1
  <1> DEFINE none == [p \in Places |-> Absent]
  <1>1. none \in [Places -> OptContents] BY DEF OptContents
  <1>2. 1 \in 1..(Len(Files) + 1) BY PlacesKnown
  <1> HIDE DEF none
  <1>3. Idle = [at |-> "idle", kind |-> "repair", place |-> 1, m |-> Absent,
                fresh |-> FALSE, built |-> none] BY DEF Idle, none
  <1>4. Idle \in Task BY <1>1, <1>2, <1>3 DEF Task, Steps, Kinds
  <1>5. ASSUME NEW k \in Kinds
        PROVE  LET t == [Idle EXCEPT !.at = "read", !.kind = k] IN
               t \in Task /\ t.at = "read" /\ t.kind = k /\ t.place = 1
    BY <1>1, <1>2, <1>3 DEF Task, Steps
  <1> QED BY <1>3, <1>4, <1>5

\* One slot's task changes.
LEMMA OneTask ==
    ASSUME TypeOK, NEW s \in Slots, NEW t \in Task, task' = [task EXCEPT ![s] = t]
    PROVE  /\ task' \in [Slots -> Task] /\ task'[s] = t
           /\ \A u \in Slots : u # s => task'[u] = task[u]
  BY DEF TypeOK

\* What a step of one slot may do to the files while another is at work.
LiveKept(p) ==
    IF live'[p] = Absent THEN live[p] = Absent \/ manifest.entries[p] # "existed"
    ELSE /\ live'[p].other = Other(live[p])
         /\ live[p] = Absent => manifest.entries[p] = "existed"

LEMMA Bystander ==
    ASSUME Base, NEW u \in Slots, task'[u] = task[u],
           task[u].at \in Walks => manifest' # Absent /\ manifest'.entries = manifest.entries,
           \A p \in Places : backup[p] # Absent => backup'[p] # Absent,
           At(u, "apply") => gateway' = gateway /\ \A p \in Places : LiveKept(p)
    PROVE  SlotKept(u)'
  <1>1. SlotKept(u) /\ (At(u, "apply") => task[u].at \in Walks) BY DEF Base, At, Walks
  <1>2. CallKnown(u)' BY <1>1 DEF SlotKept, CallKnown, Busy, At, More
  <1>3. EntriesAgree(u)' BY <1>1 DEF SlotKept, EntriesAgree
  <1>4. BackingUp(u)' BY <1>1 DEF SlotKept, BackingUp, At, Copied
  <1>5. BuiltKept(u)'
    <2> SUFFICES ASSUME At(u, "apply"), NEW p \in Places
                 PROVE  /\ task[u].built[p] # Absent /\ task[u].built[p].managed = ProxyValue(p)
                        /\ p >= task[u].place =>
                              IF live'[p] # Absent THEN task[u].built[p].other = live'[p].other
                              ELSE manifest.entries[p] = "existed" => task[u].built[p].other = 0
      BY <1>1 DEF BuiltKept, At, ProxyValue
    <2>1. /\ task[u].built[p] # Absent /\ task[u].built[p].managed = ProxyValue(p)
          /\ p >= task[u].place =>
                IF live[p] # Absent THEN task[u].built[p].other = live[p].other
                ELSE manifest.entries[p] = "existed" => task[u].built[p].other = 0
      BY <1>1 DEF SlotKept, BuiltKept
    <2>2. LiveKept(p) OBVIOUS
    <2> QED BY <2>1, <2>2 DEF LiveKept, Other
  <1> QED BY <1>2, <1>3, <1>4, <1>5 DEF SlotKept

\* Files that stay, or change by an edit, are kept.
LEMMA SameLive == live' = live => \A p \in Places : LiveKept(p)
  BY DEF LiveKept, Other

\* A slot that is not among the files keeps what it has to.
LEMMA OffTheFiles ==
    ASSUME NEW s \in Slots, CallKnown(s)', task'[s].at \in {"idle", "read", "quit"}
    PROVE  SlotKept(s)'
  BY DEF SlotKept, EntriesAgree, BackingUp, BuiltKept, At, Walks

\* A call starts.
LEMMA StartStep ==
    ASSUME Base, NEW s \in Slots, NEW k \in OwnKinds(s) \ {"repair"}, NEW locked,
           locked <=> k \in Locking, Start(s, k, locked),
           k \in {"enable", "sync"} => gateway' \in Origins,
           k \in {"disable", "retarget"} => gateway' = gateway,
           k \in {"stop", "exit"} => gateway' = Absent,
           s = "ui" => WindowOpen,
           MeetsSync \/ ~(k = "disable" /\ Following),
           MeetsSync \/ ~(k \in {"sync", "retarget"} /\ Doing("ui", "disable"))
    PROVE  Base'
  <1>1. PICK t \in Task : t = [Idle EXCEPT !.at = "read", !.kind = k]
    BY IdleTask DEF OwnKinds, Kinds
  <1>2. t.at = "read" /\ t.kind = k /\ t.place = 1
    BY <1>1, IdleTask DEF OwnKinds, Kinds
  <1>3. TypeOK BY DEF Base
  <1>4. /\ task' = [task EXCEPT ![s] = t] /\ ~Busy(s)
        /\ lock = Absent \/ k = "disable"
        /\ lock' = (IF locked THEN s ELSE lock)
        /\ UNCHANGED <<live, backup, manifest, user, removed, unrepaired, edits, faults, crashes>>
    BY <1>1 DEF Start, history
  <1>5. /\ task' \in [Slots -> Task] /\ task'[s] = t
        /\ \A u \in Slots : u # s => task'[u] = task[u]
    BY <1>3, <1>4, OneTask
  <1>6. gateway' \in Origins \cup {Absent}
    BY <1>3, Zenon DEF TypeOK, OwnKinds
  <1>7. TypeOK' BY <1>3, <1>4, <1>5, <1>6 DEF TypeOK
  <1>8. s \in {"ui", "app"} BY DEF Slots
  <1>9. /\ Busy(s)' /\ (task[s].kind = k)'
        /\ \A u \in Slots : u # s => (Busy(u)' <=> Busy(u)) /\ task'[u].kind = task[u].kind
    BY <1>2, <1>5 DEF Busy
  <1>10. /\ \A u \in Slots : lock = u <=> Busy(u) /\ task[u].kind \in Locking
         /\ \A u \in Slots : CallKnown(u)
         /\ LockKept
    BY DEF Base, LockKept, SlotKept
  <1>11. \A u \in Slots : lock' = u <=> Busy(u)' /\ task'[u].kind \in Locking
    BY <1>4, <1>9, <1>10, AbsentApart DEF Slots, OwnKinds, Locking
  <1>12. (Doing("ui", "enable"))' => ~Busy("app")'
    BY <1>4, <1>8, <1>9, <1>10, AbsentApart
       DEF Doing, LockKept, CallKnown, OwnKinds, Locking, WindowOpen, Slots
  <1>13. (Doing("app", "repair"))' => ~Busy("ui")'
    BY <1>8, <1>9, <1>10, AbsentApart DEF Doing, LockKept, OwnKinds, WindowOpen, Slots
  <1>14. (Doing("ui", "enable"))' \/ (Doing("app", "sync"))' => gateway' \in Origins
    BY <1>4, <1>8, <1>9, <1>10, AbsentApart
       DEF Doing, LockKept, OwnKinds, Locking, Slots
  <1>15. ~MeetsSync => ~((Doing("ui", "disable"))' /\ Following')
    BY <1>8, <1>9, <1>10 DEF Doing, Following, LockKept, OwnKinds, Slots
  <1>16. LockKept' BY <1>11, <1>12, <1>13, <1>14, <1>15 DEF LockKept
  <1>17. SlotKept(s)'
    BY <1>2, <1>5, OffTheFiles DEF CallKnown, Busy, At, OwnKinds, StepsOf
  <1>18. ASSUME NEW u \in Slots, u # s PROVE SlotKept(u)'
    <2>1. At(u, "apply") => gateway' = gateway
      BY <1>4, <1>10, <1>18, AbsentApart
         DEF At, CallKnown, Busy, StepsOf, OwnKinds, Locking, Slots
    <2>2. task[u].at \in Walks => manifest' # Absent /\ manifest'.entries = manifest.entries
      BY <1>4 DEF Base, SlotKept, EntriesAgree
    <2> QED BY <1>4, <1>5, <1>18, <2>1, <2>2, SameLive, Bystander
  <1>19. manifest' # Absent => Copied(manifest)'
    BY <1>4 DEF Base, Copied
  <1> QED BY <1>7, <1>16, <1>17, <1>18, <1>19 DEF Base

\* A call ends.
LEMMA FinishStep ==
    ASSUME Base, NEW s \in Slots, Finish(s), gateway' = gateway
    PROVE  /\ task' \in [Slots -> Task] /\ lock' \in Slots \cup {Absent}
           /\ task'[s].at \in {"idle", "quit"}
           /\ \A u \in Slots : u # s => task'[u] = task[u]
           /\ LockKept' /\ SlotKept(s)'
  <1>1. TypeOK /\ LockKept /\ CallKnown(s) BY DEF Base, SlotKept
  <1>2. task[s] \in Task BY <1>1 DEF TypeOK
  <1>3. PICK t \in Task :
           /\ task' = [task EXCEPT ![s] = t]
           /\ \/ t = Idle /\ task[s].kind # "exit"
              \/ t.at = "quit" /\ t.kind = "exit" /\ task[s].kind = "exit"
    <2>1. [task[s] EXCEPT !.at = "quit"] \in Task BY <1>2 DEF Task, Steps
    <2> QED BY <1>1, <1>2, <2>1, IdleTask DEF Finish, TypeOK, Task
  <1>4. /\ task' \in [Slots -> Task] /\ task'[s] = t
        /\ \A u \in Slots : u # s => task'[u] = task[u]
    BY <1>1, <1>3, OneTask
  <1>5. lock' = IF lock = s THEN Absent ELSE lock BY DEF Finish
  <1>6. t.at \in {"idle", "quit"} /\ (t.at = "quit" => t.kind = "exit")
    BY <1>3, IdleTask
  <1>7. \A u \in Slots : u # s => (Busy(u)' <=> Busy(u)) /\ task'[u].kind = task[u].kind
    BY <1>4 DEF Busy
  <1>8. s \in {"ui", "app"} BY DEF Slots
  <1>9. (Busy(s))' => (task[s].kind = "exit")' /\ Busy(s)
    BY <1>1, <1>3, <1>4, <1>6, IdleTask DEF Busy, CallKnown
  <1>10. \A u \in Slots : lock' = u <=> Busy(u)' /\ task'[u].kind \in Locking
    BY <1>1, <1>5, <1>7, <1>9, AbsentApart DEF LockKept, Locking, Slots
  <1>11. CallKnown(s)'
    <2>1. CASE t = Idle
      BY <1>4, <2>1, IdleTask DEF CallKnown, Busy
    <2>2. CASE t.at = "quit" /\ t.kind = "exit" /\ task[s].kind = "exit"
      <3>1. "exit" \in OwnKinds(s) BY <1>1, <2>2 DEF CallKnown
      <3> QED BY <1>4, <2>2, <3>1 DEF CallKnown, Busy, At, StepsOf
    <2> QED BY <1>3, <2>1, <2>2
  <1>12. SlotKept(s)' BY <1>4, <1>6, <1>11, OffTheFiles
  <1>13. (Doing("ui", "enable"))' => ~Busy("app")'
    BY <1>1, <1>7, <1>8, <1>9 DEF Doing, LockKept, Slots
  <1>14. (Doing("app", "repair"))' => ~Busy("ui")'
    BY <1>1, <1>7, <1>8, <1>9 DEF Doing, LockKept, Slots
  <1>15. (Doing("ui", "enable"))' \/ (Doing("app", "sync"))' => gateway' \in Origins
    BY <1>1, <1>7, <1>8, <1>9 DEF Doing, LockKept, Slots
  <1>16. ~MeetsSync => ~((Doing("ui", "disable"))' /\ Following')
    BY <1>1, <1>7, <1>8, <1>9 DEF Doing, Following, LockKept, Slots
  <1>17. LockKept' BY <1>10, <1>13, <1>14, <1>15, <1>16 DEF LockKept
  <1>18. lock' \in Slots \cup {Absent} BY <1>1, <1>5 DEF TypeOK
  <1> QED BY <1>4, <1>6, <1>12, <1>17, <1>18

\* A slot's task changes and its call goes on, under the lock as it is.
LEMMA GoesOn ==
    ASSUME Base, NEW s \in Slots, NEW t \in Task, task' = [task EXCEPT ![s] = t],
           Busy(s), t.at # "idle", t.kind = task[s].kind, UNCHANGED <<lock, gateway>>
    PROVE  /\ task' \in [Slots -> Task] /\ task'[s] = t
           /\ \A u \in Slots : u # s => task'[u] = task[u]
           /\ LockKept'
  <1>1. TypeOK /\ LockKept BY DEF Base
  <1>2. /\ task' \in [Slots -> Task] /\ task'[s] = t
        /\ \A u \in Slots : u # s => task'[u] = task[u]
    BY <1>1, OneTask
  <1>3. \A u \in Slots : (Busy(u)' <=> Busy(u)) /\ task'[u].kind = task[u].kind
    BY <1>2 DEF Busy
  <1>4. LockKept' BY <1>1, <1>3 DEF LockKept, Following, Doing, Slots
  <1> QED BY <1>2, <1>4

LEMMA ReadStep == ASSUME Base, NEW s \in Slots, Read(s) PROVE Base'
  <1> DEFINE next == FirstStep(task[s].kind, manifest)
  <1>1. /\ TypeOK /\ SlotKept(s) /\ CallKnown(s) BY DEF Base, SlotKept
  <1>2. /\ At(s, "read") /\ Busy(s) /\ task[s] \in Task
        /\ task[s].kind \in OwnKinds(s)
        /\ UNCHANGED <<live, backup, manifest, gateway, user, removed, unrepaired, edits, faults, crashes>>
    BY <1>1 DEF Read, history, At, Busy, CallKnown, TypeOK
  <1>3. manifest' # Absent => Copied(manifest)' BY <1>2 DEF Base, Copied
  <1>4. ASSUME NEW u \in Slots, task'[u] = task[u] PROVE SlotKept(u)'
    <2>1. task[u].at \in Walks => manifest' # Absent /\ manifest'.entries = manifest.entries
      BY <1>2 DEF Base, SlotKept, EntriesAgree
    <2> QED BY <1>2, <1>4, <2>1, SameLive, Bystander
  <1>5. CASE next = "idle"
    <2>1. Finish(s) BY <1>5 DEF Read
    <2>2. TypeOK' BY <1>1, <1>2, <2>1, FinishStep DEF TypeOK
    <2> QED BY <1>2, <1>3, <1>4, <2>1, <2>2, FinishStep DEF Base
  <1>n. /\ next # "idle" => /\ next \in Walks \cup {"backup"} /\ next # "apply"
                            /\ next \in StepsOf(task[s].kind)
        /\ next \in Walks => manifest # Absent
    BY <1>2 DEF FirstStep, OwnKinds, StepsOf, Walks, On, Torn, TakesBackup
  <1>r. At(s, "read") /\ IF next = "idle" THEN Finish(s)
        ELSE /\ task' = [task EXCEPT ![s].at = next, ![s].m = manifest,
                             ![s].fresh = next = "backup"]
             /\ UNCHANGED lock
    BY DEF Read
  <1> HIDE DEF next
  <1>6. CASE next # "idle"
    <2>0. PICK b \in BOOLEAN : b = (next = "backup") OBVIOUS
    <2>1. PICK t : t = [task[s] EXCEPT !.at = next, !.m = manifest, !.fresh = b]
      OBVIOUS
    <2>2. task' = [task EXCEPT ![s] = t] /\ lock' = lock
      BY <1>1, <1>6, <1>r, <2>0, <2>1 DEF TypeOK
    <2>4. /\ t \in Task /\ t.at = next /\ t.kind = task[s].kind /\ t.m = manifest
          /\ t.fresh = b /\ t.place = task[s].place
      BY <1>1, <1>2, <1>6, <1>n, <2>1 DEF Task, Steps, Walks, TypeOK
    <2>5. /\ task' \in [Slots -> Task] /\ task'[s] = t /\ LockKept'
          /\ \A u \in Slots : u # s => task'[u] = task[u]
      BY <1>2, <1>6, <2>2, <2>4, GoesOn
    <2>6. TypeOK' BY <1>1, <1>2, <2>2, <2>5 DEF TypeOK
    <2>7. CallKnown(s)'
      BY <1>1, <1>2, <1>6, <1>n, <2>0, <2>4, <2>5 DEF CallKnown, Busy, At, Walks, More
    <2>8. EntriesAgree(s)' BY <1>2, <1>n, <2>4, <2>5 DEF EntriesAgree
    <2>9. BackingUp(s)' /\ BuiltKept(s)'
      BY <1>1, <1>2, <1>n, <1>6, <2>4, <2>5 DEF BackingUp, BuiltKept, At, Walks, CallKnown
    <2>10. SlotKept(s)' BY <2>7, <2>8, <2>9 DEF SlotKept
    <2> QED BY <1>3, <1>4, <2>5, <2>6, <2>10 DEF Base
  <1> QED BY <1>5, <1>6

\* The manifest that a backup writes into.
Copying(s) ==
    IF task[s].place = 1 THEN [enabled |-> FALSE, origin |-> gateway, entries |-> NoEntries]
    ELSE task[s].m
Marked(s) ==
    [Copying(s) EXCEPT !.entries[task[s].place] =
        IF live[task[s].place] = Absent THEN "absent" ELSE "existed"]

\* At most one copy and one mark change.
LEMMA BackUpKnown ==
    ASSUME Base, NEW s \in Slots, BackUp(s)
    PROVE  LET p == task[s].place IN
           /\ p \in Places /\ At(s, "backup") /\ Busy(s)
           /\ Copying(s) \in Manifest
           /\ p > 1 => Copying(s) = task[s].m /\ Copied(task[s].m)
           /\ Marked(s) \in Manifest /\ Marked(s).enabled = Copying(s).enabled
           /\ Marked(s).origin = Copying(s).origin
           /\ Marked(s).entries[p] = IF live[p] = Absent THEN "absent" ELSE "existed"
           /\ \A q \in Places : q # p => Marked(s).entries[q] = Copying(s).entries[q]
           /\ backup' = IF live[p] = Absent THEN backup ELSE [backup EXCEPT ![p] = live[p]]
           /\ backup' \in [Places -> OptContents]
           /\ task' = [task EXCEPT ![s] = [task[s] EXCEPT !.m = Marked(s), !.place = p + 1]]
           /\ UNCHANGED <<live, manifest, gateway, lock, user, removed, unrepaired, edits, faults, crashes>>
  <1> DEFINE p == task[s].place
             c == Copying(s)
  <1>1. /\ TypeOK /\ BackingUp(s) /\ task[s] \in Task BY DEF Base, SlotKept, TypeOK
  <1>2. p \in Places /\ At(s, "backup") /\ Busy(s)
    BY <1>1, PlacesKnown DEF BackUp, More, Places, Task, At, Busy
  <1>3. p > 1 => c = task[s].m /\ Copied(task[s].m) /\ task[s].m # Absent
    BY <1>1, <1>2 DEF BackingUp, Copying
  <1>4. c \in Manifest
    <2>1. CASE p = 1
      <3>1. NoEntries \in [Places -> Marks] BY DEF NoEntries, Marks
      <3>2. gateway \in Origins \cup {Absent} BY <1>1 DEF TypeOK
      <3> QED BY <2>1, <3>1, <3>2 DEF Copying, Manifest
    <2>2. CASE p # 1
      <3>1. p > 1 BY <1>2, <2>2, PlacesKnown DEF Places
      <3> QED BY <1>1, <1>3, <3>1 DEF Task
    <2> QED BY <2>1, <2>2
  <1>m. Marked(s) = [c EXCEPT !.entries[p] = IF live[p] = Absent THEN "absent" ELSE "existed"]
    BY DEF Marked
  <1>5. /\ backup' = IF live[p] = Absent THEN backup ELSE [backup EXCEPT ![p] = live[p]]
        /\ task' = [task EXCEPT ![s] = [task[s] EXCEPT !.m = Marked(s), !.place = p + 1]]
        /\ UNCHANGED <<live, manifest, gateway, lock, user, removed, unrepaired, edits, faults, crashes>>
    <2>1. Advance(s, [task[s] EXCEPT !.m = Marked(s)]) BY DEF BackUp, Marked, Copying
    <2>2. PICK t : t = [task[s] EXCEPT !.m = Marked(s)] OBVIOUS
    <2>3. t.place = p BY <1>1, <2>2 DEF Task
    <2>4. task' = [task EXCEPT ![s] = [t EXCEPT !.place = t.place + 1]]
      BY <2>1, <2>2 DEF Advance
    <2> QED BY <1>1, <2>2, <2>3, <2>4 DEF BackUp, history, Task
  <1> HIDE DEF p, c
  <1>6. /\ Marked(s) \in Manifest /\ Marked(s).enabled = c.enabled
        /\ Marked(s).origin = c.origin
        /\ Marked(s).entries[p] = IF live[p] = Absent THEN "absent" ELSE "existed"
        /\ \A q \in Places : q # p => Marked(s).entries[q] = c.entries[q]
    <2>1. PICK mark \in Marks : mark = IF live[p] = Absent THEN "absent" ELSE "existed"
      BY DEF Marks
    <2>2. Marked(s) = [c EXCEPT !.entries[p] = mark] BY <1>m, <2>1
    <2>3. c.entries \in [Places -> Marks] /\ c.enabled \in BOOLEAN
      BY <1>4 DEF Manifest
    <2>4. Marked(s).entries = [c.entries EXCEPT ![p] = mark]
      BY <1>4, <2>2 DEF Manifest
    <2>5. Marked(s) \in Manifest /\ Marked(s).enabled = c.enabled /\ Marked(s).origin = c.origin
      BY <1>2, <1>4, <2>2 DEF Manifest, p
    <2> QED BY <1>2, <2>1, <2>3, <2>4, <2>5 DEF p
  <1>7. backup' \in [Places -> OptContents]
    BY <1>1, <1>2, <1>5 DEF TypeOK, p
  <1> QED BY <1>2, <1>3, <1>4, <1>5, <1>6, <1>7 DEF p, c

LEMMA BackUpStep == ASSUME Base, NEW s \in Slots, BackUp(s) PROVE Base'
  <1> DEFINE p == task[s].place
  <1>1. /\ TypeOK /\ SlotKept(s) /\ CallKnown(s) /\ task[s] \in Task
    BY DEF Base, SlotKept, TypeOK
  <1>2. /\ p \in Places /\ At(s, "backup") /\ Busy(s)
        /\ p > 1 => Copying(s) = task[s].m /\ Copied(task[s].m)
        /\ Marked(s) \in Manifest
        /\ Marked(s).entries[p] = IF live[p] = Absent THEN "absent" ELSE "existed"
        /\ \A q \in Places : q # p => Marked(s).entries[q] = Copying(s).entries[q]
        /\ backup' = IF live[p] = Absent THEN backup ELSE [backup EXCEPT ![p] = live[p]]
        /\ backup' \in [Places -> OptContents]
        /\ task' = [task EXCEPT ![s] = [task[s] EXCEPT !.m = Marked(s), !.place = p + 1]]
        /\ UNCHANGED <<live, manifest, gateway, lock, user, removed, unrepaired, edits, faults, crashes>>
    BY BackUpKnown
  <1>3. PICK t : t = [task[s] EXCEPT !.m = Marked(s), !.place = p + 1] OBVIOUS
  <1> HIDE DEF p
  <1>4. p + 1 \in 1..(Len(Files) + 1) BY <1>2, PlacesKnown
  <1>5. /\ t \in Task /\ t.at = "backup" /\ t.kind = task[s].kind /\ t.m = Marked(s)
        /\ t.place = p + 1 /\ t.fresh = task[s].fresh
    BY <1>1, <1>2, <1>3, <1>4 DEF Task, At
  <1>6. /\ task' \in [Slots -> Task] /\ task'[s] = t /\ LockKept'
        /\ \A u \in Slots : u # s => task'[u] = task[u]
    BY <1>2, <1>3, <1>5, GoesOn
  <1>7. TypeOK' BY <1>1, <1>2, <1>6 DEF TypeOK
  <1>8. /\ \A q \in Places : backup[q] # Absent => backup'[q] # Absent
        /\ live[p] # Absent => backup'[p] # Absent
    BY <1>1, <1>2 DEF TypeOK
  <1>9. manifest' # Absent => Copied(manifest)' BY <1>2, <1>8 DEF Base, Copied
  <1>10. ASSUME NEW u \in Slots, u # s PROVE SlotKept(u)'
    <2>1. task[u].at \in Walks => manifest' # Absent /\ manifest'.entries = manifest.entries
      BY <1>2 DEF Base, SlotKept, EntriesAgree
    <2> QED BY <1>2, <1>6, <1>8, <1>10, <2>1, SameLive, Bystander
  <1>11. CallKnown(s)'
    BY <1>1, <1>2, <1>5, <1>6 DEF CallKnown, Busy, At
  <1>12. EntriesAgree(s)' /\ BuiltKept(s)'
    BY <1>5, <1>6 DEF EntriesAgree, BuiltKept, At, Walks
  <1>13. BackingUp(s)'
    <2>1. task'[s].m = Marked(s) /\ Marked(s) # Absent
      BY <1>2, <1>5, <1>6, AbsentApart
    <2>2. ASSUME NEW q \in Places, Marked(s).entries[q] = "existed"
          PROVE  backup'[q] # Absent
      <3>1. CASE q = p BY <1>2, <1>8, <2>2, <3>1
      <3>2. CASE q # p /\ p = 1
        <4>1. Copying(s).entries = NoEntries BY <3>2 DEF Copying, p
        <4> QED BY <1>2, <2>2, <3>2, <4>1 DEF NoEntries
      <3>3. CASE q # p /\ p > 1
        BY <1>2, <1>8, <2>2, <3>3 DEF Copied
      <3> QED BY <1>2, <3>1, <3>2, <3>3, PlacesKnown DEF Places
    <2> QED BY <2>1, <2>2 DEF BackingUp, Copied
  <1>14. SlotKept(s)' BY <1>11, <1>12, <1>13 DEF SlotKept
  <1> QED BY <1>6, <1>7, <1>9, <1>10, <1>14 DEF Base

LEMMA RecordStep == ASSUME Base, NEW s \in Slots, Record(s) PROVE Base'
  <1>1. /\ TypeOK /\ SlotKept(s) /\ CallKnown(s) /\ LockKept /\ task[s] \in Task
    BY DEF Base, SlotKept, TypeOK
  <1>2. /\ At(s, "backup") /\ Busy(s) /\ task[s].place > 1
        /\ manifest' = task[s].m /\ Goto(s, "build")
        /\ UNCHANGED <<live, backup, gateway, lock, user, removed, unrepaired, edits, faults, crashes>>
    BY <1>1, PlacesKnown DEF Record, history, At, Busy, More, Task
  <1>3. task[s].m \in Manifest /\ task[s].m # Absent /\ Copied(task[s].m)
    BY <1>1, <1>2 DEF SlotKept, BackingUp, Task
  <1>4. PICK t : t = [task[s] EXCEPT !.at = "build", !.place = 1] OBVIOUS
  <1>5. task' = [task EXCEPT ![s] = t] BY <1>1, <1>2, <1>4 DEF Goto, TypeOK
  <1>6. /\ t \in Task /\ t.at = "build" /\ t.kind = task[s].kind /\ t.m = task[s].m
        /\ t.place = 1 /\ t.fresh = task[s].fresh
    BY <1>1, <1>4, PlacesKnown DEF Task, Steps
  <1>7. /\ task' \in [Slots -> Task] /\ task'[s] = t /\ LockKept'
        /\ \A u \in Slots : u # s => task'[u] = task[u]
    BY <1>2, <1>5, <1>6, GoesOn
  <1>8. TypeOK' BY <1>1, <1>2, <1>3, <1>7 DEF TypeOK
  <1>9. manifest' # Absent => Copied(manifest)' BY <1>2, <1>3 DEF Copied
  <1>10. s = "ui" /\ task[s].kind = "enable"
    BY <1>1, <1>2 DEF CallKnown, OwnKinds, StepsOf, At, Slots
  <1>11. ASSUME NEW u \in Slots, u # s PROVE SlotKept(u)'
    <2>1. ~Busy(u) BY <1>1, <1>2, <1>10, <1>11 DEF LockKept, Doing, Slots
    <2> QED BY <1>2, <1>7, <1>11, <2>1, SameLive, Bystander DEF Busy, At, Walks
  <1>12. SlotKept(s)'
    BY <1>1, <1>2, <1>3, <1>6, <1>7, <1>10
       DEF SlotKept, CallKnown, EntriesAgree, BackingUp, BuiltKept, Busy, At, StepsOf
  <1> QED BY <1>7, <1>8, <1>9, <1>11, <1>12 DEF Base

\* What is built has the values of the gateway and the rest of each file.
LEMMA PatchedKnown ==
    ASSUME TypeOK, gateway \in Origins, NEW p \in Places
    PROVE  /\ Patched(p) \in Contents /\ Patched(p) # Absent
           /\ Patched(p).managed = ProxyValue(p) /\ Patched(p).other = Other(live[p])
  <1>1. ProxyValue(p) \in Managed BY DEF ProxyValue, Managed
  <1>2. live[p] = Absent \/ live[p] \in Contents BY DEF TypeOK, OptContents
  <1>3. Other(live[p]) \in 0..MaxEdits
    BY <1>2, TargetsAssumption DEF Other, Contents
  <1>4. Patched(p) \in Contents BY <1>1, <1>3 DEF Patched, Contents
  <1> QED BY <1>4, AbsentApart DEF Patched

LEMMA BuildStep == ASSUME Base, NEW s \in Slots, Build(s) PROVE Base'
  <1> DEFINE built == [p \in Places |-> Patched(p)]
  <1>1. /\ TypeOK /\ SlotKept(s) /\ CallKnown(s) /\ LockKept /\ task[s] \in Task
    BY DEF Base, SlotKept, TypeOK
  <1>2. /\ At(s, "build") /\ Busy(s)
        /\ task' = [task EXCEPT ![s].at = "apply", ![s].place = 1, ![s].built = built]
        /\ UNCHANGED <<live, backup, manifest, gateway, lock, user, removed, unrepaired, edits, faults, crashes>>
    BY <1>1 DEF Build, history, At, Busy
  <1>3. gateway \in Origins /\ task[s].kind \in {"enable", "sync"}
    BY <1>1, <1>2 DEF CallKnown, OwnKinds, StepsOf, At, LockKept, Doing, Slots
  <1>4. built \in [Places -> OptContents] BY <1>1, <1>3, PatchedKnown DEF OptContents
  <1>5. \A p \in Places : built[p] = Patched(p) OBVIOUS
  <1> HIDE DEF built
  <1>6. PICK t : t = [task[s] EXCEPT !.at = "apply", !.place = 1, !.built = built] OBVIOUS
  <1>7. task' = [task EXCEPT ![s] = t] BY <1>1, <1>2, <1>6 DEF TypeOK
  <1>8. /\ t \in Task /\ t.at = "apply" /\ t.kind = task[s].kind /\ t.m = task[s].m
        /\ t.place = 1 /\ t.fresh = task[s].fresh /\ t.built = built
    BY <1>1, <1>4, <1>6, PlacesKnown DEF Task, Steps
  <1>9. /\ task' \in [Slots -> Task] /\ task'[s] = t /\ LockKept'
        /\ \A u \in Slots : u # s => task'[u] = task[u]
    BY <1>2, <1>7, <1>8, GoesOn
  <1>10. TypeOK' BY <1>1, <1>2, <1>9 DEF TypeOK
  <1>11. manifest' # Absent => Copied(manifest)' BY <1>2 DEF Base, Copied
  <1>12. ASSUME NEW u \in Slots, u # s PROVE SlotKept(u)'
    <2>1. task[u].at \in Walks => manifest' # Absent /\ manifest'.entries = manifest.entries
      BY <1>2 DEF Base, SlotKept, EntriesAgree
    <2> QED BY <1>2, <1>9, <1>12, <2>1, SameLive, Bystander
  <1>13. CallKnown(s)' /\ EntriesAgree(s)' /\ BackingUp(s)'
    BY <1>1, <1>2, <1>3, <1>8, <1>9, PlacesKnown
       DEF SlotKept, CallKnown, EntriesAgree, BackingUp, Busy, At, More, StepsOf, Walks
  <1>14. BuiltKept(s)'
    <2> SUFFICES ASSUME NEW p \in Places
                 PROVE  /\ built[p] # Absent /\ built[p].managed = ProxyValue(p)
                        /\ IF live[p] # Absent THEN built[p].other = live[p].other
                           ELSE built[p].other = 0
      BY <1>2, <1>8, <1>9 DEF BuiltKept, ProxyValue
    <2> QED BY <1>1, <1>3, <1>5, PatchedKnown DEF Other
  <1> QED BY <1>9, <1>10, <1>11, <1>12, <1>13, <1>14 DEF Base, SlotKept

\* Apply writes one file, and goes to the next one or to the manifest.
LEMMA ApplyKnown ==
    ASSUME Base, NEW s \in Slots, Apply(s)
    PROVE  /\ At(s, "apply") /\ Busy(s) /\ task[s].place \in Places
           /\ task[s].kind \in {"enable", "sync"} /\ gateway \in Origins
           /\ live' = [live EXCEPT ![task[s].place] = task[s].built[task[s].place]]
           /\ live' \in [Places -> OptContents]
           /\ UNCHANGED <<backup, manifest, gateway, lock, user, removed, unrepaired, edits, faults, crashes>>
           /\ \E t \in Task :
                /\ task' = [task EXCEPT ![s] = t]
                /\ t.kind = task[s].kind /\ t.m = task[s].m /\ t.fresh = task[s].fresh
                /\ t.built = task[s].built
                /\ \/ t.at = "flag" /\ t.place = 1 /\ task[s].place = Len(Files)
                   \/ t.at = "apply" /\ t.place = task[s].place + 1 /\ task[s].place < Len(Files)
  <1>1. /\ TypeOK /\ CallKnown(s) /\ LockKept /\ task[s] \in Task
    BY DEF Base, SlotKept, TypeOK
  <1>2. At(s, "apply") /\ Busy(s) /\ task[s].place \in Places
    BY <1>1, PlacesKnown DEF Apply, At, Busy, More, Task, Places
  <1>3. gateway \in Origins /\ task[s].kind \in {"enable", "sync"}
    BY <1>1, <1>2 DEF CallKnown, OwnKinds, StepsOf, At, LockKept, Doing, Slots
  <1>4. /\ live' = [live EXCEPT ![task[s].place] = task[s].built[task[s].place]]
        /\ UNCHANGED <<backup, manifest, gateway, lock, user, removed, unrepaired, edits, faults, crashes>>
    BY DEF Apply, history
  <1>5. live' \in [Places -> OptContents] BY <1>1, <1>2, <1>4 DEF TypeOK, Task
  <1>6. \E t \in Task :
            /\ task' = [task EXCEPT ![s] = t]
            /\ t.kind = task[s].kind /\ t.m = task[s].m /\ t.fresh = task[s].fresh
            /\ t.built = task[s].built
            /\ \/ t.at = "flag" /\ t.place = 1 /\ task[s].place = Len(Files)
               \/ t.at = "apply" /\ t.place = task[s].place + 1 /\ task[s].place < Len(Files)
    <2>1. CASE task[s].place = Len(Files)
      <3>1. PICK t : t = [task[s] EXCEPT !.at = "flag", !.place = 1] OBVIOUS
      <3>2. task' = [task EXCEPT ![s] = t]
        BY <1>1, <2>1, <3>1 DEF Apply, Goto, TypeOK
      <3>3. /\ t \in Task /\ t.at = "flag" /\ t.kind = task[s].kind /\ t.m = task[s].m
            /\ t.place = 1 /\ t.fresh = task[s].fresh /\ t.built = task[s].built
        BY <1>1, <3>1, PlacesKnown DEF Task, Steps
      <3> QED BY <2>1, <3>2, <3>3
    <2>2. CASE task[s].place # Len(Files)
      <3>1. PICK t : t = [task[s] EXCEPT !.place = task[s].place + 1] OBVIOUS
      <3>2. task' = [task EXCEPT ![s] = t]
        BY <1>1, <2>2, <3>1 DEF Apply, Advance, TypeOK, Task
      <3>3. /\ t \in Task /\ t.at = "apply" /\ t.kind = task[s].kind /\ t.m = task[s].m
            /\ t.place = task[s].place + 1 /\ t.fresh = task[s].fresh
            /\ t.built = task[s].built
        BY <1>1, <1>2, <3>1, PlacesKnown DEF Task, At
      <3>4. task[s].place < Len(Files) BY <1>2, <2>2, PlacesKnown DEF Places
      <3> QED BY <3>2, <3>3, <3>4
    <2> QED BY <2>1, <2>2
  <1> QED BY <1>2, <1>3, <1>4, <1>5, <1>6

LEMMA ApplyStep == ASSUME Base, NEW s \in Slots, Apply(s) PROVE Base'
  <1>1. /\ TypeOK /\ SlotKept(s) /\ CallKnown(s) /\ LockKept /\ task[s] \in Task
    BY DEF Base, SlotKept, TypeOK
  <1>2. /\ At(s, "apply") /\ Busy(s) /\ task[s].place \in Places
        /\ task[s].kind \in {"enable", "sync"}
        /\ live' = [live EXCEPT ![task[s].place] = task[s].built[task[s].place]]
        /\ live' \in [Places -> OptContents]
        /\ UNCHANGED <<backup, manifest, gateway, lock, user, removed, unrepaired, edits, faults, crashes>>
    BY ApplyKnown
  <1>3. PICK t \in Task :
            /\ task' = [task EXCEPT ![s] = t]
            /\ t.kind = task[s].kind /\ t.m = task[s].m /\ t.fresh = task[s].fresh
            /\ t.built = task[s].built
            /\ \/ t.at = "flag" /\ t.place = 1 /\ task[s].place = Len(Files)
               \/ t.at = "apply" /\ t.place = task[s].place + 1 /\ task[s].place < Len(Files)
    BY ApplyKnown
  <1>4. /\ task' \in [Slots -> Task] /\ task'[s] = t /\ LockKept'
        /\ \A u \in Slots : u # s => task'[u] = task[u]
    BY <1>2, <1>3, GoesOn
  <1>5. TypeOK' BY <1>1, <1>2, <1>4 DEF TypeOK
  <1>6. manifest' # Absent => Copied(manifest)' BY <1>2 DEF Base, Copied
  <1>7. ASSUME NEW u \in Slots, u # s PROVE SlotKept(u)'
    <2>1. task[u].at \in Walks => manifest' # Absent /\ manifest'.entries = manifest.entries
      BY <1>2 DEF Base, SlotKept, EntriesAgree
    <2>2. ~At(u, "apply")
      <3>1. CallKnown(u) BY DEF Base, SlotKept
      <3> QED BY <1>1, <1>2, <1>7, <3>1, AbsentApart
              DEF At, CallKnown, Busy, LockKept, OwnKinds, StepsOf, Locking, Slots
    <2> QED BY <1>2, <1>4, <1>7, <2>1, <2>2, Bystander
  <1>8. CallKnown(s)' /\ EntriesAgree(s)' /\ BackingUp(s)'
    BY <1>1, <1>2, <1>3, <1>4, PlacesKnown
       DEF SlotKept, CallKnown, EntriesAgree, BackingUp, Busy, At, More, StepsOf, Walks, Places
  <1>9. BuiltKept(s)'
    <2> SUFFICES ASSUME t.at = "apply", t.place = task[s].place + 1, NEW p \in Places
                 PROVE  /\ t.built[p] # Absent /\ t.built[p].managed = ProxyValue(p)
                        /\ p >= t.place =>
                              IF live'[p] # Absent THEN t.built[p].other = live'[p].other
                              ELSE manifest.entries[p] = "existed" => t.built[p].other = 0
      BY <1>2, <1>3, <1>4 DEF BuiltKept, ProxyValue, At
    <2>1. p >= t.place => p >= task[s].place /\ live'[p] = live[p]
      BY <1>1, <1>2, PlacesKnown DEF TypeOK, Places
    <2> QED BY <1>1, <1>2, <1>3, <2>1 DEF SlotKept, BuiltKept
  <1> QED BY <1>4, <1>5, <1>6, <1>7, <1>8, <1>9 DEF Base, SlotKept

LEMMA FlagStep == ASSUME Base, NEW s \in Slots, Flag(s) PROVE Base'
  <1>1. /\ TypeOK /\ SlotKept(s) /\ CallKnown(s) /\ task[s] \in Task
    BY DEF Base, SlotKept, TypeOK
  <1>2. /\ At(s, "flag") /\ Finish(s)
        /\ UNCHANGED <<live, backup, gateway, user, removed, unrepaired, edits, faults, crashes>>
    BY DEF Flag, history
  <1>w. PICK w \in Origins \cup {Absent} : manifest' = Flagged(s, w)
    BY <1>1 DEF Flag, TypeOK
  <1>3. /\ manifest # Absent /\ task[s].m \in Manifest
        /\ task[s].m.entries = manifest.entries
    BY <1>1, <1>2 DEF SlotKept, EntriesAgree, At, Walks, Task
  <1>4. PICK o \in Origins \cup {Absent} :
            o = IF task[s].kind = "repair" THEN task[s].m.origin ELSE w
    BY <1>1, <1>3 DEF TypeOK, Manifest
  <1>5. Flagged(s, w) = [task[s].m EXCEPT !.enabled = TRUE, !.origin = o]
    BY <1>3, <1>4 DEF Flagged, Manifest
  <1>6. manifest' \in Manifest /\ manifest'.entries = manifest.entries
    BY <1>3, <1>w, <1>5 DEF Manifest
  <1>7. TypeOK' BY <1>1, <1>2, <1>6, FinishStep DEF TypeOK
  <1>8. manifest' # Absent /\ Copied(manifest)'
    BY <1>2, <1>3, <1>6, AbsentApart DEF Base, Copied
  <1>9. ASSUME NEW u \in Slots, u # s PROVE SlotKept(u)'
    BY <1>2, <1>6, <1>8, <1>9, FinishStep, SameLive, Bystander
  <1> QED BY <1>2, <1>7, <1>8, <1>9, FinishStep DEF Base

\* What comes back has the managed part of the copy and the rest of the file.
LEMMA RestoreKnown ==
    ASSUME Base, NEW s \in Slots, Restore(s)
    PROVE  LET p == task[s].place IN
           /\ p \in Places /\ At(s, "restore") /\ Busy(s)
           /\ manifest # Absent /\ live' \in [Places -> OptContents]
           /\ removed' \in [Places -> OptContents]
           /\ \A q \in Places : q # p => live'[q] = live[q]
           /\ IF manifest.entries[p] = "existed"
              THEN /\ backup[p] # Absent /\ live'[p] # Absent
                   /\ live'[p].managed = backup[p].managed
                   /\ live'[p].other = Other(live[p])
              ELSE live'[p] = Absent /\ (live[p] # Absent => removed'[p] = live[p])
           /\ \E t \in Task :
                /\ task' = [task EXCEPT ![s] = t] /\ t.at = "restore"
                /\ t.kind = task[s].kind /\ t.m = task[s].m /\ t.fresh = task[s].fresh
                /\ t.place = p + 1
           /\ UNCHANGED <<backup, manifest, gateway, lock, user, unrepaired, edits, faults, crashes>>
  <1> DEFINE p == task[s].place
  <1>1. /\ TypeOK /\ EntriesAgree(s) /\ task[s] \in Task BY DEF Base, SlotKept, TypeOK
  <1>2. p \in Places /\ At(s, "restore") /\ Busy(s) /\ manifest # Absent
        /\ task[s].m.entries = manifest.entries
    BY <1>1, PlacesKnown
       DEF Restore, At, Busy, More, Task, Places, EntriesAgree, Walks
  <1>3. /\ live' = [live EXCEPT ![p] = IF manifest.entries[p] = "existed"
                                       THEN Merged(live[p], backup[p]) ELSE Absent]
        /\ removed' = IF manifest.entries[p] = "existed" \/ live[p] = Absent THEN removed
                      ELSE [removed EXCEPT ![p] = live[p]]
        /\ Advance(s, task[s])
        /\ UNCHANGED <<backup, manifest, gateway, lock, user, unrepaired, edits, faults, crashes>>
    BY <1>1, <1>2 DEF Restore, history, TypeOK
  <1>4. /\ manifest.entries[p] = "existed" => backup[p] \in Contents /\ backup[p] # Absent
        /\ live[p] \in OptContents
    BY <1>1, <1>2 DEF Base, Copied, TypeOK, OptContents
  <1> HIDE DEF p
  <1>5. Other(live[p]) \in 0..MaxEdits
    BY <1>4, TargetsAssumption DEF Other, OptContents, Contents
  <1>6. ASSUME manifest.entries[p] = "existed"
        PROVE  /\ Merged(live[p], backup[p]) \in Contents
               /\ Merged(live[p], backup[p]).managed = backup[p].managed
               /\ Merged(live[p], backup[p]).other = Other(live[p])
    BY <1>4, <1>5, <1>6 DEF Merged, Contents
  <1>7. PICK c \in OptContents :
            /\ c = IF manifest.entries[p] = "existed"
                   THEN Merged(live[p], backup[p]) ELSE Absent
            /\ IF manifest.entries[p] = "existed"
               THEN /\ c # Absent /\ c.managed = backup[p].managed
                    /\ c.other = Other(live[p])
               ELSE c = Absent
    BY <1>6, AbsentApart DEF OptContents
  <1>8. live' = [live EXCEPT ![p] = c] BY <1>3, <1>7
  <1>9. /\ live' \in [Places -> OptContents] /\ live'[p] = c
        /\ \A q \in Places : q # p => live'[q] = live[q]
    BY <1>1, <1>2, <1>8 DEF TypeOK, p
  <1>10. /\ removed' \in [Places -> OptContents]
         /\ c = Absent /\ live[p] # Absent => removed'[p] = live[p]
    BY <1>1, <1>2, <1>3, <1>4, <1>7 DEF TypeOK, p
  <1>11. \E t \in Task :
            /\ task' = [task EXCEPT ![s] = t] /\ t.at = "restore"
            /\ t.kind = task[s].kind /\ t.m = task[s].m /\ t.fresh = task[s].fresh
            /\ t.place = p + 1
    <2>1. PICK t : t = [task[s] EXCEPT !.place = p + 1] OBVIOUS
    <2>2. task' = [task EXCEPT ![s] = t]
      BY <1>1, <1>3, <2>1 DEF Advance, Task, p
    <2>3. p + 1 \in 1..(Len(Files) + 1) BY <1>2, PlacesKnown DEF p
    <2>4. /\ t \in Task /\ t.at = "restore" /\ t.kind = task[s].kind
          /\ t.m = task[s].m /\ t.fresh = task[s].fresh /\ t.place = p + 1
      BY <1>1, <1>2, <2>1, <2>3 DEF Task, At
    <2> QED BY <2>2, <2>4
  <1> QED BY <1>2, <1>3, <1>4, <1>7, <1>9, <1>10, <1>11 DEF p

LEMMA RestoreStep == ASSUME Base, NEW s \in Slots, Restore(s) PROVE Base'
  <1> DEFINE p == task[s].place
  <1>1. /\ TypeOK /\ SlotKept(s) /\ CallKnown(s) /\ LockKept /\ task[s] \in Task
    BY DEF Base, SlotKept, TypeOK
  <1>2. /\ p \in Places /\ At(s, "restore") /\ Busy(s)
        /\ manifest # Absent /\ live' \in [Places -> OptContents]
        /\ removed' \in [Places -> OptContents]
        /\ \A q \in Places : q # p => live'[q] = live[q]
        /\ IF manifest.entries[p] = "existed"
           THEN /\ backup[p] # Absent /\ live'[p] # Absent
                /\ live'[p].managed = backup[p].managed
                /\ live'[p].other = Other(live[p])
           ELSE live'[p] = Absent /\ (live[p] # Absent => removed'[p] = live[p])
        /\ UNCHANGED <<backup, manifest, gateway, lock, user, unrepaired, edits, faults, crashes>>
    BY RestoreKnown
  <1>3. PICK t \in Task :
            /\ task' = [task EXCEPT ![s] = t] /\ t.at = "restore"
            /\ t.kind = task[s].kind /\ t.m = task[s].m /\ t.fresh = task[s].fresh
            /\ t.place = p + 1
    BY RestoreKnown
  <1> HIDE DEF p
  <1>4. /\ task' \in [Slots -> Task] /\ task'[s] = t /\ LockKept'
        /\ \A u \in Slots : u # s => task'[u] = task[u]
    BY <1>2, <1>3, GoesOn
  <1>5. TypeOK' BY <1>1, <1>2, <1>4 DEF TypeOK
  <1>6. manifest' # Absent => Copied(manifest)' BY <1>2 DEF Base, Copied
  <1>7. \A q \in Places : LiveKept(q)
    <2> TAKE q \in Places
    <2>1. CASE q = p BY <1>2, <2>1 DEF LiveKept
    <2>2. CASE q # p BY <1>2, <2>2 DEF LiveKept, Other
    <2> QED BY <2>1, <2>2
  <1>8. ASSUME NEW u \in Slots, u # s PROVE SlotKept(u)'
    <2>1. task[u].at \in Walks => manifest' # Absent /\ manifest'.entries = manifest.entries
      BY <1>2 DEF Base, SlotKept, EntriesAgree
    <2> QED BY <1>2, <1>4, <1>7, <1>8, <2>1, Bystander
  <1>9. CallKnown(s)' /\ EntriesAgree(s)' /\ BackingUp(s)' /\ BuiltKept(s)'
    BY <1>1, <1>2, <1>3, <1>4
       DEF SlotKept, CallKnown, EntriesAgree, BackingUp, BuiltKept, Busy, At, Walks
  <1> QED BY <1>4, <1>5, <1>6, <1>8, <1>9 DEF Base, SlotKept

LEMMA RestoredStep == ASSUME Base, NEW s \in Slots, Restored(s) PROVE Base'
  <1>1. /\ TypeOK /\ SlotKept(s) /\ CallKnown(s) /\ task[s] \in Task
    BY DEF Base, SlotKept, TypeOK
  <1>2. /\ At(s, "restore") /\ Finish(s)
        /\ manifest' = IF task[s].kind \in {"stop", "exit"} THEN manifest
                       ELSE [task[s].m EXCEPT !.enabled = FALSE]
        /\ UNCHANGED <<live, backup, gateway, user, removed, unrepaired, edits, faults, crashes>>
    BY DEF Restored, history
  <1>3. /\ manifest \in Manifest /\ task[s].m \in Manifest
        /\ task[s].m.entries = manifest.entries
    BY <1>1, <1>2 DEF SlotKept, EntriesAgree, At, Walks, Task, TypeOK
  <1>4. manifest' \in Manifest /\ manifest'.entries = manifest.entries
    BY <1>2, <1>3 DEF Manifest
  <1>5. TypeOK' BY <1>1, <1>2, <1>4, FinishStep DEF TypeOK
  <1>6. manifest # Absent /\ manifest' # Absent /\ Copied(manifest)'
    BY <1>2, <1>3, <1>4, AbsentApart DEF Base, Copied
  <1>7. ASSUME NEW u \in Slots, u # s PROVE SlotKept(u)'
    BY <1>2, <1>4, <1>6, <1>7, FinishStep, SameLive, Bystander
  <1> QED BY <1>2, <1>5, <1>6, <1>7, FinishStep DEF Base

LEMMA FailStep == ASSUME Base, NEW s \in Slots, Fail(s) PROVE Base'
  <1>1. /\ TypeOK /\ SlotKept(s) /\ CallKnown(s) /\ task[s] \in Task
    BY DEF Base, SlotKept, TypeOK
  <1>2. /\ faults' \in 0..MaxFaults /\ unrepaired' \in BOOLEAN
        /\ UNCHANGED <<live, backup, manifest, gateway, user, removed, edits, crashes>>
    BY <1>1, TargetsAssumption DEF Fail, Fails, TypeOK
  <1>3. manifest' # Absent => Copied(manifest)' BY <1>2 DEF Base, Copied
  <1>4. ASSUME NEW u \in Slots, task'[u] = task[u] PROVE SlotKept(u)'
    <2>1. task[u].at \in Walks => manifest' # Absent /\ manifest'.entries = manifest.entries
      BY <1>2 DEF Base, SlotKept, EntriesAgree
    <2> QED BY <1>2, <1>4, <2>1, SameLive, Bystander
  <1>5. CASE TakesBack(s) /\ Goto(s, "restore") /\ UNCHANGED lock
    <2>1. PICK t : t = [task[s] EXCEPT !.at = "restore", !.place = 1] OBVIOUS
    <2>2. task' = [task EXCEPT ![s] = t] BY <1>1, <1>5, <2>1 DEF Goto, TypeOK
    <2>3. /\ t \in Task /\ t.at = "restore" /\ t.kind = task[s].kind /\ t.m = task[s].m
          /\ t.place = 1 /\ t.fresh = task[s].fresh
      BY <1>1, <2>1, PlacesKnown DEF Task, Steps
    <2>4. Busy(s) /\ task[s].at \in Walks /\ task[s].kind = "enable"
      BY <1>5 DEF TakesBack, Busy, Walks
    <2>5. /\ task' \in [Slots -> Task] /\ task'[s] = t /\ LockKept'
          /\ \A u \in Slots : u # s => task'[u] = task[u]
      BY <1>2, <1>5, <2>2, <2>3, <2>4, GoesOn
    <2>6. TypeOK' BY <1>1, <1>2, <1>5, <2>5 DEF TypeOK
    <2>7. SlotKept(s)'
      BY <1>1, <1>2, <2>3, <2>4, <2>5
         DEF SlotKept, CallKnown, EntriesAgree, BackingUp, BuiltKept, Busy, At, StepsOf
    <2> QED BY <1>3, <1>4, <2>5, <2>6, <2>7 DEF Base
  <1>6. CASE ~TakesBack(s) /\ Finish(s)
    <2>1. TypeOK' BY <1>1, <1>2, <1>6, FinishStep DEF TypeOK
    <2> QED BY <1>2, <1>3, <1>4, <1>6, <2>1, FinishStep DEF Base
  <1> QED BY <1>5, <1>6 DEF Fail

\* After a start of the process only the repair is at work, or the restore that takes its
\* place, or nothing; a torn enable that is not repaired is noted.
Started ==
    \/ lock' = Absent /\ task'["app"] = Idle
    \/ lock' = Absent /\ task'["app"].at = "read" /\ task'["app"].kind = "repair"
    \/ lock' = "app" /\ task'["app"].at = "read" /\ task'["app"].kind = "stop"

LEMMA RebootKnown ==
    ASSUME TypeOK, Reboot
    PROVE  /\ task' \in [Slots -> Task] /\ gateway' = Absent /\ Started
           /\ task'["ui"] = Idle /\ task'["app"].place = 1
           /\ unrepaired' \in BOOLEAN
           /\ ~unrepaired' => ~unrepaired /\ (Repairing' \/ ~Torn(manifest))
           /\ UNCHANGED <<live, backup, manifest, user, removed, edits, faults>>
  <1>1. PICK k \in {"repair", "stop", "none"} :
            /\ task' = [task EXCEPT !["ui"] = Idle, !["app"] =
                    IF k = "none" THEN Idle ELSE [Idle EXCEPT !.at = "read", !.kind = k]]
            /\ lock' = (IF k = "stop" THEN "app" ELSE Absent)
            /\ unrepaired' = (unrepaired \/ (k # "repair" /\ Torn(manifest)))
    BY DEF Reboot
  <1>2. PICK t \in Task :
            /\ t = IF k = "none" THEN Idle ELSE [Idle EXCEPT !.at = "read", !.kind = k]
            /\ t.place = 1
            /\ k # "none" => t.at = "read" /\ t.kind = k
    BY IdleTask, PlacesKnown DEF Task, Steps, Kinds
  <1>3. task' = [task EXCEPT !["ui"] = Idle, !["app"] = t] BY <1>1, <1>2
  <1>4. task' \in [Slots -> Task] /\ task'["ui"] = Idle /\ task'["app"] = t
    BY <1>3, IdleTask DEF TypeOK, Slots
  <1>5. unrepaired' \in BOOLEAN BY <1>1 DEF TypeOK
  <1>6. ~unrepaired' => ~unrepaired /\ (k = "repair" \/ ~Torn(manifest)) BY <1>1
  <1>7. k = "repair" => Repairing' BY <1>2, <1>4 DEF Repairing, Doing, Busy
  <1>8. Started BY <1>1, <1>2, <1>4 DEF Started
  <1>9. gateway' = Absent /\ UNCHANGED <<live, backup, manifest, user, removed, edits, faults>>
    BY DEF Reboot
  <1>10. ~unrepaired' => ~unrepaired /\ (Repairing' \/ ~Torn(manifest))
    BY <1>6, <1>7, Zenon
  <1>11. task'["app"].place = 1 BY <1>2, <1>4
  <1> QED BY <1>4, <1>5, <1>8, <1>9, <1>10, <1>11, Zenon

LEMMA RebootStep == ASSUME Base, Reboot, crashes' \in 0..MaxCrashes PROVE Base'
  <1>1. TypeOK BY DEF Base
  <1>2. /\ task' \in [Slots -> Task] /\ Started /\ gateway' = Absent
        /\ task'["ui"] = Idle /\ task'["app"].place = 1 /\ unrepaired' \in BOOLEAN
        /\ UNCHANGED <<live, backup, manifest, user, removed, edits, faults>>
    BY <1>1, RebootKnown
  <1>3. TypeOK' BY <1>1, <1>2 DEF TypeOK, Started, Slots
  <1>4. manifest' # Absent => Copied(manifest)' BY <1>2 DEF Base, Copied
  <1>5. LockKept'
    BY <1>2, IdleTask, AbsentApart
       DEF LockKept, Started, Following, Busy, Doing, Locking, Slots
  <1>6. CallKnown("ui")' /\ CallKnown("app")'
    BY <1>2, IdleTask, AbsentApart DEF CallKnown, Started, Busy, At, OwnKinds, StepsOf
  <1>7. SlotKept("ui")' /\ SlotKept("app")'
    BY <1>2, <1>6, IdleTask, OffTheFiles DEF Started, Slots
  <1> QED BY <1>3, <1>4, <1>5, <1>7 DEF Base, Slots

\* Between the calls the user's own changes keep what the calls rely on.
LEMMA UserStep ==
    ASSUME Base, \A s \in Slots : ~At(s, "apply"),
           live' \in [Places -> OptContents], user' \in [Places -> Direct \cup {Absent}],
           edits' \in 0..MaxEdits,
           UNCHANGED <<backup, manifest, gateway, lock, task, removed, unrepaired, faults, crashes>>
    PROVE  Base'
  <1>1. TypeOK' /\ LockKept' /\ (manifest' # Absent => Copied(manifest)')
    BY DEF Base, TypeOK, LockKept, Following, Copied, Busy, Doing
  <1>2. ASSUME NEW s \in Slots PROVE SlotKept(s)'
    <2>1. task[s].at \in Walks => manifest' # Absent /\ manifest'.entries = manifest.entries
      BY DEF Base, SlotKept, EntriesAgree
    <2> QED BY <2>1, Bystander
  <1> QED BY <1>1, <1>2 DEF Base

LEMMA EditStep == ASSUME Base, NEW p \in Places, Edit(p) PROVE Base'
  <1>1. TypeOK BY DEF Base
  <1>2. /\ edits' = edits + 1 /\ edits' \in 0..MaxEdits
        /\ live[p] \in Contents
        /\ live' = [live EXCEPT ![p].other = edits + 1]
        /\ \A s \in Slots : ~At(s, "apply")
        /\ UNCHANGED <<backup, manifest, gateway, lock, task, user, removed, unrepaired, faults, crashes>>
    BY <1>1, TargetsAssumption DEF Edit, TypeOK, OptContents
  <1>3. PICK c \in Contents : c = [live[p] EXCEPT !.other = edits + 1]
    BY <1>2 DEF Contents
  <1>4. live' = [live EXCEPT ![p] = c] BY <1>1, <1>2, <1>3 DEF TypeOK
  <1>5. live' \in [Places -> OptContents] BY <1>1, <1>4 DEF TypeOK, OptContents
  <1> QED BY <1>1, <1>2, <1>5, UserStep DEF TypeOK

LEMMA ChooseStep == ASSUME Base, NEW p \in Places, NEW d \in Direct, Choose(p, d) PROVE Base'
  <1>1. TypeOK BY DEF Base
  <1>2. /\ edits' \in 0..MaxEdits
        /\ user' = [user EXCEPT ![p] = d]
        /\ live' = [live EXCEPT ![p] = [managed |-> d, other |-> Other(live[p])]]
        /\ \A s \in Slots : ~At(s, "apply")
        /\ UNCHANGED <<backup, manifest, gateway, lock, task, removed, unrepaired, faults, crashes>>
    BY <1>1, TargetsAssumption DEF Choose, TypeOK, Busy, At
  <1>3. Other(live[p]) \in 0..MaxEdits
    BY <1>1, TargetsAssumption DEF Other, TypeOK, OptContents, Contents
  <1>4. [managed |-> d, other |-> Other(live[p])] \in Contents
    BY <1>3 DEF Contents, Managed
  <1>5. live' \in [Places -> OptContents] /\ user' \in [Places -> Direct \cup {Absent}]
    BY <1>1, <1>2, <1>4 DEF TypeOK, OptContents
  <1> QED BY <1>2, <1>5, UserStep

LEMMA InitBase == Init => Base
  <1> SUFFICES ASSUME Init PROVE Base OBVIOUS
  <1>1. /\ task \in [Slots -> Task] /\ \A s \in Slots : task[s] = Idle
    BY IdleTask DEF Init
  <1>2. live \in [Places -> OptContents]
    <2>1. 0 \in 0..MaxEdits BY TargetsAssumption
    <2>2. \A p \in Places : user[p] # Absent =>
              [managed |-> user[p], other |-> 0] \in OptContents
      BY <2>1 DEF Init, OptContents, Contents, Managed
    <2> QED BY <2>2 DEF Init, OptContents
  <1>3. TypeOK
    <2>1. unrepaired \in BOOLEAN BY Zenon DEF Init
    <2>2. edits \in 0..MaxEdits /\ faults \in 0..MaxFaults /\ crashes \in 0..MaxCrashes
      BY TargetsAssumption DEF Init
    <2>3. backup \in [Places -> OptContents] /\ removed \in [Places -> OptContents]
      BY DEF Init, OptContents
    <2>4. /\ user \in [Places -> Direct \cup {Absent}] /\ manifest = Absent
          /\ gateway = Absent /\ lock = Absent
      BY DEF Init
    <2> QED BY <1>1, <1>2, <2>1, <2>2, <2>3, <2>4 DEF TypeOK
  <1>4. LockKept
    BY <1>1, IdleTask, AbsentApart DEF Init, LockKept, Following, Busy, Doing, Slots
  <1>5. \A s \in Slots : SlotKept(s)
    BY <1>1, IdleTask
       DEF SlotKept, CallKnown, EntriesAgree, BackingUp, BuiltKept, Busy, At, Walks
  <1> QED BY <1>3, <1>4, <1>5 DEF Init, Base

\* The calls that a step may start.
LEMMA Starts ==
    ASSUME Base, Enable \/ Disable \/ Sync \/ Retarget \/ Stop \/ Exit PROVE Base'
  <1>1. TypeOK BY DEF Base
  <1>2. CASE Enable
    BY <1>1, <1>2, StartStep
       DEF Enable, OwnKinds, Locking, Slots, TypeOK
  <1>3. CASE Disable
    BY <1>1, <1>3, StartStep DEF Disable, Following, OwnKinds, Locking, Slots
  <1>4. CASE Sync
    BY <1>1, <1>4, AbsentApart, StartStep DEF Sync, OwnKinds, Locking, Slots
  <1>5. CASE Stop
    BY <1>1, <1>5, AbsentApart, StartStep DEF Stop, OwnKinds, Locking, Slots
  <1>6. CASE Exit
    BY <1>1, <1>6, AbsentApart, StartStep DEF Exit, OwnKinds, Locking, Slots
  <1>7. CASE Retarget
    BY <1>1, <1>7, AbsentApart, StartStep DEF Retarget, OwnKinds, Locking, Slots
  <1> QED BY <1>2, <1>3, <1>4, <1>5, <1>6, <1>7

LEMMA Stutters == ASSUME Base, UNCHANGED vars PROVE Base'
  <1>1. UNCHANGED <<live, backup, manifest, gateway, lock, task, user, removed,
                    unrepaired, edits, faults, crashes>>
    BY DEF vars
  <1>2. TypeOK' /\ LockKept' /\ (manifest' # Absent => Copied(manifest)')
    BY <1>1 DEF Base, TypeOK, LockKept, Following, Copied, Busy, Doing
  <1>3. \A s \in Slots : SlotKept(s)'
    BY <1>1 DEF Base, SlotKept, CallKnown, EntriesAgree, BackingUp, BuiltKept, Copied,
                Busy, At, More, ProxyValue
  <1> QED BY <1>2, <1>3 DEF Base

LEMMA NextBase == Base /\ [Next]_vars => Base'
  <1> SUFFICES ASSUME Base, [Next]_vars PROVE Base' OBVIOUS
  <1>1. TypeOK BY DEF Base
  <1>2. CASE Quit
    BY <1>1, <1>2, RebootStep DEF Quit, TypeOK
  <1>3. CASE Crash
    BY <1>1, <1>3, RebootStep, TargetsAssumption DEF Crash, TypeOK
  <1>4. ASSUME NEW s \in Slots, Work(s) \/ Fail(s) PROVE Base'
    BY <1>4, ReadStep, BackUpStep, RecordStep, BuildStep, ApplyStep, FlagStep,
       RestoreStep, RestoredStep, FailStep DEF Work
  <1>5. ASSUME NEW p \in Places, Edit(p) \/ \E d \in Direct : Choose(p, d) PROVE Base'
    BY <1>5, EditStep, ChooseStep
  <1> QED BY <1>2, <1>3, <1>4, <1>5, Starts, Stutters DEF Next

\* The variables stay in their types, whatever fails and however often, and a disable
\* may overlap with a sync.
THEOREM TypesCorrect == Spec => []TypeOK
  <1>1. Base => TypeOK BY DEF Base
  <1> QED BY InitBase, NextBase, <1>1, PTL DEF Spec

\* The rest of a file is the user's: no step but an edit changes it, except the
\* removal of a file the proxy created, which copies it to safety first.
THEOREM RestIsTheUsers == Spec => RestKept
  <1> DEFINE A == \A p \in Places :
                    live[p] # Absent /\ edits' = edits =>
                        IF live'[p] = Absent THEN live[p] = removed'[p]
                        ELSE live'[p].other = live[p].other
  <1>1. ASSUME Base, [Next]_vars PROVE [A]_vars
    <2>1. TypeOK BY <1>1 DEF Base
    <2>2. live' = live => A
      BY <2>1, AbsentApart DEF TypeOK, OptContents
    <2>3. ASSUME NEW s \in Slots, Apply(s) PROVE A
      <3>1. /\ At(s, "apply") /\ task[s].place \in Places
            /\ live' = [live EXCEPT ![task[s].place] = task[s].built[task[s].place]]
        BY <1>1, <2>3, ApplyKnown
      <3>2. BuiltKept(s) BY <1>1 DEF Base, SlotKept
      <3>3. ASSUME NEW p \in Places, live[p] # Absent
            PROVE  live'[p] # Absent /\ live'[p].other = live[p].other
        <4>1. CASE p = task[s].place
          <5>1. p >= task[s].place BY <4>1, PlacesKnown
          <5>2. /\ task[s].built[p] # Absent
                /\ task[s].built[p].other = live[p].other
            BY <3>1, <3>2, <3>3, <5>1 DEF BuiltKept
          <5> QED BY <2>1, <3>1, <4>1, <5>2 DEF TypeOK
        <4>2. CASE p # task[s].place BY <2>1, <3>1, <3>3, <4>2 DEF TypeOK
        <4> QED BY <4>1, <4>2
      <3> QED BY <3>3
    <2>4. ASSUME NEW s \in Slots, Restore(s) PROVE A
      <3>1. LET p == task[s].place IN
            /\ \A q \in Places : q # p => live'[q] = live[q]
            /\ IF manifest.entries[p] = "existed"
               THEN live'[p] # Absent /\ live'[p].other = Other(live[p])
               ELSE live'[p] = Absent /\ (live[p] # Absent => removed'[p] = live[p])
        BY <1>1, <2>4, RestoreKnown
      <3> QED BY <3>1 DEF Other
    <2>5. ASSUME NEW s \in Slots, Work(s) \/ Fail(s) PROVE A
      BY <2>2, <2>3, <2>4, <2>5
         DEF Work, Read, BackUp, Record, Build, Flag, Restored, Fail
    <2>6. ASSUME NEW p \in Places, Edit(p) \/ \E d \in Direct : Choose(p, d) PROVE A
      BY <2>1, <2>6 DEF Edit, Choose, TypeOK
    <2>7. Enable \/ Disable \/ Sync \/ Retarget \/ Stop \/ Exit \/ Quit \/ Crash => A
      BY <2>2 DEF Enable, Disable, Sync, Retarget, Stop, Exit, Quit, Crash, Start, Reboot
    <2> HIDE DEF A
    <2> QED BY <1>1, <2>5, <2>6, <2>7 DEF Next
  <1> HIDE DEF A
  <1>2. Spec => [][A]_vars BY InitBase, NextBase, <1>1, PTL DEF Spec
  <1> QED BY <1>2 DEF RestKept, A

(* ------------------- the user's configuration: the steps ------------------- *)

\* What the two theorems below assume. The repair knows a torn enable when every file
\* but the first holds some API key (codex.rs), so the user has one there, and there are
\* at most two files (target_files). No access fails but a read of the manifest, and the
\* copies and files an enable, a sync or a restore reads and writes: not a last write of
\* the manifest (the finding). Taking an enable back does not fail too, so no second
\* fault where a restore can fail. A disable, which takes no lock, does not overlap with
\* a sync or a retarget. The start-ups that do not repair are not excluded: DirectKept
\* and OffIsDirect say what they claim after one.
Repairable ==
    /\ ~MeetsSync
    /\ MayFail \subseteq {"read", "backup", "build", "apply", "restore"}
    /\ MaxFaults <= 1 \/ "restore" \notin MayFail
    /\ Len(Files) <= 2
    /\ Len(Files) = 1 \/ (Direct = Keys /\ MayLack \subseteq {1})

\* An enable and the repair work alone, and each step belongs to a few calls.
LEMMA WhoWorks ==
    ASSUME Base
    PROVE  /\ Busy("ui") => task["ui"].kind \in {"enable", "disable"}
           /\ Busy("app") => task["app"].kind \in OwnKinds("app")
           /\ task["ui"].at \in {"backup", "build", "apply", "flag"} =>
                 task["ui"].kind = "enable" /\ ~Busy("app")
           /\ task["ui"].at = "restore" =>
                 \/ task["ui"].kind = "enable" /\ ~Busy("app")
                 \/ task["ui"].kind = "disable"
           /\ task["app"].at # "backup" /\ task["ui"].at # "quit"
           /\ task["app"].at \in {"build", "apply"} => task["app"].kind = "sync"
           /\ task["app"].at = "flag" => task["app"].kind \in {"sync", "retarget", "repair"}
           /\ task["app"].at = "restore" => task["app"].kind \in {"stop", "exit"}
           /\ task["app"].at = "quit" => task["app"].kind = "exit"
           /\ Busy("ui") /\ task["ui"].kind = "enable" => ~Busy("app")
           /\ Repairing => ~Busy("ui")
  <1>1. CallKnown("ui") /\ CallKnown("app") /\ LockKept BY DEF Base, SlotKept, Slots
  <1>2. task["ui"].at # "idle" => Busy("ui") BY DEF Busy
  <1>3. task["app"].at # "idle" => Busy("app") BY DEF Busy
  <1>4. Busy("ui") => /\ task["ui"].kind \in {"enable", "disable"}
                      /\ task["ui"].at \in StepsOf(task["ui"].kind)
    BY <1>1 DEF CallKnown, OwnKinds
  <1>5. Busy("app") => /\ task["app"].kind \in OwnKinds("app")
                       /\ task["app"].at \in StepsOf(task["app"].kind)
    BY <1>1 DEF CallKnown, OwnKinds
  <1>6. Busy("ui") /\ task["ui"].kind = "enable" => ~Busy("app")
    BY <1>1 DEF LockKept, Doing
  <1>7. Repairing => ~Busy("ui") BY <1>1 DEF LockKept, Repairing
  <1> QED BY <1>2, <1>3, <1>4, <1>5, <1>6, <1>7 DEF StepsOf, OwnKinds

\* The addresses and the placeholder are not the user's; his keys are there.
LEMMA OwnOrProxied ==
    ASSUME NEW p \in Places, user[p] \in Direct \cup {Absent}, Own(p)
    PROVE  ~Proxied(live[p])
  BY TargetsAssumption DEF Own, Proxied

\* A torn enable left the address in the first file.
LEMMA TornShows ==
    ASSUME TypeOK, Torn(manifest) PROVE ~Own(1) /\ ~Enabled /\ manifest # Absent
  <1>1. /\ manifest # Absent /\ ~manifest.enabled /\ manifest.origin # Absent
        /\ Applied(manifest.origin) BY DEF Torn
  <1>2. live[1] # Absent /\ live[1].managed = manifest.origin
    BY <1>1, PlacesKnown DEF Applied
  <1>3. manifest.origin \in Origins BY <1>1 DEF TypeOK, Manifest
  <1>4. user[1] \in Direct \cup {Absent} BY PlacesKnown DEF TypeOK
  <1> QED BY <1>1, <1>2, <1>3, <1>4, TargetsAssumption DEF Own, Enabled

\* Off, and neither under repair nor half way: every file is the user's.
LEMMA AllOwn ==
    ASSUME FilesKept, ~Enabled, ~Repairing, ~Halfway PROVE \A p \in Places : Own(p)
  BY DEF FilesKept

\* A call starts: nothing but its slot, the lock and the gateway changes.
LEMMA StartKept ==
    ASSUME IInv, NEW s \in Slots, NEW k \in OwnKinds(s) \ {"repair"}, NEW locked,
           Start(s, k, locked), s = "ui" => WindowOpen, k = "disable" => Enabled \/ \A p \in Places : Recoverable(p)
    PROVE  Kept'
  <1>1. TypeOK /\ LockKept /\ Base /\ Kept BY DEF IInv, Base
  <1>2. PICK t \in Task :
            /\ task' = [task EXCEPT ![s] = t]
            /\ t.at = "read" /\ t.kind = k /\ t.place = 1
    BY IdleTask DEF Start, OwnKinds, Kinds
  <1>3. /\ task'[s] = t /\ \A u \in Slots : u # s => task'[u] = task[u]
    BY <1>1, <1>2, OneTask
  <1>4. /\ ~Busy(s) /\ (lock = Absent \/ k = "disable")
        /\ UNCHANGED <<live, backup, manifest, user, removed, unrepaired, edits, faults, crashes>>
    BY DEF Start, history
  <1>5. s = "ui" => ~Repairing BY DEF WindowOpen, Repairing
  <1>6. s = "app" => ~Repairing /\ k \in {"sync", "retarget", "stop", "exit"}
    BY <1>4 DEF Repairing, Doing, OwnKinds
  <1>7. /\ Enabled' <=> Enabled
        /\ \A p \in Places : (Own(p)' <=> Own(p)) /\ (Recoverable(p)' <=> Recoverable(p))
        /\ (Torn(manifest))' <=> Torn(manifest)
        /\ ~Repairing'
    BY <1>2, <1>3, <1>4, <1>5, <1>6
       DEF Enabled, Own, Recoverable, Torn, Applied, Repairing, Doing, Busy, Slots
  <1>8. CASE s = "ui"
    <2>1. task'["ui"].at = "read" /\ task'["app"] = task["app"]
      BY <1>2, <1>3, <1>8 DEF Slots
    <2>2. ~Halfway BY <1>4, <1>8 DEF Halfway, Busy, At
    <2>3. CopiesKept'
      BY <1>1, <1>7, <2>1 DEF Kept, CopiesKept, Walks, Slots
    <2>4. FilesKept'
      BY <1>1, <1>4, <1>5, <1>7, <1>8, <2>2 DEF Kept, FilesKept
    <2>5. FirstEnable' /\ BackupKept'
      BY <2>1 DEF FirstEnable, BackupKept, Walks, At
    <2>6. SyncKept' BY <1>1, <1>7, <2>1 DEF Kept, SyncKept, Following, Doing, Busy
    <2>7. DisableKept'
      BY <1>1, <1>2, <1>3, <1>7, <1>8, <2>1 DEF Kept, CopiesKept, DisableKept, Doing, At
    <2>8. KeysKnown' BY <1>1, <1>4 DEF Kept, KeysKnown
    <2> QED BY <2>3, <2>4, <2>5, <2>6, <2>7, <2>8 DEF Kept
  <1>9. CASE s = "app"
    <2>1. task'["app"].at = "read" /\ task'["ui"] = task["ui"]
      BY <1>2, <1>3, <1>9 DEF Slots
    <2>2. ~(Busy("ui") /\ task["ui"].kind = "enable")
      BY <1>1, <1>4, <1>6, <1>9, AbsentApart DEF LockKept, Locking, Slots
    <2>3. task["ui"].at \notin {"backup", "build", "apply", "flag"}
      BY <1>1, <2>2, WhoWorks DEF Busy
    <2>4. CopiesKept'
      BY <1>1, <1>7, <2>1 DEF Kept, CopiesKept, Walks, Slots
    <2>5. FilesKept'
      BY <1>1, <1>4, <1>6, <1>7, <1>9, <2>1 DEF Kept, FilesKept, Halfway, At
    <2>6. FirstEnable' /\ BackupKept'
      BY <1>1, <2>1, <2>2, <2>3 DEF FirstEnable, BackupKept, Walks, At, Busy
    <2>7. SyncKept' BY <2>1 DEF SyncKept, Walks
    <2>8. DisableKept' BY <1>1, <1>7, <2>1 DEF Kept, DisableKept, Doing, Busy, At
    <2>9. KeysKnown' BY <1>1, <1>4 DEF Kept, KeysKnown
    <2> QED BY <2>4, <2>5, <2>6, <2>7, <2>8, <2>9 DEF Kept
  <1> QED BY <1>8, <1>9 DEF Slots

\* The process starts again, with what the repair needs to know a torn enable, or with
\* no torn enable.
LEMMA RebootKept == ASSUME IInv, Reboot, ~unrepaired' PROVE Kept'
  <1>1. TypeOK /\ Kept /\ Base BY DEF IInv, Base
  <1>2. /\ task'["ui"] = Idle /\ Started /\ (Repairing' \/ ~Torn(manifest))
        /\ UNCHANGED <<live, backup, manifest, user, removed, edits, faults>>
    BY <1>1, RebootKnown
  <1>3. Idle.at = "idle" /\ task'["app"].at \in {"idle", "read"}
    BY <1>2, IdleTask DEF Started
  <1>4. /\ Enabled' <=> Enabled
        /\ \A p \in Places : (Own(p)' <=> Own(p)) /\ (Recoverable(p)' <=> Recoverable(p))
        /\ (Torn(manifest))' <=> Torn(manifest)
    BY <1>2 DEF Enabled, Own, Recoverable, Torn, Applied
  <1>5. Torn(manifest) => Repairing \/ Halfway
    BY <1>1, TornShows, PlacesKnown DEF Kept, FilesKept
  <1>6. Torn(manifest) => \A p \in Places : Recoverable(p)
    BY <1>1, <1>5 DEF Kept, CopiesKept, Halfway, At, Walks, Slots
  <1>7. CopiesKept'
    BY <1>1, <1>2, <1>3, <1>4, <1>6 DEF Kept, CopiesKept, Walks, Slots
  <1>8. FilesKept' BY <1>1, <1>2, <1>4 DEF Kept, FilesKept
  <1>9. FirstEnable' /\ BackupKept' /\ SyncKept' /\ DisableKept'
    BY <1>2, <1>3
       DEF FirstEnable, BackupKept, SyncKept, Following, DisableKept, Walks, At, Doing, Busy
  <1>10. KeysKnown' BY <1>1, <1>2 DEF Kept, KeysKnown
  <1> QED BY <1>7, <1>8, <1>9, <1>10 DEF Kept

\* A call that ends leaves the walk over the files.
LEMMA Finished ==
    ASSUME Base, NEW s \in Slots, Finish(s), gateway' = gateway
    PROVE  /\ task'[s].at \notin Walks \cup {"backup"}
           /\ \A u \in Slots : u # s => task'[u] = task[u]
           /\ s = "ui" => task'["ui"].at = "idle"
           /\ s = "app" => ~Repairing' /\ ~Following'
  <1>1. /\ task'[s].at \in {"idle", "quit"} /\ CallKnown(s)'
        /\ \A u \in Slots : u # s => task'[u] = task[u]
    BY FinishStep DEF SlotKept
  <1>2. task'[s].at = "quit" => s = "app" /\ task'[s].kind = "exit"
    BY <1>1 DEF CallKnown, Busy, OwnKinds, StepsOf, Slots
  <1> QED BY <1>1, <1>2 DEF Walks, Repairing, Following, Doing, Busy

\* The end of a call that leaves manifest and files as they are.
LEMMA QuietEnd ==
    ASSUME IInv, NEW s \in Slots, Finish(s),
           UNCHANGED <<live, backup, manifest, gateway, user>>, faults' >= faults,
           faults \in Nat, faults' \in Nat,
           s = "ui" => Enabled \/ ~Halfway,
           Repairing /\ s = "app" => ~Torn(manifest)
    PROVE  Kept'
  <1>1. Base /\ Kept BY DEF IInv
  <1>2. /\ task'[s].at \notin Walks \cup {"backup"}
        /\ \A u \in Slots : u # s => task'[u] = task[u]
        /\ s = "ui" => task'["ui"].at = "idle"
        /\ s = "app" => ~Repairing' /\ ~Following'
    BY <1>1, Finished
  <1>3. /\ Enabled' <=> Enabled
        /\ \A p \in Places : (Own(p)' <=> Own(p)) /\ (Recoverable(p)' <=> Recoverable(p))
        /\ (Torn(manifest))' <=> Torn(manifest)
    BY DEF Enabled, Own, Recoverable, Torn, Applied
  <1>4. CASE s = "ui"
    <2>1. task'["ui"].at = "idle" /\ task'["app"] = task["app"]
      BY <1>2, <1>4 DEF Slots
    <2>2. Repairing' <=> Repairing BY <2>1 DEF Repairing, Doing, Busy
    <2>3. CopiesKept' BY <1>1, <1>3, <2>1, <2>2 DEF Kept, CopiesKept, Walks, Slots
    <2>4. FilesKept' BY <1>1, <1>3, <1>4, <2>2 DEF Kept, FilesKept
    <2>5. FirstEnable' /\ BackupKept' /\ DisableKept'
      BY <2>1 DEF FirstEnable, BackupKept, DisableKept, Walks, At, Doing, Busy
    <2>6. SyncKept' BY <1>1, <1>3, <2>1 DEF Kept, SyncKept, Following, Doing, Busy
    <2>7. KeysKnown' BY <1>1 DEF Kept, KeysKnown
    <2> QED BY <2>3, <2>4, <2>5, <2>6, <2>7 DEF Kept
  <1>5. CASE s = "app"
    <2>1. task'["app"].at \notin Walks /\ task'["ui"] = task["ui"] /\ ~Repairing'
      BY <1>2, <1>5 DEF Slots
    <2>2. CopiesKept' BY <1>1, <1>3, <2>1 DEF Kept, CopiesKept, Slots
    <2>3. FilesKept' BY <1>1, <1>3, <1>5, <2>1 DEF Kept, FilesKept, Halfway, At
    <2>4. FirstEnable'
      BY <1>1, <1>3, <2>1 DEF Kept, FirstEnable, At
    <2>5. BackupKept' BY <1>1, <1>3, <2>1 DEF Kept, BackupKept, At
    <2>6. DisableKept' BY <1>1, <1>3, <2>1 DEF Kept, DisableKept, Doing, Busy, At
    <2>7. SyncKept' BY <2>1 DEF SyncKept
    <2>8. KeysKnown' BY <1>1 DEF Kept, KeysKnown
    <2> QED BY <2>2, <2>3, <2>4, <2>5, <2>6, <2>7, <2>8 DEF Kept
  <1> QED BY <1>4, <1>5 DEF Slots

LEMMA ReadKept == ASSUME IInv, NEW s \in Slots, Read(s) PROVE Kept'
  <1> DEFINE next == FirstStep(task[s].kind, manifest)
  <1>1. TypeOK /\ Base /\ Kept /\ CallKnown(s) BY DEF IInv, Base, SlotKept
  <1>2. /\ At(s, "read") /\ Busy(s) /\ task[s] \in Task /\ task[s].kind \in OwnKinds(s)
        /\ UNCHANGED <<live, backup, manifest, gateway, user, removed, unrepaired, edits, faults, crashes>>
    BY <1>1 DEF Read, history, At, Busy, CallKnown, TypeOK
  <1>3. CASE next = "idle"
    <2>1. Finish(s) BY <1>3 DEF Read
    <2>2. s = "ui" => ~Halfway BY <1>2 DEF Halfway, At
    <2>3. Repairing /\ s = "app" => ~Torn(manifest)
      BY <1>2, <1>3 DEF FirstStep, Repairing, Doing
    <2>4. faults \in Nat /\ faults' = faults BY <1>1, <1>2 DEF TypeOK
    <2> QED BY <1>2, <2>1, <2>2, <2>3, <2>4, QuietEnd
  <1>4. CASE next # "idle"
    <2>1. PICK b \in BOOLEAN : b = (next = "backup") OBVIOUS
    <2>2. PICK t : t = [task[s] EXCEPT !.at = next, !.m = manifest, !.fresh = b]
      OBVIOUS
    <2>3. task' = [task EXCEPT ![s] = t]
      <3>1. task' = [task EXCEPT ![s].at = next, ![s].m = manifest, ![s].fresh = b]
        BY <1>4, <2>1 DEF Read
      <3> HIDE DEF next
      <3> QED BY <1>1, <2>2, <3>1 DEF TypeOK
    <2>4. /\ task[s].kind = "enable" => next = IF ~Enabled THEN "backup" ELSE "build"
          /\ task[s].kind = "disable" => next = "restore"
          /\ task[s].kind = "sync" => next = "build" /\ Enabled
          /\ task[s].kind = "retarget" => next = "flag" /\ Enabled
          /\ task[s].kind \in {"stop", "exit"} => next = "restore" /\ Enabled
          /\ task[s].kind = "repair" => next = "flag" /\ Torn(manifest)
      BY <1>4 DEF FirstStep, TakesBackup, On, Enabled
    <2>5. next \in Walks \cup {"backup"}
      BY <1>2, <1>4, <2>4 DEF OwnKinds, Walks
    <2> HIDE DEF next
    <2>6. t.at = next /\ t.kind = task[s].kind /\ t.fresh = b /\ t.place = 1
      BY <1>1, <1>2, <2>2 DEF Task, CallKnown
    <2>7. task'[s] = t /\ \A u \in Slots : u # s => task'[u] = task[u]
      BY <1>1, <2>3 DEF TypeOK
    <2>8. /\ Enabled' <=> Enabled
          /\ \A p \in Places : (Own(p)' <=> Own(p)) /\ (Recoverable(p)' <=> Recoverable(p))
          /\ (Torn(manifest))' <=> Torn(manifest)
      BY <1>2 DEF Enabled, Own, Recoverable, Torn, Applied
    <2>9. KeysKnown' BY <1>1, <1>2 DEF Kept, KeysKnown
    <2>10. CASE s = "ui"
      <3>1. task'["ui"] = t /\ task'["app"] = task["app"] /\ task[s].kind \in {"enable", "disable"}
        BY <1>2, <2>7, <2>10 DEF Slots, OwnKinds
      <3>2. ~Halfway /\ (Repairing' <=> Repairing) /\ ~Repairing
        BY <1>1, <1>2, <2>10, <3>1, WhoWorks DEF Halfway, At, Repairing, Doing, Busy
      <3>3. task[s].kind = "disable" => \A p \in Places : Recoverable(p)
        BY <1>1, <1>2, <2>10 DEF Kept, DisableKept, Doing
      <3>4. CopiesKept'
        BY <1>1, <2>4, <2>6, <2>8, <3>1, <3>2, <3>3 DEF Kept, CopiesKept, Walks, Slots
      <3>5. FilesKept' BY <1>1, <2>8, <1>2, <3>2 DEF Kept, FilesKept
      <3>6. FirstEnable'
        BY <2>1, <2>4, <2>6, <2>8, <3>1 DEF FirstEnable, Walks, At
      <3>7. BackupKept'
        BY <2>4, <2>6, <2>8, <3>1, <3>3 DEF BackupKept, At
      <3>8. SyncKept' BY <1>1, <2>8, <3>1 DEF Kept, SyncKept, Following, Doing, Busy
      <3>9. DisableKept'
        BY <2>6, <2>8, <3>1, <3>3 DEF DisableKept, Doing, At, Places
      <3> QED BY <2>9, <3>4, <3>5, <3>6, <3>7, <3>8, <3>9 DEF Kept
    <2>11. CASE s = "app"
      <3>1. task'["app"] = t /\ task'["ui"] = task["ui"] /\ task[s].kind \in OwnKinds("app")
        BY <1>2, <2>7, <2>11 DEF Slots
      <3>2. Repairing' <=> Repairing
        BY <1>2, <2>5, <2>6, <2>11, <3>1 DEF Repairing, Doing, Busy, At, Walks
      <3>3. task[s].kind = "repair" => Repairing
        BY <1>2, <2>11 DEF Repairing, Doing
      <3>4. CopiesKept'
        BY <1>1, <2>4, <2>8, <3>1, <3>2, <3>3 DEF Kept, CopiesKept, OwnKinds, Slots
      <3>5. FilesKept' BY <1>1, <1>2, <2>8, <3>1, <3>2 DEF Kept, FilesKept, Halfway, At
      <3>6. FirstEnable' BY <1>1, <1>2, <2>8, <3>1 DEF Kept, FirstEnable, At
      <3>7. BackupKept' BY <1>1, <1>2, <2>8, <3>1 DEF Kept, BackupKept, At
      <3>8. SyncKept' BY <2>4, <2>6, <2>8, <3>1, <2>11 DEF SyncKept, Following, Doing
      <3>9. DisableKept' BY <1>1, <2>8, <3>1 DEF Kept, DisableKept, Doing, Busy, At
      <3> QED BY <2>9, <3>4, <3>5, <3>6, <3>7, <3>8, <3>9 DEF Kept
    <2> QED BY <2>10, <2>11 DEF Slots
  <1> QED BY <1>3, <1>4

LEMMA BackUpKept == ASSUME IInv, NEW s \in Slots, BackUp(s) PROVE Kept'
  <1> DEFINE p == task[s].place
  <1>1. TypeOK /\ Base /\ Kept /\ CallKnown(s) BY DEF IInv, Base, SlotKept
  <1>2. /\ p \in Places /\ At(s, "backup") /\ Busy(s) /\ task[s] \in Task
        /\ Marked(s).enabled = Copying(s).enabled
        /\ Marked(s).origin = Copying(s).origin
        /\ Marked(s).entries[p] = IF live[p] = Absent THEN "absent" ELSE "existed"
        /\ \A q \in Places : q # p => Marked(s).entries[q] = Copying(s).entries[q]
        /\ p > 1 => Copying(s) = task[s].m
        /\ backup' = IF live[p] = Absent THEN backup ELSE [backup EXCEPT ![p] = live[p]]
        /\ task' = [task EXCEPT ![s] = [task[s] EXCEPT !.m = Marked(s), !.place = p + 1]]
        /\ UNCHANGED <<live, manifest, gateway, lock, user, removed, unrepaired, edits, faults, crashes>>
    BY <1>1, BackUpKnown DEF TypeOK
  <1>3. PICK t : t = [task[s] EXCEPT !.m = Marked(s), !.place = p + 1] OBVIOUS
  <1>p. p = 1 => Copying(s).enabled = FALSE /\ Copying(s).origin = gateway
    BY DEF Copying
  <1>4. s = "ui" /\ task["ui"].kind = "enable" /\ ~Busy("app")
    BY <1>1, <1>2, WhoWorks DEF At, Slots
  <1>5. ~Enabled /\ ~Repairing /\ ~Halfway
    BY <1>1, <1>2, <1>4 DEF Kept, BackupKept, Repairing, Doing, Halfway, At
  <1>6. \A q \in Places : Own(q) BY <1>1, <1>5, AllOwn DEF Kept
  <1> HIDE DEF p
  <1>7. t.at = "backup" /\ t.kind = "enable" /\ t.m = Marked(s) /\ t.place = p + 1
    BY <1>2, <1>3, <1>4 DEF Task, At
  <1>8. task'["ui"] = t /\ task'["app"] = task["app"]
    BY <1>1, <1>2, <1>3, <1>4 DEF TypeOK, Slots
  <1>9. /\ ~Enabled' /\ ~Repairing' /\ \A q \in Places : Own(q)'
    BY <1>2, <1>4, <1>5, <1>6, <1>8 DEF Enabled, Own, Repairing, Doing, Busy
  <1>10. CopiesKept'
    BY <1>4, <1>7, <1>8, <1>9 DEF CopiesKept, Walks, Busy, Slots
  <1>11. FilesKept' BY <1>9 DEF FilesKept
  <1>12. FirstEnable' /\ SyncKept' /\ DisableKept'
    BY <1>4, <1>7, <1>8 DEF FirstEnable, SyncKept, Following, DisableKept, Walks, Doing, Busy
  <1>13. ~Marked(s).enabled /\ Marked(s).origin = gateway
    <2>1. p = 1 \/ p > 1 BY <1>2 DEF Places
    <2> QED BY <1>1, <1>2, <1>4, <1>p, <2>1 DEF Kept, BackupKept, At, p
  <1>14. ASSUME NEW q \in Places, q < p + 1
         PROVE  \/ Marked(s).entries[q] = "existed" /\ backup'[q].managed = user[q]
                \/ Marked(s).entries[q] = "absent" /\ user[q] = Absent
    <2>1. CASE q = p
      BY <1>1, <1>2, <1>6, <2>1 DEF Own, TypeOK
    <2>2. CASE q # p
      <3>1. q < p /\ p > 1 /\ backup'[q] = backup[q]
        BY <1>1, <1>2, <1>14, <2>2 DEF TypeOK, Places
      <3> QED BY <1>1, <1>2, <1>4, <2>2, <3>1 DEF Kept, BackupKept, At, p
    <2> QED BY <2>1, <2>2
  <1>15. BackupKept' BY <1>2, <1>7, <1>8, <1>9, <1>13, <1>14 DEF BackupKept
  <1>16. KeysKnown' BY <1>1, <1>2 DEF Kept, KeysKnown
  <1> QED BY <1>10, <1>11, <1>12, <1>15, <1>16 DEF Kept

LEMMA RecordKept == ASSUME IInv, NEW s \in Slots, Record(s) PROVE Kept'
  <1>1. TypeOK /\ Base /\ Kept /\ CallKnown(s) BY DEF IInv, Base, SlotKept
  <1>2. /\ At(s, "backup") /\ task[s] \in Task
        /\ \A p \in Places : p < task[s].place
        /\ task[s].place > 1
        /\ manifest' = task[s].m /\ Goto(s, "build")
        /\ UNCHANGED <<live, backup, gateway, lock, user, removed, unrepaired, edits, faults, crashes>>
    BY <1>1, PlacesKnown DEF Record, history, TypeOK, More, Task, Places
  <1>3. s = "ui" /\ task["ui"].kind = "enable" /\ ~Busy("app") /\ task["ui"].fresh
    BY <1>1, <1>2, WhoWorks DEF At, Slots, CallKnown, Busy
  <1>4. ~Enabled /\ ~Repairing /\ ~Halfway
    BY <1>1, <1>2, <1>3 DEF Kept, BackupKept, Repairing, Doing, Halfway, At
  <1>5. \A q \in Places : Own(q) BY <1>1, <1>4, AllOwn DEF Kept
  <1>6. PICK t : t = [task[s] EXCEPT !.at = "build", !.place = 1] OBVIOUS
  <1>7. task' = [task EXCEPT ![s] = t] BY <1>1, <1>2, <1>6 DEF Goto, TypeOK
  <1>8. t.at = "build" /\ t.kind = "enable" /\ t.fresh
    BY <1>2, <1>3, <1>6 DEF Task
  <1>9. task'["ui"] = t /\ task'["app"] = task["app"]
    BY <1>1, <1>3, <1>7 DEF TypeOK, Slots
  <1>10. /\ task["ui"].m.origin = gateway /\ ~task["ui"].m.enabled
         /\ task["ui"].m # Absent
         /\ \A p \in Places :
               \/ task["ui"].m.entries[p] = "existed" /\ backup[p].managed = user[p]
               \/ task["ui"].m.entries[p] = "absent" /\ user[p] = Absent
    <2>1. BackingUp(s) BY <1>1 DEF Base, SlotKept
    <2> QED BY <1>1, <1>2, <1>3, <2>1 DEF Kept, BackupKept, BackingUp
  <1>11. /\ ~Enabled' /\ manifest' # Absent /\ manifest'.origin = gateway
         /\ \A q \in Places : Own(q)' /\ Recoverable(q)'
    BY <1>2, <1>3, <1>5, <1>10 DEF Enabled, Own, Recoverable
  <1>12. CopiesKept' /\ FilesKept' BY <1>11 DEF CopiesKept, FilesKept
  <1>13. FirstEnable' BY <1>2, <1>8, <1>9, <1>11 DEF FirstEnable, At
  <1>14. BackupKept' /\ SyncKept' /\ DisableKept'
    BY <1>3, <1>8, <1>9 DEF BackupKept, SyncKept, Following, DisableKept, Doing, Busy, At
  <1>15. KeysKnown' BY <1>1, <1>2 DEF Kept, KeysKnown
  <1> QED BY <1>12, <1>13, <1>14, <1>15 DEF Kept

LEMMA BuildStepKept == ASSUME IInv, NEW s \in Slots, Build(s) PROVE Kept'
  <1> DEFINE built == [p \in Places |-> Patched(p)]
  <1>1. TypeOK /\ Base /\ Kept /\ CallKnown(s) BY DEF IInv, Base, SlotKept
  <1>2. /\ At(s, "build") /\ task[s] \in Task
        /\ task' = [task EXCEPT ![s].at = "apply", ![s].place = 1, ![s].built = built]
        /\ UNCHANGED <<live, backup, manifest, gateway, lock, user, removed, unrepaired, edits, faults, crashes>>
    BY <1>1 DEF Build, history, TypeOK
  <1> HIDE DEF built
  <1>3. PICK t : t = [task[s] EXCEPT !.at = "apply", !.place = 1, !.built = built] OBVIOUS
  <1>4. task' = [task EXCEPT ![s] = t] BY <1>1, <1>2, <1>3 DEF TypeOK
  <1>5. t.at = "apply" /\ t.kind = task[s].kind /\ t.fresh = task[s].fresh /\ t.place = 1
    BY <1>2, <1>3 DEF Task
  <1>6. task'[s] = t /\ \A u \in Slots : u # s => task'[u] = task[u]
    BY <1>1, <1>4 DEF TypeOK
  <1>7. /\ Enabled' <=> Enabled
        /\ \A p \in Places : (Own(p)' <=> Own(p)) /\ (Recoverable(p)' <=> Recoverable(p))
        /\ (Torn(manifest))' <=> Torn(manifest)
    BY <1>2 DEF Enabled, Own, Recoverable, Torn, Applied
  <1>8. \A p \in Places : Recoverable(p)
    BY <1>1, <1>2 DEF Kept, CopiesKept, At, Walks
  <1>9. CopiesKept' BY <1>7, <1>8 DEF CopiesKept
  <1>10. KeysKnown' BY <1>1, <1>2 DEF Kept, KeysKnown
  <1>11. CASE s = "ui"
    <2>1. /\ task["ui"].kind = "enable" /\ ~Busy("app") /\ ~Repairing /\ ~Halfway
          /\ task'["ui"] = t /\ task'["app"] = task["app"]
      BY <1>1, <1>2, <1>6, <1>11, WhoWorks DEF At, Slots, Repairing, Doing, Halfway
    <2>2. task["ui"].fresh <=> ~Enabled
      BY <1>1, <1>2, <1>11, <2>1 DEF Kept, FirstEnable, Walks, At
    <2>3. ~Enabled => manifest.origin = gateway /\ \A p \in Places : Own(p)
      BY <1>1, <1>2, <1>11, <2>1, AllOwn DEF Kept, FirstEnable, Walks, At
    <2>4. FilesKept' BY <1>1, <1>2, <1>7, <2>1 DEF Kept, FilesKept
    <2>5. FirstEnable'
      BY <1>2, <1>5, <1>7, <1>11, <2>1, <2>2, <2>3 DEF FirstEnable, At
    <2>6. BackupKept' /\ SyncKept' /\ DisableKept'
      BY <1>5, <1>11, <2>1 DEF BackupKept, SyncKept, Following, DisableKept, At, Doing, Busy
    <2> QED BY <1>9, <1>10, <2>4, <2>5, <2>6 DEF Kept
  <1>12. CASE s = "app"
    <2>1. /\ task["app"].kind = "sync" /\ task'["app"] = t /\ task'["ui"] = task["ui"]
      BY <1>1, <1>2, <1>6, <1>12, WhoWorks DEF At, Slots
    <2>2. Enabled BY <1>1, <1>2, <1>12, <2>1 DEF Kept, SyncKept, Following, Doing, Busy, At, Walks
    <2>3. FilesKept' BY <1>1, <1>2, <1>7, <2>2 DEF Kept, FilesKept
    <2>4. FirstEnable' /\ BackupKept'
      BY <1>1, <1>2, <1>7, <2>1 DEF Kept, FirstEnable, BackupKept, At
    <2>5. SyncKept' BY <1>7, <2>2 DEF SyncKept
    <2>6. DisableKept' BY <1>1, <1>7, <2>1 DEF Kept, DisableKept, Doing, Busy, At
    <2> QED BY <1>9, <1>10, <2>3, <2>4, <2>5, <2>6 DEF Kept
  <1> QED BY <1>11, <1>12 DEF Slots

\* Writing the files: the first one, or the manifest, shows that they are proxied.
LEMMA ApplyKept == ASSUME IInv, Repairable, NEW s \in Slots, Apply(s) PROVE Kept'
  <1>1. TypeOK /\ Base /\ Kept /\ BuiltKept(s) BY DEF IInv, Base, SlotKept
  <1>p. PICK p \in Places : p = task[s].place BY <1>1, ApplyKnown
  <1>2. /\ At(s, "apply") /\ Busy(s) /\ p = task[s].place
        /\ task[s].kind \in {"enable", "sync"} /\ gateway \in Origins
        /\ live' = [live EXCEPT ![p] = task[s].built[p]]
        /\ UNCHANGED <<backup, manifest, gateway, lock, user, removed, unrepaired, edits, faults, crashes>>
    BY <1>1, <1>p, ApplyKnown
  <1>3. PICK t \in Task :
            /\ task' = [task EXCEPT ![s] = t]
            /\ t.kind = task[s].kind /\ t.m = task[s].m /\ t.fresh = task[s].fresh
            /\ \/ t.at = "flag" /\ t.place = 1 /\ p = Len(Files)
               \/ t.at = "apply" /\ t.place = p + 1 /\ p < Len(Files)
    BY <1>1, <1>p, ApplyKnown
  <1>4. task'[s] = t /\ \A u \in Slots : u # s => task'[u] = task[u]
    BY <1>1, <1>3, OneTask
  <1>5. p >= task[s].place BY <1>p DEF Places
  <1>6. /\ live'[p] # Absent /\ live'[p].managed = ProxyValue(p)
        /\ \A q \in Places : q # p => live'[q] = live[q]
    BY <1>1, <1>2, <1>5 DEF TypeOK, BuiltKept
  <1>7. (Proxied(live[p]))' BY <1>2, <1>6 DEF Proxied, ProxyValue
  <1>8. /\ Enabled' <=> Enabled
        /\ \A q \in Places : Recoverable(q)' <=> Recoverable(q)
        /\ \A q \in Places : q # p => Own(q)' <=> Own(q)
        /\ \A q \in Places : q # p => (Proxied(live[q]))' <=> Proxied(live[q])
    BY <1>2, <1>6 DEF Enabled, Own, Recoverable, Proxied
  <1>9. \A q \in Places : Recoverable(q)
    BY <1>1, <1>2 DEF Kept, CopiesKept, At, Walks
  <1>10. CopiesKept' BY <1>8, <1>9 DEF CopiesKept
  <1>11. KeysKnown' BY <1>1, <1>2 DEF Kept, KeysKnown
  <1>12. Enabled => FilesKept' BY <1>1, <1>7, <1>8 DEF Kept, FilesKept
  <1>13. CASE s = "ui"
    <2>1. /\ task["ui"].kind = "enable" /\ ~Busy("app") /\ ~Repairing
          /\ task'["ui"] = t /\ task'["app"] = task["app"]
      BY <1>1, <1>2, <1>4, <1>13, WhoWorks DEF At, Slots, Repairing, Doing
    <2>2. /\ task["ui"].fresh <=> ~Enabled
          /\ ~Enabled => /\ manifest.origin = gateway
                         /\ \A q \in Places : q >= p => Own(q)
                         /\ p > 1 => Torn(manifest)
      BY <1>1, <1>2, <1>13, <2>1 DEF Kept, FirstEnable, Walks, At
    <2>3. ~Enabled => (Torn(manifest))'
      <3>1. SUFFICES ASSUME ~Enabled PROVE (Torn(manifest))' OBVIOUS
      <3>2. manifest # Absent /\ ~manifest.enabled /\ manifest.origin = gateway
        BY <1>9, <2>2, <3>1, PlacesKnown DEF Recoverable, Enabled
      <3>3. ASSUME NEW q \in Places
            PROVE  /\ live'[q] # Absent
                   /\ live'[q].managed \in IF q = 1 THEN {gateway} ELSE Keys \cup {Placeholder}
        <4>1. CASE q = p BY <1>6, <4>1 DEF ProxyValue
        <4>2. CASE q # p /\ p > 1
          <5>1. Applied(gateway) BY <2>2, <3>1, <3>2, <4>2 DEF Torn
          <5> QED BY <1>6, <4>2, <5>1 DEF Applied
        <4>3. CASE q # p /\ p = 1
          <5>1. q >= p /\ q # 1 BY <1>p, <4>3 DEF Places
          <5>2. Own(q) /\ user[q] \in Keys
            BY <1>1, <2>2, <3>1, <5>1 DEF Kept, KeysKnown
          <5>3. user[q] # Absent BY <5>2, TargetsAssumption
          <5> QED BY <1>6, <4>3, <5>1, <5>2, <5>3 DEF Own
        <4> QED BY <1>p, <4>1, <4>2, <4>3 DEF Places
      <3>4. gateway # Absent BY <1>2, AbsentApart
      <3> QED BY <1>2, <3>2, <3>3, <3>4 DEF Torn, Applied
    <2>4. Halfway' BY <1>3, <2>1 DEF Halfway, At
    <2>5. ~Enabled => FilesKept'
      <3> SUFFICES ASSUME ~Enabled, NEW q \in Places
                   PROVE  Own(q)' \/ (Proxied(live[q]))'
        BY <2>3, <2>4 DEF FilesKept
      <3> QED BY <1>1, <1>7, <1>8 DEF Kept, FilesKept
    <2>6. FirstEnable'
      <3>1. t.kind = "enable" /\ (t.fresh <=> ~Enabled) BY <1>3, <1>13, <2>1, <2>2
      <3>2. ASSUME ~Enabled, t.at = "apply"
            PROVE  \A q \in Places : q >= t.place => Own(q)'
        <4>1. t.place = p + 1 BY <1>3, <3>2
        <4>2. \A q \in Places : q >= p + 1 => q >= p /\ q # p BY <1>p DEF Places
        <4> QED BY <1>8, <2>2, <3>2, <4>1, <4>2
      <3> QED BY <1>2, <1>3, <1>8, <2>1, <2>2, <2>3, <3>1, <3>2 DEF FirstEnable, At
    <2>7. BackupKept' /\ SyncKept' /\ DisableKept'
      BY <1>3, <1>13, <2>1 DEF BackupKept, SyncKept, Following, DisableKept, At, Doing, Busy
    <2> QED BY <1>10, <1>11, <1>12, <2>5, <2>6, <2>7 DEF Kept
  <1>14. CASE s = "app"
    <2>1. /\ task["app"].kind = "sync" /\ task'["app"] = t /\ task'["ui"] = task["ui"]
          /\ Doing("app", "sync")
      BY <1>1, <1>2, <1>4, <1>14, WhoWorks DEF At, Slots, Doing
    <2>2. Enabled BY <1>1, <1>2, <1>14, <2>1 DEF Kept, SyncKept, Following, At, Walks
    <2>3. ~Busy("ui")
      <3>1. ~Doing("ui", "disable")
        BY <1>1, <2>1 DEF Base, LockKept, Following, Repairable
      <3> QED BY <1>1, <2>1, <3>1, WhoWorks DEF Doing
    <2>4. FirstEnable' /\ BackupKept' /\ DisableKept'
      BY <2>1, <2>3 DEF FirstEnable, BackupKept, DisableKept, At, Doing, Busy, Walks
    <2>5. SyncKept' BY <1>8, <2>2 DEF SyncKept
    <2> QED BY <1>10, <1>11, <1>12, <2>2, <2>4, <2>5 DEF Kept
  <1> QED BY <1>13, <1>14 DEF Slots

LEMMA FlagKept == ASSUME IInv, Repairable, NEW s \in Slots, Flag(s) PROVE Kept'
  <1>1. TypeOK /\ Base /\ Kept /\ EntriesAgree(s) /\ task[s] \in Task
    BY DEF IInv, Base, SlotKept, TypeOK
  <1>2. /\ At(s, "flag") /\ Finish(s)
        /\ UNCHANGED <<live, backup, gateway, user, removed, unrepaired, edits, faults, crashes>>
    BY DEF Flag, history
  <1>w. PICK w \in Origins \cup {Absent} : manifest' = Flagged(s, w)
    BY <1>1 DEF Flag, TypeOK
  <1>3. task[s].m \in Manifest /\ task[s].m.entries = manifest.entries /\ manifest # Absent
    BY <1>1, <1>2 DEF EntriesAgree, At, Walks, Task
  <1>4. PICK o : o = IF task[s].kind = "repair" THEN task[s].m.origin ELSE w OBVIOUS
  <1>5. o \in Origins \cup {Absent}
    BY <1>1, <1>3, <1>4 DEF TypeOK, Manifest
  <1>6. manifest' = [task[s].m EXCEPT !.enabled = TRUE, !.origin = o]
    BY <1>3, <1>w, <1>4 DEF Flagged, Manifest
  <1>7. /\ manifest' \in Manifest /\ manifest'.entries = manifest.entries
        /\ manifest'.enabled
    BY <1>3, <1>5, <1>6 DEF Manifest
  <1>8. Enabled' /\ manifest' # Absent BY <1>7, AbsentApart DEF Enabled
  <1>9. \A q \in Places : Recoverable(q)
    BY <1>1, <1>2 DEF Kept, CopiesKept, At, Walks
  <1>10. /\ \A q \in Places : Recoverable(q)'
         /\ \A q \in Places : Own(q)' <=> Own(q)
         /\ \A q \in Places : (Proxied(live[q]))' <=> Proxied(live[q])
    BY <1>2, <1>7, <1>8, <1>9 DEF Recoverable, Own, Proxied
  <1>11. CopiesKept' BY <1>10 DEF CopiesKept
  <1>12. FilesKept' BY <1>1, <1>8, <1>10 DEF Kept, FilesKept
  <1>13. SyncKept' BY <1>8 DEF SyncKept
  <1>14. KeysKnown' BY <1>1, <1>2 DEF Kept, KeysKnown
  <1>15. task'["ui"].at = "idle"
    <2>1. CASE s = "ui" BY <1>1, <1>2, <2>1, Finished
    <2>2. CASE s = "app"
      <3>1. task'["ui"] = task["ui"] BY <1>1, <1>2, <2>2, Finished DEF Slots
      <3>2. Following \/ Repairing
        BY <1>1, <1>2, <2>2, WhoWorks DEF At, Following, Doing, Busy, Repairing
      <3>3. ~Doing("ui", "disable")
        BY <1>1, <3>2, WhoWorks DEF Base, LockKept, Repairable, Repairing, Doing
      <3>4. ~Busy("ui") BY <1>1, <3>2, <3>3, WhoWorks DEF Following, Doing, Repairing
      <3> QED BY <3>1, <3>4 DEF Busy
    <2> QED BY <2>1, <2>2 DEF Slots
  <1>16. FirstEnable' /\ BackupKept' /\ DisableKept'
    BY <1>15 DEF FirstEnable, BackupKept, DisableKept, At, Doing, Busy, Walks
  <1> QED BY <1>11, <1>12, <1>13, <1>14, <1>16 DEF Kept

\* Each file that is restored is the user's again.
LEMMA RestoreKept == ASSUME IInv, NEW s \in Slots, Restore(s) PROVE Kept'
  <1>1. TypeOK /\ Base /\ Kept BY DEF IInv, Base
  <1>p. PICK p \in Places : p = task[s].place BY <1>1, RestoreKnown
  <1>2. /\ At(s, "restore") /\ Busy(s) /\ manifest # Absent
        /\ \A q \in Places : q # p => live'[q] = live[q]
        /\ IF manifest.entries[p] = "existed"
           THEN live'[p] # Absent /\ live'[p].managed = backup[p].managed
           ELSE live'[p] = Absent
        /\ UNCHANGED <<backup, manifest, gateway, lock, user, unrepaired, edits, faults, crashes>>
    BY <1>1, <1>p, RestoreKnown
  <1>3. PICK t \in Task :
            /\ task' = [task EXCEPT ![s] = t] /\ t.at = "restore"
            /\ t.kind = task[s].kind /\ t.m = task[s].m /\ t.fresh = task[s].fresh
            /\ t.place = p + 1
    BY <1>1, <1>p, RestoreKnown
  <1>4. task'[s] = t /\ \A u \in Slots : u # s => task'[u] = task[u]
    BY <1>1, <1>3, OneTask
  <1>5. \A q \in Places : Recoverable(q)
    BY <1>1, <1>2 DEF Kept, CopiesKept, At, Walks
  <1>6. Own(p)' BY <1>2, <1>5 DEF Own, Recoverable
  <1>7. /\ Enabled' <=> Enabled
        /\ \A q \in Places : Recoverable(q)'
        /\ \A q \in Places : Own(q) => Own(q)'
        /\ \A q \in Places : q # p => ((Proxied(live[q]))' <=> Proxied(live[q]))
    BY <1>2, <1>5, <1>6 DEF Enabled, Own, Recoverable, Proxied
  <1>8. CopiesKept' BY <1>7 DEF CopiesKept
  <1>9. KeysKnown' BY <1>1, <1>2 DEF Kept, KeysKnown
  <1>10. ~Repairing
    BY <1>1, <1>2, WhoWorks DEF Repairing, Doing, Busy, At, Slots
  <1>11. Enabled \/ \A q \in Places : q # p => Own(q)
    <2>1. CASE Halfway
      <3>1. s = "ui"
        BY <1>1, <1>2, <2>1, WhoWorks DEF Halfway, At, Busy, Slots
      <3>2. task["ui"].place = 1 /\ p = 1
        BY <1>2, <1>p, <2>1, <3>1 DEF Halfway, At
      <3> QED BY <1>1, <1>2, <2>1, <3>1, <3>2 DEF Kept, FirstEnable, Halfway, At, Walks
    <2>2. CASE ~Halfway BY <1>1, <1>10, <2>2, AllOwn DEF Kept
    <2> QED BY <2>1, <2>2
  <1>12. FilesKept'
    <2>1. ASSUME Enabled, NEW q \in Places PROVE Own(q)' \/ ((Proxied(live[q]))' /\ Enabled')
      BY <1>1, <1>6, <1>7, <1>10, <2>1 DEF Kept, FilesKept
    <2>2. ASSUME ~Enabled, NEW q \in Places PROVE Own(q)'
      BY <1>6, <1>7, <1>11, <2>2
    <2> QED BY <2>1, <2>2 DEF FilesKept
  <1>13. CASE s = "ui"
    <2>1. task'["ui"] = t /\ task'["app"] = task["app"] BY <1>4, <1>13 DEF Slots
    <2>2. FirstEnable'
      BY <1>1, <1>2, <1>3, <1>7, <1>13, <2>1 DEF Kept, FirstEnable, Walks, At
    <2>3. BackupKept' BY <1>3, <2>1 DEF BackupKept, At
    <2>4. SyncKept' BY <1>1, <1>7, <2>1 DEF Kept, SyncKept, Following, Doing, Busy
    <2>5. DisableKept'
      <3>1. ASSUME t.kind = "disable" PROVE \A q \in Places : q < p + 1 => Own(q)'
        <4>1. Doing("ui", "disable") BY <1>2, <1>3, <1>13, <3>1 DEF Doing
        <4>2. \A q \in Places : q < p + 1 => q < p \/ q = p BY <1>p DEF Places
        <4> QED BY <1>1, <1>2, <1>p, <1>6, <1>7, <1>13, <4>1, <4>2 DEF Kept, DisableKept
      <3> QED BY <1>3, <1>7, <2>1, <3>1 DEF DisableKept, Doing
    <2> QED BY <1>8, <1>9, <1>12, <2>2, <2>3, <2>4, <2>5 DEF Kept
  <1>14. CASE s = "app"
    <2>1. /\ task'["app"] = t /\ task'["ui"] = task["ui"]
          /\ task["app"].kind \in {"stop", "exit"}
      BY <1>1, <1>2, <1>4, <1>14, WhoWorks DEF Slots, At
    <2>2. ~(Busy("ui") /\ task["ui"].kind = "enable")
      BY <1>1, <1>2, <1>14, WhoWorks
    <2>3. FirstEnable' /\ BackupKept'
      BY <1>1, <2>1, <2>2, WhoWorks DEF FirstEnable, BackupKept, Walks, At, Busy
    <2>4. SyncKept' BY <1>3, <2>1, <1>14 DEF SyncKept, Following, Doing
    <2>5. DisableKept' BY <1>1, <1>7, <2>1 DEF Kept, DisableKept, Doing, Busy, At
    <2> QED BY <1>8, <1>9, <1>12, <2>3, <2>4, <2>5 DEF Kept
  <1> QED BY <1>13, <1>14 DEF Slots

\* When the last file is restored, every file is the user's.
LEMMA RestoredKept == ASSUME IInv, Repairable, NEW s \in Slots, Restored(s) PROVE Kept'
  <1>1. TypeOK /\ Base /\ Kept /\ EntriesAgree(s) /\ task[s] \in Task
    BY DEF IInv, Base, SlotKept, TypeOK
  <1>2. /\ At(s, "restore") /\ Busy(s) /\ Finish(s)
        /\ \A p \in Places : p < task[s].place
        /\ task[s].place > 1
        /\ UNCHANGED <<live, backup, gateway, user, removed, unrepaired, edits, faults, crashes>>
    BY <1>1, PlacesKnown DEF Restored, history, At, Busy, More, Task, Places
  <1>3. CASE task[s].kind \in {"stop", "exit"}
    <2>1. manifest' = manifest /\ s = "app"
      BY <1>1, <1>2, <1>3, WhoWorks DEF Restored, Slots
    <2>2. ~Repairing BY <1>3, <2>1 DEF Repairing, Doing
    <2> QED BY <1>1, <1>2, <2>1, <2>2, QuietEnd DEF TypeOK
  <1>4. CASE task[s].kind \notin {"stop", "exit"}
    <2>1. s = "ui" /\ task["ui"].kind \in {"enable", "disable"}
      BY <1>1, <1>2, <1>4, WhoWorks DEF At, Slots
    <2>2. /\ task[s].m \in Manifest /\ manifest # Absent
          /\ task[s].m.entries = manifest.entries
          /\ manifest' = [task[s].m EXCEPT !.enabled = FALSE]
      BY <1>1, <1>2, <1>4 DEF Restored, EntriesAgree, At, Walks, Task
    <2>3. manifest' # Absent /\ ~manifest'.enabled /\ manifest'.entries = manifest.entries
      <3>1. manifest' \in Manifest BY <2>2 DEF Manifest
      <3> QED BY <2>2, <3>1, AbsentApart DEF Manifest
    <2>4. ~Repairing /\ ~Halfway
      BY <1>1, <1>2, <2>1, WhoWorks DEF Repairing, Halfway, At
    <2>5. \A q \in Places : Own(q)
      <3>1. CASE task["ui"].kind = "disable"
        BY <1>1, <1>2, <2>1, <3>1 DEF Kept, DisableKept, Doing
      <3>2. CASE task["ui"].kind = "enable"
        <4>1. ~Enabled BY <1>1, <1>2, <2>1, <3>2 DEF Kept, FirstEnable, At, Walks
        <4> QED BY <1>1, <2>4, <4>1, AllOwn DEF Kept
      <3> QED BY <2>1, <3>1, <3>2
    <2>6. /\ \A q \in Places : Recoverable(q)' /\ Own(q)'
          /\ ~Enabled'
      <3>1. \A q \in Places : Recoverable(q)
        BY <1>1, <1>2 DEF Kept, CopiesKept, At, Walks
      <3> QED BY <1>2, <2>2, <2>3, <2>5, <3>1 DEF Recoverable, Own, Enabled
    <2>7. CopiesKept' /\ FilesKept' BY <2>6 DEF CopiesKept, FilesKept
    <2>8. task'["ui"].at = "idle" /\ task'["app"] = task["app"]
      BY <1>1, <1>2, <2>1, Finished DEF Slots
    <2>9. FirstEnable' /\ BackupKept' /\ DisableKept'
      BY <2>8 DEF FirstEnable, BackupKept, DisableKept, At, Doing, Busy, Walks
    <2>10. ~Following
      BY <1>1, <1>2, <2>1, WhoWorks DEF Base, LockKept, Repairable, Following, Doing
    <2>11. SyncKept' BY <2>8, <2>10 DEF SyncKept, Following, Doing, Busy
    <2>12. KeysKnown' BY <1>1, <1>2 DEF Kept, KeysKnown
    <2> QED BY <2>7, <2>9, <2>11, <2>12 DEF Kept
  <1> QED BY <1>3, <1>4

\* A failing access leaves the proxy on, or the files as the user had them; an enable
\* that fails while it writes goes on to take the first file back.
LEMMA FailKept ==
    ASSUME IInv, Repairable, NEW s \in Slots, Fail(s), ~unrepaired' PROVE Kept'
  <1>1. TypeOK /\ Base /\ Kept /\ task[s] \in Task BY DEF IInv, Base, TypeOK
  <1>2. /\ task[s].at \in {"read", "backup", "build", "apply", "restore"} /\ Busy(s)
        /\ faults \in 0..MaxFaults /\ faults < MaxFaults /\ faults' = faults + 1
        /\ faults > 0 => task[s].at # "restore"
        /\ UNCHANGED <<live, backup, manifest, gateway, user, removed, edits, crashes>>
    <2>1. /\ MayFail \subseteq {"read", "backup", "build", "apply", "restore"}
          /\ MaxFaults <= 1 \/ "restore" \notin MayFail
      BY DEF Repairable
    <2>2. /\ task[s].at \in MayFail /\ faults < MaxFaults /\ faults' = faults + 1
          /\ UNCHANGED <<live, backup, manifest, gateway, user, removed, edits, crashes>>
      BY DEF Fail, Fails
    <2>3. faults \in 0..MaxFaults /\ MaxFaults \in Nat BY <1>1, TargetsAssumption DEF TypeOK
    <2>4. task[s].at \in {"read", "backup", "build", "apply", "restore"} BY <2>1, <2>2
    <2>5. faults > 0 => "restore" \notin MayFail BY <2>1, <2>2, <2>3
    <2>6. faults > 0 => task[s].at # "restore" BY <2>2, <2>5
    <2> QED BY <2>2, <2>3, <2>4, <2>6 DEF Busy
  <1>3. CASE ~TakesBack(s) /\ Finish(s)
    <2>1. Repairing /\ s = "app" => ~Torn(manifest)
      BY DEF Fail, Repairing, Doing
    <2>2. s = "ui" => Enabled \/ ~Halfway
      <3> SUFFICES ASSUME s = "ui", Halfway PROVE Enabled OBVIOUS
      <3>1. /\ task["ui"].kind = "enable" /\ task["ui"].at \in Walks
            /\ task["ui"].at \in {"apply", "flag", "restore"}
        BY DEF Halfway, At, Walks
      <3>2. task["ui"].at # "restore"
        BY <1>1, <1>2, <3>1 DEF Kept, FirstEnable, At
      <3>3. ~task["ui"].fresh BY <1>2, <1>3, <3>1, <3>2 DEF TakesBack
      <3> QED BY <1>1, <3>1, <3>3 DEF Kept, FirstEnable
    <2> QED BY <1>1, <1>2, <1>3, <2>1, <2>2, TargetsAssumption, QuietEnd
  <1>4. CASE TakesBack(s) /\ Goto(s, "restore") /\ UNCHANGED lock
    <2>1. PICK t : t = [task[s] EXCEPT !.at = "restore", !.place = 1] OBVIOUS
    <2>2. task' = [task EXCEPT ![s] = t] BY <1>1, <1>4, <2>1 DEF Goto, TypeOK
    <2>3. /\ t.at = "restore" /\ t.kind = task[s].kind /\ t.place = 1
          /\ t.fresh = task[s].fresh
      BY <1>1, <2>1 DEF Task
    <2>4. /\ s = "ui" /\ task["ui"].kind = "enable" /\ ~Busy("app") /\ task["ui"].fresh
          /\ task["ui"].at \in {"build", "apply"}
      BY <1>1, <1>2, <1>4, WhoWorks DEF TakesBack, Slots
    <2>5. task'["ui"] = t /\ task'["app"] = task["app"]
      BY <1>1, <2>2, <2>4 DEF TypeOK, Slots
    <2>6. /\ Enabled' <=> Enabled
          /\ \A p \in Places : (Own(p)' <=> Own(p)) /\ (Recoverable(p)' <=> Recoverable(p))
          /\ (Torn(manifest))' <=> Torn(manifest)
      BY <1>2 DEF Enabled, Own, Recoverable, Torn, Applied
    <2>7. ~Enabled /\ ~Repairing
      BY <1>1, <2>4 DEF Kept, FirstEnable, Walks, Repairing, Doing
    <2>8. \A p \in Places : Recoverable(p)
      BY <1>1, <2>4 DEF Kept, CopiesKept, Walks, Slots
    <2>9. \A p \in Places : p # 1 => Own(p)
      <3>1. CASE At("ui", "build")
        <4>1. ~Halfway BY <3>1 DEF Halfway, At
        <4> QED BY <1>1, <2>7, <4>1, AllOwn DEF Kept
      <3>2. CASE At("ui", "apply")
        <4>1. \A p \in Places : p >= task["ui"].place => Own(p)
          BY <1>1, <2>4, <2>7, <3>2 DEF Kept, FirstEnable, Walks, At
        <4>2. More("ui") BY <1>1, <3>2 DEF Base, SlotKept, CallKnown, Busy, At, Slots
        <4>3. \A p \in Places : p # 1 => p >= task["ui"].place
          BY <1>1, <2>4, <4>2, PlacesKnown DEF Repairable, Places, More, Task
        <4> QED BY <4>1, <4>3
      <3> QED BY <2>4, <3>1, <3>2 DEF At
    <2>10. CopiesKept' BY <2>6, <2>8 DEF CopiesKept
    <2>11. FilesKept'
      <3>1. Halfway' BY <2>3, <2>4, <2>5 DEF Halfway, At
      <3> QED BY <1>1, <1>2, <2>6, <2>7, <3>1 DEF Kept, FilesKept
    <2>12. FirstEnable'
      BY <1>2, <2>3, <2>4, <2>5, <2>6, <2>7, <2>9 DEF FirstEnable, At
    <2>13. BackupKept' /\ SyncKept' /\ DisableKept'
      BY <2>3, <2>4, <2>5 DEF BackupKept, SyncKept, Following, DisableKept, At, Doing, Busy
    <2>14. KeysKnown' BY <1>1, <1>2 DEF Kept, KeysKnown
    <2> QED BY <2>10, <2>11, <2>12, <2>13, <2>14 DEF Kept
  <1> QED BY <1>3, <1>4 DEF Fail

\* An edit changes nothing that is the proxy's.
LEMMA EditKept == ASSUME IInv, NEW p \in Places, Edit(p) PROVE Kept'
  <1>1. TypeOK /\ Kept BY DEF IInv, Base
  <1>2. /\ live[p] \in Contents /\ live' = [live EXCEPT ![p].other = edits + 1]
        /\ UNCHANGED <<backup, manifest, gateway, lock, task, user, removed, unrepaired, faults, crashes>>
    BY <1>1 DEF Edit, TypeOK, OptContents
  <1>3. PICK c : c = [live[p] EXCEPT !.other = edits + 1] OBVIOUS
  <1>4. c.managed = live[p].managed /\ c \in [managed : Managed, other : {edits + 1}]
    BY <1>2, <1>3 DEF Contents
  <1>5. live' = [live EXCEPT ![p] = c] BY <1>1, <1>2, <1>3 DEF TypeOK
  <1>6. edits + 1 \in 0..MaxEdits BY <1>1, TargetsAssumption DEF Edit, TypeOK
  <1>7. c # Absent /\ live[p] # Absent
    BY <1>2, <1>4, <1>6, AbsentApart DEF Contents
  <1>8. \A q \in Places : /\ live'[q] = Absent <=> live[q] = Absent
                          /\ live[q] # Absent => live'[q].managed = live[q].managed
    BY <1>1, <1>4, <1>5, <1>7 DEF TypeOK
  <1>9. /\ Enabled' <=> Enabled
        /\ \A q \in Places : /\ Own(q)' <=> Own(q)
                             /\ Recoverable(q)' <=> Recoverable(q)
                             /\ (Proxied(live[q]))' <=> Proxied(live[q])
        /\ (Torn(manifest))' <=> Torn(manifest)
    BY <1>2, <1>8 DEF Enabled, Own, Recoverable, Proxied, Torn, Applied
  <1>10. CopiesKept' BY <1>1, <1>2, <1>9 DEF Kept, CopiesKept, Repairing, Doing, Busy
  <1>11. FilesKept'
    BY <1>1, <1>2, <1>9 DEF Kept, FilesKept, Repairing, Doing, Busy, Halfway, At
  <1>12. FirstEnable' BY <1>1, <1>2, <1>9 DEF Kept, FirstEnable, At
  <1>13. BackupKept' BY <1>1, <1>2, <1>9 DEF Kept, BackupKept, At
  <1>14. SyncKept' BY <1>1, <1>2, <1>9 DEF Kept, SyncKept, Following, Doing, Busy
  <1>15. DisableKept' BY <1>1, <1>2, <1>9 DEF Kept, DisableKept, Doing, Busy, At
  <1>16. KeysKnown' BY <1>1, <1>2 DEF Kept, KeysKnown
  <1> QED BY <1>10, <1>11, <1>12, <1>13, <1>14, <1>15, <1>16 DEF Kept

LEMMA ChooseKept ==
    ASSUME IInv, Repairable, NEW p \in Places, NEW d \in Direct, Choose(p, d)
    PROVE  Kept'
  <1>1. TypeOK /\ Kept BY DEF IInv, Base
  <1>2. /\ ~Enabled /\ ~Busy("ui") /\ ~Busy("app")
        /\ user' = [user EXCEPT ![p] = d]
        /\ live' = [live EXCEPT ![p] = [managed |-> d, other |-> Other(live[p])]]
        /\ UNCHANGED <<backup, manifest, gateway, lock, task, removed, unrepaired, faults, crashes>>
    BY <1>1 DEF Choose, TypeOK, Slots
  <1>3. ~Enabled' /\ task'["ui"].at = "idle" /\ task'["app"].at = "idle"
    BY <1>2 DEF Enabled, Busy
  <1>4. \A q \in Places : Own(q)
    BY <1>1, <1>2, AllOwn DEF Kept, Repairing, Doing, Halfway, Busy, At
  <1>5. \A q \in Places : Own(q)'
    <2>1. Other(live[p]) \in 0..MaxEdits
      BY <1>1, TargetsAssumption DEF Other, TypeOK, OptContents, Contents
    <2>2. [managed |-> d, other |-> Other(live[p])] # Absent
      BY <2>1, AbsentApart DEF Contents, Managed
    <2>3. live'[p].managed = d /\ live'[p] # Absent /\ user'[p] = d
      BY <1>1, <1>2, <2>2 DEF TypeOK
    <2>4. \A q \in Places : q # p => live'[q] = live[q] /\ user'[q] = user[q]
      BY <1>1, <1>2 DEF TypeOK
    <2> QED BY <1>4, <2>3, <2>4 DEF Own
  <1>6. CopiesKept'
    BY <1>3 DEF CopiesKept, Repairing, Doing, Busy, Walks, Slots
  <1>7. FilesKept' BY <1>5 DEF FilesKept
  <1>8. FirstEnable' /\ BackupKept' /\ SyncKept' /\ DisableKept'
    BY <1>3 DEF FirstEnable, BackupKept, SyncKept, Following, DisableKept, At, Doing, Busy, Walks
  <1>9. KeysKnown'
    <2>0. Len(Files) = 1 \/ (Direct = Keys /\ MayLack \subseteq {1}) BY DEF Repairable
    <2>9. \A q \in Places : q # 1 => Len(Files) # 1 BY OtherPlaces
    <2>1. \A q \in Places : q # 1 => Direct = Keys
      BY <2>0, <2>9, Zenon
    <2> QED BY <1>1, <1>2, <2>1 DEF Kept, KeysKnown, TypeOK
  <1> QED BY <1>6, <1>7, <1>8, <1>9 DEF Kept

LEMMA InitKept == ASSUME Init, Repairable PROVE Kept
  <1>1. task["ui"].at = "idle" /\ task["app"].at = "idle" /\ ~Enabled
    BY IdleTask DEF Init, Enabled, Slots
  <1>2. CopiesKept BY <1>1 DEF CopiesKept, Repairing, Doing, Busy, Walks, Slots
  <1>3. FilesKept
    <2>1. 0 \in 0..MaxEdits BY TargetsAssumption
    <2>2. \A p \in Places : user[p] # Absent => [managed |-> user[p], other |-> 0] # Absent
      BY <2>1, AbsentApart DEF Init, Contents, Managed
    <2> QED BY <2>2 DEF Init, FilesKept, Own
  <1>4. FirstEnable /\ BackupKept /\ SyncKept /\ DisableKept
    BY <1>1 DEF FirstEnable, BackupKept, SyncKept, Following, DisableKept, At, Doing, Busy, Walks
  <1>5. KeysKnown
    <2>0. Len(Files) = 1 \/ (Direct = Keys /\ MayLack \subseteq {1}) BY DEF Repairable
    <2>9. \A q \in Places : q # 1 => Len(Files) # 1 /\ q \notin {1} BY OtherPlaces
    <2>1. \A q \in Places : q # 1 => Direct = Keys /\ q \notin MayLack
      BY <2>0, <2>9, Zenon
    <2> QED BY <2>1 DEF Init, KeysKnown
  <1> QED BY <1>2, <1>3, <1>4, <1>5 DEF Kept

LEMMA StutterKept == ASSUME Kept, UNCHANGED vars PROVE Kept'
  <1>1. UNCHANGED <<live, backup, manifest, gateway, task, user, faults>> BY DEF vars
  <1>2. /\ Enabled' <=> Enabled
        /\ (Torn(manifest))' <=> Torn(manifest)
        /\ \A q \in Places : /\ Own(q)' <=> Own(q)
                             /\ Recoverable(q)' <=> Recoverable(q)
                             /\ (Proxied(live[q]))' <=> Proxied(live[q])
    BY <1>1 DEF Enabled, Own, Recoverable, Proxied, Torn, Applied
  <1>3. CopiesKept' BY <1>1, <1>2 DEF Kept, CopiesKept, Repairing, Doing, Busy
  <1>4. FilesKept'
    BY <1>1, <1>2 DEF Kept, FilesKept, Repairing, Doing, Busy, Halfway, At
  <1>5. FirstEnable' BY <1>1, <1>2 DEF Kept, FirstEnable, At
  <1>6. BackupKept' BY <1>1, <1>2 DEF Kept, BackupKept, At
  <1>7. SyncKept' /\ DisableKept' /\ KeysKnown'
    BY <1>1, <1>2 DEF Kept, SyncKept, Following, DisableKept, KeysKnown, Doing, Busy, At
  <1> QED BY <1>3, <1>4, <1>5, <1>6, <1>7 DEF Kept

LEMMA NextKept ==
    ASSUME Repairable, IInv, [Next]_vars, ~unrepaired' PROVE Kept'
  <1>2. Enable => Kept' BY StartKept DEF Enable, OwnKinds, Slots
  <1>3. Disable => Kept' BY StartKept DEF Disable, OwnKinds, Slots
  <1>4. Sync => Kept' BY StartKept DEF Sync, OwnKinds, Slots
  <1>5. Retarget => Kept' BY StartKept DEF Retarget, OwnKinds, Slots
  <1>6. Stop => Kept' BY StartKept DEF Stop, OwnKinds, Slots
  <1>7. Exit => Kept' BY StartKept DEF Exit, OwnKinds, Slots
  <1>8. Quit \/ Crash => Kept' BY RebootKept DEF Quit, Crash
  <1>9. ASSUME NEW s \in Slots, Work(s) \/ Fail(s) PROVE Kept'
    BY <1>9, ReadKept, BackUpKept, RecordKept, BuildStepKept, ApplyKept, FlagKept,
       RestoreKept, RestoredKept, FailKept DEF Work
  <1>10. ASSUME NEW p \in Places, Edit(p) \/ \E d \in Direct : Choose(p, d) PROVE Kept'
    BY <1>10, EditKept, ChooseKept
  <1>11. UNCHANGED vars => Kept' BY StutterKept DEF IInv
  <1> QED
    BY <1>2, <1>3, <1>4, <1>5, <1>6, <1>7, <1>8, <1>9, <1>10, <1>11 DEF Next

\* A torn enable that was left is never forgotten.
LEMMA NotedForGood == ASSUME Base, [Next]_vars, unrepaired PROVE unrepaired'
  <1>1. TypeOK BY DEF Base
  <1>2. Reboot => unrepaired' BY <1>1, RebootKnown
  <1>3. ASSUME NEW s \in Slots, Work(s) \/ Fail(s) PROVE unrepaired'
    BY <1>3 DEF Work, Fail, Read, BackUp, Record, Build, Apply, Flag, Restore, Restored,
       history
  <1> QED
    BY <1>2, <1>3 DEF Next, Enable, Disable, Sync, Retarget, Stop, Exit, Start, Quit, Crash,
       Edit, Choose, history, vars

\* Until a start leaves a torn enable as it was, the user's configuration is kept.
Held == Base /\ (unrepaired \/ Kept)

LEMMA NextHeld == ASSUME Repairable PROVE Held /\ [Next]_vars => Held'
  <1> SUFFICES ASSUME Held, [Next]_vars PROVE Held' OBVIOUS
  <1>1. Base' BY NextBase DEF Held
  <1>2. ASSUME ~unrepaired' PROVE Kept'
    <2>1. ~unrepaired BY <1>2, NotedForGood DEF Held
    <2>2. IInv BY <2>1 DEF Held, IInv
    <2> QED BY <1>2, <2>2, NextKept
  <1> QED BY <1>1, <1>2 DEF Held

\* No sequence of switches, starts, stops, crashes and failures loses the user's own
\* configuration (backup_for_enable, restore_from_manifest, mod.rs), as long as no start
\* leaves a torn enable unrepaired and under what Repairable says: no disable within a
\* sync, no failing last write of a manifest, no second fault, at most two files, and an
\* API key in the second.
THEOREM ConfigurationKept == ASSUME Repairable PROVE Spec => []DirectKept
  <1>1. Held => DirectKept
    <2> SUFFICES ASSUME Held, ~unrepaired, NEW p \in Places, ~Own(p)
                 PROVE  Proxied(live[p]) /\ Recoverable(p)
      BY DEF DirectKept, Own
    <2>1. Kept BY DEF Held
    <2>2. Halfway => task["ui"].at \in Walks BY DEF Halfway, At, Walks
    <2> QED BY <2>1, <2>2 DEF Kept, FilesKept, CopiesKept, Slots
  <1>2. Init => Held BY InitBase, InitKept DEF Held
  <1>3. Held /\ [Next]_vars => Held' BY NextHeld
  <1> QED BY <1>1, <1>2, <1>3, PTL DEF Spec

\* Once nothing is in progress and the proxy is off, no file points at the gateway
\* (mod.rs:1040, and the repair at start-up), as long as no start leaves a torn enable
\* unrepaired and under the same assumptions: with a disable within a sync, which the
\* code allows (it takes no lock), the files may stay proxied.
THEOREM OffMeansDirect == ASSUME Repairable PROVE Spec => []OffIsDirect
  <1>1. Held => OffIsDirect
    <2> SUFFICES ASSUME Held, ~unrepaired, \A s \in Slots : ~Busy(s), ~Enabled, NEW p \in Places
                 PROVE  ~Proxied(live[p])
      BY DEF OffIsDirect
    <2>1. TypeOK /\ Kept BY DEF Held, Base
    <2>2. ~Repairing /\ ~Halfway BY DEF Repairing, Doing, Halfway, Busy, At, Slots
    <2>3. Own(p) BY <2>1, <2>2, AllOwn DEF Kept
    <2> QED BY <2>1, <2>3, OwnOrProxied DEF TypeOK
  <1>2. Init => Held BY InitBase, InitKept DEF Held
  <1>3. Held /\ [Next]_vars => Held' BY NextHeld
  <1> QED BY <1>1, <1>2, <1>3, PTL DEF Spec
=============================================================================
