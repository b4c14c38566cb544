------------------------------- MODULE CliProxy -------------------------------
(* Taking over the configuration files of one CLI: infra/cli_proxy/mod.rs with *)
(* its per-CLI files, called by the proxy switch of the window                 *)
(* (app/cli_proxy_service.rs), by the gateway's start, stop and port change    *)
(* (app/gateway_service/lifecycle.rs), by a port change while it is down       *)
(* (app/settings_service.rs), by the exit cleanup (app/cleanup.rs) and by the  *)
(* repair at start-up (app/startup_settings.rs). cli_proxy_sync_enabled, which *)
(* no page of the window calls, and the timeouts of the restores are left out. *)
(*                                                                             *)
(* Enabling copies the files to a backup, records the copies in a manifest and *)
(* writes the gateway's address into them; disabling merges the backup back.   *)
(* Every read and every write of a file or of the manifest is a step of its    *)
(* own, so the process may crash between any two, and the switch and the       *)
(* application's own work interleave as the gateway lifecycle lock lets them.  *)
(*                                                                             *)
(* A file is its proxy-managed part (the address or key) and everything else,  *)
(* `other`, a counter of the user's edits.                                     *)
EXTENDS Naturals, Sequences

CONSTANTS
    Files,          \* the targets in order; the first one holds the address
    Origins,        \* addresses the gateway can listen on
    Direct,         \* what the user's own managed part can be
    Keys,           \* those of them that hold an API key
    MayLack,        \* places of the files the user may not have at first
    Placeholder,    \* the key the proxy writes into the other files
    Absent,         \* no such file, no manifest, no address, no gateway
    MeetsSync,      \* may a disable overlap with a sync or a retarget?
    MayFail,        \* the steps whose file access can fail
    MaxEdits,       \* bound on the user's edits
    MaxFaults,      \* bound on failing reads and writes
    MaxCrashes      \* bound on crashes of the process

ASSUME TargetsAssumption ==
    /\ Files \in Seq(STRING) /\ Files # <<>>
    /\ Keys \subseteq Direct /\ MeetsSync \in BOOLEAN
    /\ MayLack \subseteq Nat /\ MayFail \subseteq STRING
    /\ Absent \notin Origins \cup Direct \cup {Placeholder}
    /\ Direct \cap (Origins \cup {Placeholder}) = {}
    /\ MaxEdits \in Nat /\ MaxFaults \in Nat /\ MaxCrashes \in Nat

VARIABLES
    live,       \* the CLI's own files
    backup,     \* the copies under cli-proxy/<cli>/files
    manifest,   \* manifest.json
    gateway,    \* the address the gateway listens on, or Absent
    lock,       \* holder of the gateway lifecycle lock, or Absent
    task,       \* what the switch ("ui") and the application ("app") are doing
    user,       \* the managed part the user last chose, per file
    removed,    \* contents copied to restore-safety before a removal
    unrepaired, \* has a start left a torn enable as it was?
    edits, faults, crashes

vars == <<live, backup, manifest, gateway, lock, task, user, removed,
          unrepaired, edits, faults, crashes>>
history == <<unrepaired, edits, faults, crashes>>

Places == 1..Len(Files)
Managed == Origins \cup Direct \cup {Placeholder}
Contents == [managed : Managed, other : 0..MaxEdits]
OptContents == Contents \cup {Absent}

(* What the manifest says of a file: not recorded, copied, or not there.       *)
Marks == {"none", "existed", "absent"}
Manifest == [enabled : BOOLEAN, origin : Origins \cup {Absent},
             entries : [Places -> Marks]]
NoEntries == [p \in Places |-> "none"]

Slots == {"ui", "app"}

ASSUME AbsentAssumption == Absent \notin Slots \cup Contents \cup Manifest

Steps == {"idle", "read", "backup", "build", "apply", "flag", "restore", "quit"}
Kinds == {"enable", "disable", "sync", "retarget", "stop", "exit", "repair"}
Task == [at : Steps, kind : Kinds, place : 1..(Len(Files) + 1),
         m : Manifest \cup {Absent}, fresh : BOOLEAN,
         built : [Places -> OptContents]]
Idle == [at |-> "idle", kind |-> "repair", place |-> 1, m |-> Absent,
         fresh |-> FALSE, built |-> [p \in Places |-> Absent]]

TypeOK ==
    /\ live \in [Places -> OptContents] /\ backup \in [Places -> OptContents]
    /\ manifest \in Manifest \cup {Absent}
    /\ gateway \in Origins \cup {Absent} /\ lock \in Slots \cup {Absent}
    /\ task \in [Slots -> Task]
    /\ user \in [Places -> Direct \cup {Absent}]
    /\ removed \in [Places -> OptContents] /\ unrepaired \in BOOLEAN
    /\ edits \in 0..MaxEdits /\ faults \in 0..MaxFaults
    /\ crashes \in 0..MaxCrashes

Init ==
    /\ user \in [Places -> Direct \cup {Absent}]
    /\ \A p \in Places \ MayLack : user[p] # Absent
    /\ live = [p \in Places |-> IF user[p] = Absent THEN Absent
                                ELSE [managed |-> user[p], other |-> 0]]
    /\ backup = [p \in Places |-> Absent] /\ manifest = Absent
    /\ gateway = Absent /\ lock = Absent
    /\ task = [s \in Slots |-> Idle]
    /\ removed = [p \in Places |-> Absent] /\ unrepaired = FALSE
    /\ edits = 0 /\ faults = 0 /\ crashes = 0

-------------------------------------------------------------------------------
Busy(s) == task[s].at # "idle"
Doing(s, k) == Busy(s) /\ task[s].kind = k
Enabled == manifest # Absent /\ manifest.enabled
Other(c) == IF c = Absent THEN 0 ELSE c.other

(* What enabling writes into a file: the address into the first, a placeholder *)
(* key into the others; everything else is kept.                               *)
ProxyValue(p) == IF p = 1 THEN gateway ELSE Placeholder
Patched(p) == [managed |-> ProxyValue(p), other |-> Other(live[p])]
Proxied(c) == c # Absent /\ c.managed \in Origins \cup {Placeholder}

(* The manifest can bring back what the user chose.                            *)
Recoverable(p) ==
    /\ manifest # Absent
    /\ \/ manifest.entries[p] = "existed" /\ backup[p].managed = user[p]
       \/ manifest.entries[p] = "absent" /\ user[p] = Absent

(* The files are taken to be proxied to an address when the first one holds it *)
(* and every other holds some API key: the placeholder or one of the user's.   *)
Applied(o) ==
    \A p \in Places : /\ live[p] # Absent
                      /\ live[p].managed \in IF p = 1 THEN {o}
                                             ELSE Keys \cup {Placeholder}

\* mutant: the whole copy comes back
Merged_Whole(cur, saved) == saved

(* Restoring merges: the managed part comes from the backup, the rest stays.   *)
Merged(cur, saved) == [managed |-> saved.managed, other |-> Other(cur)]

(* The current place of a slot's walk over the files, and the step it takes    *)
(* when the walk is over.                                                      *)
At(s, step) == task[s].at = step
More(s) == task[s].place <= Len(Files)
Goto(s, step) == task' = [task EXCEPT ![s].at = step, ![s].place = 1]
Advance(s, t) == task' = [task EXCEPT ![s] = [t EXCEPT !.place = @ + 1]]
Finish(s) ==
    /\ task' = [task EXCEPT ![s] = IF @.kind = "exit" THEN [@ EXCEPT !.at = "quit"]
                                   ELSE Idle]
    /\ lock' = IF lock = s THEN Absent ELSE lock
Fails(step) == step \in MayFail /\ faults < MaxFaults /\ faults' = faults + 1

-------------------------------------------------------------------------------
(* The calls. All but a disable, the exit and the repair hold the lifecycle    *)
(* lock from here to their end; the gateway changes only under it.             *)
\* mutant: nobody holds the lock
Start_Unlocked(s, k, locked) ==
    /\ ~Busy(s) /\ task' = [task EXCEPT ![s] = [Idle EXCEPT !.at = "read", !.kind = k]]
    /\ UNCHANGED <<lock, live, backup, manifest, user, removed, history>>

Start(s, k, locked) ==
    /\ ~Busy(s) /\ task' = [task EXCEPT ![s] = [Idle EXCEPT !.at = "read", !.kind = k]]
    /\ lock = Absent \/ k = "disable"
    /\ lock' = IF locked THEN s ELSE lock
    /\ UNCHANGED <<live, backup, manifest, user, removed, history>>

(* The window opens after the repair and sends one switch at a time; a switch  *)
(* sent before the exit cleanup may still be at work in it, but none is sent   *)
(* once it has begun.                                                          *)
WindowOpen == ~Doing("app", "repair") /\ ~Doing("app", "exit")

(* The switch is on: the gateway is started if it is down.                     *)
Enable ==
    /\ WindowOpen
    /\ Start("ui", "enable", TRUE)
    /\ gateway' \in IF gateway = Absent THEN Origins ELSE {gateway}

(* The switch is off, or off once more: the copies come back whether or not    *)
(* the manifest is on. Asked while it is off, only as long as they are still   *)
(* what the user chose; later it asks for an older choice to be put back.      *)
Disable ==
    /\ WindowOpen /\ (Enabled \/ \A p \in Places : Recoverable(p))
    /\ MeetsSync \/ ~(Doing("app", "sync") \/ Doing("app", "retarget"))
    /\ Start("ui", "disable", FALSE) /\ UNCHANGED gateway

(* The gateway starts, or moves to another port, and the files follow.         *)
Sync ==
    /\ MeetsSync \/ ~Doing("ui", "disable")
    /\ Start("app", "sync", TRUE) /\ gateway' \in Origins

(* Another port is chosen while the gateway is down: the manifest follows.     *)
Retarget ==
    /\ gateway = Absent /\ UNCHANGED gateway
    /\ MeetsSync \/ ~Doing("ui", "disable")
    /\ Start("app", "retarget", TRUE)

(* The gateway stops, or is stopped while it is down, or cannot start: the     *)
(* direct configuration comes back, the switch stays.                          *)
Stop == Start("app", "stop", TRUE) /\ gateway' = Absent
Exit == Start("app", "exit", FALSE) /\ gateway' = Absent

-------------------------------------------------------------------------------
(* What a call does after it has read the manifest.                            *)
On(m) == m # Absent /\ m.enabled

\* mutant: the files are backed up again when the proxy is already on
TakesBackup_Always(m) == TRUE
\* An enable that finds the proxy on keeps the copies it has.
TakesBackup(m) == ~On(m)

\* mutant: the recorded address is trusted, whatever the files hold
Drifted_ByRecord(m) == m.origin # gateway
\* The files do not follow the gateway.
Drifted(m) == ~(m.origin = gateway /\ Applied(gateway))

\* mutant: no repair
Torn_Never(m) == FALSE
\* Marked off with the proxy's values in place: an enable that never finished.
Torn(m) == m # Absent /\ ~m.enabled /\ m.origin # Absent /\ Applied(m.origin)

FirstStep(k, m) ==
    CASE k = "enable" -> IF TakesBackup(m) THEN "backup" ELSE "build"
      [] k = "disable" -> IF m # Absent THEN "restore" ELSE "idle"
      [] k = "sync" -> IF On(m) /\ Drifted(m) THEN "build" ELSE "idle"
      [] k = "retarget" -> IF On(m) THEN "flag" ELSE "idle"
      [] k \in {"stop", "exit"} -> IF On(m) THEN "restore" ELSE "idle"
      [] k = "repair" -> IF Torn(m) THEN "flag" ELSE "idle"

Read(s) ==
    LET next == FirstStep(task[s].kind, manifest) IN
    /\ At(s, "read")
    /\ IF next = "idle" THEN Finish(s)
       ELSE /\ task' = [task EXCEPT ![s].at = next, ![s].m = manifest,
                            ![s].fresh = next = "backup"]
            /\ UNCHANGED lock
    /\ UNCHANGED <<live, backup, manifest, gateway, user, removed, history>>

(* Copy one file and note in the new manifest whether there was one.           *)
BackUp(s) ==
    LET p == task[s].place
        m == IF p = 1 THEN [enabled |-> FALSE, origin |-> gateway, entries |-> NoEntries]
             ELSE task[s].m IN
    /\ At(s, "backup") /\ More(s)
    /\ backup' = IF live[p] = Absent THEN backup ELSE [backup EXCEPT ![p] = live[p]]
    /\ Advance(s, [task[s] EXCEPT !.m = [m EXCEPT
            !.entries[p] = IF live[p] = Absent THEN "absent" ELSE "existed"]])
    /\ UNCHANGED <<live, manifest, gateway, lock, user, removed, history>>

(* The snapshot is on disk, still marked off, before any file changes.         *)
Record(s) ==
    /\ At(s, "backup") /\ ~More(s)
    /\ manifest' = task[s].m /\ Goto(s, "build")
    /\ UNCHANGED <<live, backup, gateway, lock, user, removed, history>>

(* All new contents are built before the first is written.                     *)
Build(s) ==
    /\ At(s, "build")
    /\ task' = [task EXCEPT ![s].at = "apply", ![s].place = 1,
                            ![s].built = [p \in Places |-> Patched(p)]]
    /\ UNCHANGED <<live, backup, manifest, gateway, lock, user, removed, history>>

Apply(s) ==
    /\ At(s, "apply") /\ More(s)
    /\ live' = [live EXCEPT ![task[s].place] = task[s].built[task[s].place]]
    /\ IF task[s].place = Len(Files) THEN Goto(s, "flag") ELSE Advance(s, task[s])
    /\ UNCHANGED <<backup, manifest, gateway, lock, user, removed, history>>

(* The manifest says on, with the address, once every file is written; a       *)
(* retarget gives it another address, the repair keeps the one it found.       *)
Flagged(s, o) == [task[s].m EXCEPT !.enabled = TRUE,
                      !.origin = IF task[s].kind = "repair" THEN @ ELSE o]
Flag(s) ==
    /\ At(s, "flag") /\ Finish(s)
    /\ \E o \in IF task[s].kind = "retarget" THEN Origins ELSE {gateway} :
          manifest' = Flagged(s, o)
    /\ UNCHANGED <<live, backup, gateway, user, removed, history>>

(* Restore one file of the manifest that was read: merge its copy back, or     *)
(* copy the file to safety and remove it when there was none.                  *)
Restore(s) ==
    LET p == task[s].place
        existed == task[s].m.entries[p] = "existed" IN
    /\ At(s, "restore") /\ More(s)
    /\ live' = [live EXCEPT ![p] = IF existed THEN Merged(@, backup[p]) ELSE Absent]
    /\ removed' = IF existed \/ live[p] = Absent THEN removed
                  ELSE [removed EXCEPT ![p] = live[p]]
    /\ Advance(s, task[s])
    /\ UNCHANGED <<backup, manifest, gateway, lock, user, history>>

(* A stop and the exit keep the switch; a disable and a failed enable clear it.*)
Restored(s) ==
    /\ At(s, "restore") /\ ~More(s)
    /\ manifest' = IF task[s].kind \in {"stop", "exit"} THEN manifest
                   ELSE [task[s].m EXCEPT !.enabled = FALSE]
    /\ Finish(s)
    /\ UNCHANGED <<live, backup, gateway, user, removed, history>>

(* A failing access ends the call as it is, but a first enable that cannot     *)
(* build or write its files takes them back; the last write of a disable is    *)
(* not checked.                                                                *)
TakesBack(s) ==
    task[s].at \in {"build", "apply"} /\ task[s].kind = "enable" /\ task[s].fresh
Fail(s) ==
    /\ Fails(task[s].at)
    /\ \/ TakesBack(s) /\ Goto(s, "restore") /\ UNCHANGED lock
       \/ ~TakesBack(s) /\ Finish(s)
    /\ unrepaired' = (unrepaired \/ (task[s].kind = "repair" /\ Torn(manifest)))
    /\ UNCHANGED <<live, backup, manifest, gateway, user, removed, edits, crashes>>

-------------------------------------------------------------------------------
(* The process starts again. Before the window opens it runs the repair, or    *)
(* not, as a setting says; when the settings cannot be read it restores like a *)
(* stop instead, with nobody there to ask for the lock.                        *)
Reboot ==
    /\ gateway' = Absent
    /\ \E k \in {"repair", "stop", "none"} :
        LET t == IF k = "none" THEN Idle ELSE [Idle EXCEPT !.at = "read", !.kind = k] IN
        /\ task' = [task EXCEPT !["ui"] = Idle, !["app"] = t]
        /\ lock' = IF k = "stop" THEN "app" ELSE Absent
        /\ unrepaired' = (unrepaired \/ (k # "repair" /\ Torn(manifest)))
    /\ UNCHANGED <<live, backup, manifest, user, removed, edits, faults>>
Quit == At("app", "quit") /\ Reboot /\ UNCHANGED crashes
Crash == crashes < MaxCrashes /\ crashes' = crashes + 1 /\ Reboot

(* The user edits the rest of a file at any time but between the moment it is  *)
(* read for the proxy and the moment it is written, and chooses the managed    *)
(* part while the proxy is off.                                                *)
Edit(p) ==
    /\ edits < MaxEdits /\ edits' = edits + 1
    /\ live[p] # Absent /\ \A s \in Slots : ~At(s, "apply")
    /\ live' = [live EXCEPT ![p].other = edits + 1]
    /\ UNCHANGED <<backup, manifest, gateway, lock, task, user, removed,
                   unrepaired, faults, crashes>>

Choose(p, d) ==
    /\ edits < MaxEdits /\ edits' = edits + 1
    /\ ~Enabled /\ \A s \in Slots : ~Busy(s)
    /\ ~Proxied(live[p]) /\ user[p] # d
    /\ user' = [user EXCEPT ![p] = d]
    /\ live' = [live EXCEPT ![p] = [managed |-> d, other |-> Other(@)]]
    /\ UNCHANGED <<backup, manifest, gateway, lock, task, removed,
                   unrepaired, faults, crashes>>

Work(s) == \/ Read(s) \/ BackUp(s) \/ Record(s) \/ Build(s) \/ Apply(s) \/ Flag(s)
           \/ Restore(s) \/ Restored(s)

Next ==
    \/ Enable \/ Disable \/ Sync \/ Retarget \/ Stop \/ Exit \/ Quit \/ Crash
    \/ \E s \in Slots : Work(s) \/ Fail(s)
    \/ \E p \in Places : Edit(p) \/ \E d \in Direct : Choose(p, d)

(* A call that has begun goes on: its blocking task is run to its end, and the *)
(* process ends after its exit cleanup.                                        *)
Fairness == WF_vars(Quit) /\ \A s \in Slots : WF_vars(Work(s))
Spec == Init /\ [][Next]_vars /\ Fairness

-------------------------------------------------------------------------------
(* No sequence of switches, starts, stops, crashes and failures loses the      *)
(* user's own configuration: a file holds what the user chose, or the manifest *)
(* can bring that back (backup_for_enable and restore_from_manifest). Nothing  *)
(* is said after a start that left a torn enable unrepaired: the next enable   *)
(* copies the proxied files over the user's.                                   *)
DirectKept ==
    unrepaired \/ \A p \in Places :
        \/ Proxied(live[p]) /\ Recoverable(p)
        \/ live[p] = Absent /\ user[p] = Absent
        \/ live[p] # Absent /\ live[p].managed = user[p]

(* When nothing is in progress and the proxy is off, no file points at the     *)
(* gateway: what the success message of a disable says (mod.rs:1040), and what *)
(* the repair at start-up is for, where a start runs it.                       *)
OffIsDirect ==
    ~unrepaired /\ (\A s \in Slots : ~Busy(s)) /\ ~Enabled => \A p \in Places : ~Proxied(live[p])

(* The rest of a file is the user's: no step but an edit changes it, except    *)
(* the removal of a file the proxy created, which copies it to safety first.   *)
RestKept ==
    [][\A p \in Places :
        live[p] # Absent /\ edits' = edits =>
            IF live'[p] = Absent THEN live[p] = removed'[p]
            ELSE live'[p].other = live[p].other]_vars

(* While the gateway runs and the switch is on, the files come to point at it, *)
(* unless an access failed (the window then offers to repair the drift).       *)
OnIsApplied ==
    \A o \in Origins :
        (gateway = o /\ Enabled /\ faults = 0)
            ~> (gateway # o \/ ~Enabled \/ Applied(o) \/ faults > 0)
=============================================================================
