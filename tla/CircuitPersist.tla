---------------------------- MODULE CircuitPersist ---------------------------
(* How a changed circuit state reaches the database: try_persist and the      *)
(* backlog of circuit_breaker.rs, the background flusher it spawns, the       *)
(* bounded channel, and the writer thread of provider_circuit_breakers.rs.    *)
(* A state is a version number per provider: the breaker numbers them under   *)
(* the health lock, everything here happens after that lock is released.      *)
(*                                                                            *)
(* Two branches of the code are left out, as no call of the program takes     *)
(* them.  Who persists runs inside the tokio runtime (requests, and commands  *)
(* by blocking::run), so Handle::try_current finds it; and the breaker itself *)
(* holds a sender, so the channel closes only if the writer thread panics.    *)
(*                                                                            *)
(* written and lost are history: they are read by properties only.            *)
EXTENDS Integers, FiniteSets, Sequences, SequencesExt

CONSTANTS
    Providers, Workers,
    Sequential,  \* providers whose calls follow one another
    Flushers,    \* slots for flusher tasks that are alive at once
    QueueCap,    \* WRITE_BUFFER_CAPACITY
    BacklogCap,  \* MAX_PERSIST_BACKLOG
    BatchMax,    \* WRITE_BATCH_MAX
    MaxVersion,  \* bound on the states of each provider
    MaxClock,    \* bound on the clock behind updated_at
    MaxFaults,   \* bound on batches the database refuses for good
    MaxCrashes   \* bound on crashes

ASSUME CapsAssumption ==
    /\ QueueCap \in Nat \ {0} /\ BacklogCap \in Nat \ {0} /\ BatchMax \in Nat \ {0}
    /\ IsFiniteSet(Flushers) /\ IsFiniteSet(Providers)
    /\ Sequential \subseteq Providers

VARIABLES
    clock, ver,
    work,       \* where each worker is in try_persist
    backlog,    \* persist_backlog: at most one item per provider
    scheduled,  \* persist_backlog_flush_scheduled
    flusher,    \* where each flusher task is
    queue,      \* the channel
    writing,    \* the writer has stopped receiving and writes its batch
    batch, db, faults, crashes,
    written,    \* the newest version of each provider that was ever written
    lost        \* items evicted or refused by the database

vars == <<clock, ver, work, backlog, scheduled, flusher, queue, writing, batch, db,
          faults, crashes, written, lost>>

Item == [provider : Providers, ver : Nat, at : Nat]

Off == [pc |-> "off"]
WorkState  == {Off} \cup [pc : {"flush", "flushing", "send", "enqueue"}, item : Item]
              \cup [pc : {"schedule"}]
FlushState == [pc : {"off", "reserve", "pop", "clear", "look", "cas"}]
              \cup [pc : {"send"}, item : Item]

Permits == Cardinality({f \in Flushers : flusher[f].pc \in {"pop", "send"}})
Free    == QueueCap - Len(queue) - Permits

Carrying(w) == work[w].pc \in {"flush", "flushing", "send", "enqueue"}
Running(f) == flusher[f].pc \in {"reserve", "pop", "send", "clear"}

TypeOK ==
    /\ clock \in Nat /\ ver \in [Providers -> Nat]
    /\ work \in [Workers -> WorkState]
    /\ backlog \in SUBSET Item
    /\ \A i, j \in backlog : i.provider = j.provider => i = j
    /\ Cardinality(backlog) <= BacklogCap
    /\ scheduled \in BOOLEAN
    /\ flusher \in [Flushers -> FlushState]
    /\ queue \in Seq(Item) /\ Len(queue) + Permits <= QueueCap
    /\ writing \in BOOLEAN
    /\ batch \in Seq(Item) /\ Len(batch) <= BatchMax
    /\ db \in [Providers -> Nat]
    /\ faults \in Nat /\ crashes \in Nat
    /\ written \in [Providers -> Nat] /\ lost \in SUBSET Item

Init ==
    /\ clock = 0 /\ ver = [p \in Providers |-> 0]
    /\ work = [w \in Workers |-> Off]
    /\ backlog = {} /\ scheduled = FALSE
    /\ flusher = [f \in Flushers |-> Off]
    /\ queue = <<>> /\ writing = FALSE /\ batch = <<>>
    /\ db = [p \in Providers |-> 0]
    /\ faults = 0 /\ crashes = 0
    /\ written = [p \in Providers |-> 0] /\ lost = {}

(* ------------------------------- a worker --------------------------------- *)

\* The health map changes under its lock; the item leaves the lock with w.
Record(w, p) ==
    /\ work[w] = Off
    /\ p \in Sequential => \A v \in Workers : Carrying(v) => work[v].item.provider # p
    /\ ver[p] < MaxVersion[p]
    /\ ver' = [ver EXCEPT ![p] = @ + 1]
    /\ work' = [work EXCEPT ![w] =
                   [pc |-> "flush",
                    item |-> [provider |-> p, ver |-> ver[p] + 1, at |-> clock]]]
    /\ UNCHANGED <<clock, backlog, scheduled, flusher, queue, writing, batch, db,
                   faults, crashes, written, lost>>

At(w, pc) == work[w].pc = pc
Goto(w, pc) == work' = [work EXCEPT ![w].pc = pc]

\* flush_persist_backlog holds the backlog lock through its loop.
BacklogFreeFor(w) == \A v \in Workers \ {w} : ~At(v, "flushing")
BacklogFree       == \A v \in Workers : ~At(v, "flushing")

Older(i, j) == i.at < j.at \/ (i.at = j.at /\ i.provider # j.provider)

\* min_by_key over (updated_at, provider_id): which provider breaks a tie is
\* left open.
Oldest(items) == {i \in items : \A j \in items \ {i} : Older(i, j)}

\* One round of the loop: the oldest item moves to the channel, or the loop ends.
FlushOne(w) ==
    /\ At(w, "flush") \/ At(w, "flushing")
    /\ BacklogFreeFor(w)
    /\ IF backlog = {} \/ Free = 0
       THEN Goto(w, "send") /\ UNCHANGED <<backlog, queue>>
       ELSE \E i \in Oldest(backlog) :
               /\ backlog' = backlog \ {i}
               /\ queue' = Append(queue, i)
               /\ Goto(w, "flushing")
    /\ UNCHANGED <<clock, ver, scheduled, flusher, writing, batch, db, faults,
                   crashes, written, lost>>

TrySend(w) ==
    /\ At(w, "send")
    /\ IF Free > 0
       THEN queue' = Append(queue, work[w].item) /\ work' = [work EXCEPT ![w] = Off]
       ELSE Goto(w, "enqueue") /\ UNCHANGED queue
    /\ UNCHANGED <<clock, ver, backlog, scheduled, flusher, writing, batch, db,
                   faults, crashes, written, lost>>

SameProvider(items, i) == {j \in items : j.provider = i.provider}

\* enqueue_persist_backlog: at its limit the backlog evicts its oldest item, an
\* item of the same provider is replaced.
EnqueueRoom(i) ==
    IF Cardinality(backlog) >= BacklogCap /\ SameProvider(backlog, i) = {}
    THEN {{j} : j \in Oldest(backlog)} ELSE {{}}

Merged_KeepsOlder(i, evicted) == \* mutant
    IF SameProvider(backlog, i) = {} THEN (backlog \ evicted) \cup {i} ELSE backlog
Merged(i, evicted) ==
    ((backlog \ evicted) \ SameProvider(backlog, i)) \cup {i}

Enqueue(w) ==
    /\ At(w, "enqueue")
    /\ BacklogFree
    /\ LET i == work[w].item
       IN \E evicted \in EnqueueRoom(i) :
             /\ backlog' = Merged(i, evicted)
             /\ lost' = lost \cup evicted
    /\ work' = [work EXCEPT ![w] = [pc |-> "schedule"]]
    /\ UNCHANGED <<clock, ver, scheduled, flusher, queue, writing, batch, db, faults,
                   crashes, written>>

\* compare_exchange(false, true), and the winner spawns a flusher.
Schedule(w) ==
    /\ At(w, "schedule")
    /\ IF scheduled
       THEN UNCHANGED <<scheduled, flusher>>
       ELSE \E f \in Flushers :
               /\ flusher[f] = Off
               /\ scheduled' = TRUE
               /\ flusher' = [flusher EXCEPT ![f] = [pc |-> "reserve"]]
    /\ work' = [work EXCEPT ![w] = Off]
    /\ UNCHANGED <<clock, ver, backlog, queue, writing, batch, db, faults, crashes,
                   written, lost>>

(* ------------------- flush_persist_backlog_until_idle --------------------- *)

Move(f, pc) == flusher' = [flusher EXCEPT ![f] = [pc |-> pc]]

\* A reserved permit takes a place in the channel.
Reserve(f) ==
    /\ flusher[f].pc = "reserve" /\ Free > 0
    /\ Move(f, "pop")
    /\ UNCHANGED <<clock, ver, work, backlog, scheduled, queue, writing, batch, db,
                   faults, crashes, written, lost>>

\* The backlog lock is released before the permit is used.
Pop(f) ==
    /\ flusher[f].pc = "pop"
    /\ BacklogFree
    /\ IF backlog = {}
       THEN Move(f, "clear") /\ UNCHANGED backlog
       ELSE \E i \in Oldest(backlog) :
               /\ backlog' = backlog \ {i}
               /\ flusher' = [flusher EXCEPT ![f] = [pc |-> "send", item |-> i]]
    /\ UNCHANGED <<clock, ver, work, scheduled, queue, writing, batch, db, faults,
                   crashes, written, lost>>

SendPopped(f) ==
    /\ flusher[f].pc = "send"
    /\ queue' = Append(queue, flusher[f].item)
    /\ Move(f, "reserve")
    /\ UNCHANGED <<clock, ver, work, backlog, scheduled, writing, batch, db, faults,
                   crashes, written, lost>>

Clear(f) ==
    /\ flusher[f].pc = "clear"
    /\ scheduled' = FALSE
    /\ Move(f, "look")
    /\ UNCHANGED <<clock, ver, work, backlog, queue, writing, batch, db, faults,
                   crashes, written, lost>>

\* The second look, after the flag is down, is what a late enqueue relies on.
AfterLook_Off == "off" \* mutant
AfterLook == IF backlog = {} THEN "off" ELSE "cas"

Look(f) ==
    /\ flusher[f].pc = "look"
    /\ BacklogFree
    /\ Move(f, AfterLook)
    /\ UNCHANGED <<clock, ver, work, backlog, scheduled, queue, writing, batch, db,
                   faults, crashes, written, lost>>

AfterCas_Always == "reserve" \* mutant
AfterCas == IF scheduled THEN "off" ELSE "reserve"

Cas(f) ==
    /\ flusher[f].pc = "cas"
    /\ scheduled' = TRUE
    /\ Move(f, AfterCas)
    /\ UNCHANGED <<clock, ver, work, backlog, queue, writing, batch, db, faults,
                   crashes, written, lost>>

(* ------------------------------ the writer -------------------------------- *)

BatchHasRoom_OneMore == Len(batch) <= BatchMax \* mutant
BatchHasRoom == Len(batch) < BatchMax

Receive ==
    /\ ~writing /\ queue # <<>> /\ BatchHasRoom
    /\ batch' = Append(batch, Head(queue))
    /\ queue' = Tail(queue)
    /\ UNCHANGED <<clock, ver, work, backlog, scheduled, flusher, writing, db, faults,
                   crashes, written, lost>>

StopReceiving ==
    /\ ~writing /\ batch # <<>>
    /\ queue = <<>> \/ Len(batch) = BatchMax
    /\ writing' = TRUE
    /\ UNCHANGED <<clock, ver, work, backlog, scheduled, flusher, queue, batch, db,
                   faults, crashes, written, lost>>

Versions(p) == {batch[n].ver : n \in {m \in DOMAIN batch : batch[m].provider = p}}

\* insert_batch_once keeps the last item of each provider in the batch.
RowAfter(p) ==
    LET I == {m \in DOMAIN batch : batch[m].provider = p}
    IN IF I = {} THEN db[p] ELSE batch[CHOOSE n \in I : \A m \in I : m <= n].ver

Commit ==
    /\ writing
    /\ db' = [p \in Providers |-> RowAfter(p)]
    /\ written' = [p \in Providers |->
                      IF \E v \in Versions(p) : v > written[p]
                      THEN CHOOSE v \in Versions(p) : \A u \in Versions(p) : u <= v
                      ELSE written[p]]
    /\ batch' = <<>> /\ writing' = FALSE
    /\ UNCHANGED <<clock, ver, work, backlog, scheduled, flusher, queue, faults,
                   crashes, lost>>

\* The retries of a busy database run out, or the error is another one.
DropBatch ==
    /\ writing /\ faults < MaxFaults
    /\ faults' = faults + 1
    /\ lost' = lost \cup ToSet(batch)
    /\ batch' = <<>> /\ writing' = FALSE
    /\ UNCHANGED <<clock, ver, work, backlog, scheduled, flusher, queue, db, crashes,
                   written>>

(* ----------------------------- environment -------------------------------- *)

Tick ==
    /\ clock < MaxClock
    /\ clock' = clock + 1
    /\ UNCHANGED <<ver, work, backlog, scheduled, flusher, queue, writing, batch, db,
                   faults, crashes, written, lost>>

\* Memory is gone; the next breaker starts from the rows.
Crash ==
    /\ crashes < MaxCrashes
    /\ crashes' = crashes + 1
    /\ ver' = db /\ written' = db /\ lost' = {}
    /\ work' = [w \in Workers |-> Off]
    /\ backlog' = {} /\ scheduled' = FALSE
    /\ flusher' = [f \in Flushers |-> Off]
    /\ queue' = <<>> /\ writing' = FALSE /\ batch' = <<>>
    /\ UNCHANGED <<clock, db, faults>>

TryPersist(w) == FlushOne(w) \/ TrySend(w) \/ Enqueue(w) \/ Schedule(w)
Flush(f) == Reserve(f) \/ Pop(f) \/ SendPopped(f) \/ Clear(f) \/ Look(f) \/ Cas(f)
Writer == Receive \/ StopReceiving \/ Commit \/ DropBatch

Next ==
    \/ \E w \in Workers : (\E p \in Providers : Record(w, p)) \/ TryPersist(w)
    \/ \E f \in Flushers : Flush(f)
    \/ Writer \/ Tick \/ Crash

Spec == Init /\ [][Next]_vars

\* Threads and tasks that can run do run; states and crashes need not come.
Fairness ==
    /\ \A w \in Workers : WF_vars(TryPersist(w))
    /\ \A f \in Flushers : WF_vars(Flush(f))
    /\ WF_vars(Writer)

FairSpec == Spec /\ Fairness

------------------------------------------------------------------------------

\* The flag stands for one flusher in its loop, never for two of them
\* (circuit_breaker.rs:73, :585), and no wakeup is lost: while items wait in the
\* backlog a flusher is in its loop or still has to look again, or a worker
\* still has to schedule one (circuit_breaker.rs:67-81).
OneFlusherAttends ==
    /\ scheduled <=> \E f \in Flushers : Running(f)
    /\ \A f, g \in Flushers : Running(f) /\ Running(g) => f = g
    /\ backlog # {} =>
        \/ scheduled
        \/ \E f \in Flushers : flusher[f].pc \in {"look", "cas"}
        \/ \E w \in Workers : At(w, "schedule")

\* The backlog empties without another state change
\* (tests.rs:313: "background flush should not require another circuit update").
BacklogDrains == backlog # {} ~> backlog = {}

InHand(i) ==
    \/ i \in backlog \/ i \in ToSet(queue) \/ i \in ToSet(batch) \/ i \in lost
    \/ \E w \in Workers : Carrying(w) /\ work[w].item = i
    \/ \E f \in Flushers : flusher[f].pc = "send" /\ flusher[f].item = i

\* The newest state of a provider whose calls follow one another is written at some
\* time unless it is evicted or the database refuses it: the backlog
\* replaces older states only (circuit_breaker.rs:572).
NewestIsWritten ==
    \A p \in Sequential :
        \/ written[p] = ver[p]
        \/ \E a \in 0 .. clock : InHand([provider |-> p, ver |-> ver[p], at |-> a])

==============================================================================
