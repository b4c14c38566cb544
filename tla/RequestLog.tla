----------------------------- MODULE RequestLog -----------------------------
(* The way of a request's record into the table request_logs: the tasks that   *)
(* wait for room in the bounded channel (gateway/proxy/logging.rs), the        *)
(* write-through past a full channel, the writer that takes a batch and        *)
(* upserts it in one transaction, and the reconciliation of what a stopped     *)
(* process left pending (infra/request_logs.rs).                               *)
(*                                                                             *)
(* A record is the request and what it says of it. Every handler holds a       *)
(* sender, so the channel is closed only after the last of them. A hook of a   *)
(* plugin that rewrites a record and the retention of old rows are left out.   *)
EXTENDS Integers, Sequences, FiniteSets, SequencesExt

CONSTANTS
    Requests,
    QueueCap,   \* WRITE_BUFFER_CAPACITY
    BatchMax,   \* WRITE_BATCH_MAX
    MaxTasks,   \* the permits of request_log_enqueue_task_limiter
    MaxDirect   \* WRITE_THROUGH_MAX_CONCURRENT

ASSUME LimitAssumption ==
    /\ QueueCap \in Nat \ {0} /\ BatchMax \in Nat \ {0}
    /\ MaxTasks \in Nat /\ MaxDirect \in Nat

VARIABLES
    tasks,   \* records whose task waits for room
    queue,   \* the channel
    batch,   \* what the writer has taken
    direct,  \* records that are written past the channel
    rows,    \* the table
    lost     \* history: the records that were dropped

logVars == <<tasks, queue, batch, direct, rows, lost>>

\* How a request ends. "interrupted" is what reconciliation writes.
Outcomes == {"ok", "failed", "aborted"}
Terminal == Outcomes \cup {"interrupted"}

Record == [id : Requests, says : Outcomes \cup {"pending"}]

LogType ==
    /\ tasks \subseteq Record /\ direct \subseteq Record /\ lost \subseteq Record
    /\ queue \in Seq(Record) /\ Len(queue) <= QueueCap
    /\ batch \in Seq(Record) /\ Len(batch) <= BatchMax
    /\ rows \in [Requests -> Terminal \cup {"none", "pending"}]
    /\ Cardinality(tasks) <= MaxTasks /\ Cardinality(direct) <= MaxDirect

LogInit ==
    /\ tasks = {} /\ queue = <<>> /\ batch = <<>> /\ direct = {} /\ lost = {}
    /\ rows = [r \in Requests |-> "none"]

\* The records that may still be written.
InFlight == tasks \cup direct \cup ToSet(queue) \cup ToSet(batch)

---------------------------------------------------------------------------
(* Into the channel. A step is what happens once the wait is over.           *)

Accept(e) ==
    /\ Len(queue) < QueueCap
    /\ queue' = Append(queue, e)
    /\ UNCHANGED <<direct, lost>>

Drop(e) ==
    /\ lost' = lost \cup {e}
    /\ UNCHANGED <<queue, direct>>

WriteThrough(e) ==
    IF Cardinality(direct) < MaxDirect
    THEN direct' = direct \cup {e} /\ UNCHANGED <<queue, lost>>
    ELSE Drop(e)

Important(e) == e.says \in {"failed", "aborted"}

\* A second has room for 50 important records, a placeholder needs none.
Overflow(e) ==
    /\ Len(queue) = QueueCap
    /\ \/ (e.says = "pending" \/ Important(e)) /\ WriteThrough(e)
       \/ e.says # "pending" /\ Drop(e)

Deliver(e) == Accept(e) \/ Overflow(e)

\* mutant: a task for every record
Spawn_Unbounded(e) == tasks' = tasks \cup {e} /\ UNCHANGED <<queue, direct, lost>>

\* Without a permit the record is offered at once.
Spawn(e) ==
    IF Cardinality(tasks) < MaxTasks
    THEN tasks' = tasks \cup {e} /\ UNCHANGED <<queue, direct, lost>>
    ELSE Deliver(e) /\ UNCHANGED tasks

RunTask(e) ==
    /\ e \in tasks
    /\ Deliver(e)
    /\ tasks' = tasks \ {e}
    /\ UNCHANGED <<batch, rows>>

---------------------------------------------------------------------------
(* Into the table.                                                           *)

Upsert(row, says) == IF row \in Terminal /\ says = "pending" THEN row ELSE says

\* mutant: the writer waits until a batch is full
Collect_Full ==
    /\ batch = <<>> /\ Len(queue) >= BatchMax
    /\ batch' = SubSeq(queue, 1, BatchMax)
    /\ queue' = SubSeq(queue, BatchMax + 1, Len(queue))
    /\ UNCHANGED <<tasks, direct, rows, lost>>

\* The writer blocks for the first record and takes what else is there.
Collect ==
    LET n == IF Len(queue) < BatchMax THEN Len(queue) ELSE BatchMax IN
    /\ batch = <<>> /\ queue # <<>>
    /\ batch' = SubSeq(queue, 1, n)
    /\ queue' = SubSeq(queue, n + 1, Len(queue))
    /\ UNCHANGED <<tasks, direct, rows, lost>>

\* The last word of the batch on r: its last record that ends it.
LastEnd(r) ==
    CHOOSE i \in DOMAIN batch :
        /\ batch[i].id = r /\ batch[i].says # "pending"
        /\ \A j \in DOMAIN batch : batch[j].id = r /\ batch[j].says # "pending" => j <= i

Written(r) ==
    IF \E e \in ToSet(batch) : e.id = r /\ e.says # "pending" THEN batch[LastEnd(r)].says
    ELSE IF [id |-> r, says |-> "pending"] \in ToSet(batch) THEN Upsert(rows[r], "pending")
    ELSE rows[r]

WriteBatch ==
    /\ batch # <<>>
    /\ rows' = [r \in Requests |-> Written(r)]
    /\ batch' = <<>>
    /\ UNCHANGED <<tasks, queue, direct, lost>>

\* The transaction fails, for good or at every retry.
LoseBatch ==
    /\ batch # <<>>
    /\ lost' = lost \cup ToSet(batch)
    /\ batch' = <<>>
    /\ UNCHANGED <<tasks, queue, direct, rows>>

WriteDirect(e) ==
    /\ e \in direct
    /\ direct' = direct \ {e}
    /\ \/ rows' = [rows EXCEPT ![e.id] = Upsert(@, e.says)] /\ UNCHANGED lost
       \/ lost' = lost \cup {e} /\ UNCHANGED rows
    /\ UNCHANGED <<tasks, queue, batch>>

\* reconcile_unresolved_pending
Reconciled == [r \in Requests |-> IF rows[r] = "pending" THEN "interrupted" ELSE rows[r]]

LogNext ==
    \/ \E e \in tasks : RunTask(e)
    \/ Collect \/ WriteBatch \/ LoseBatch
    \/ \E e \in direct : WriteDirect(e)

\* A task waits for a bounded time, and the writers are threads of their own.
LogFairness ==
    /\ \A e \in Record : WF_logVars(RunTask(e)) /\ WF_logVars(WriteDirect(e))
    /\ WF_logVars(Collect) /\ WF_logVars(WriteBatch \/ LoseBatch)
=============================================================================
