-------------------------- MODULE RequestEnd_proofs --------------------------
(* What RequestEnd.tla keeps for any requests, any room in the channel, in the  *)
(* batch, for tasks and for writes past the channel: its types, that nothing of *)
(* a request is forgotten, and that it implements RequestLedger.tla.            *)
EXTENDS RequestEnd, FiniteSetTheorems, SequenceTheorems, WellFoundedInduction, TLAPS

LogGood == LogType /\ IsFiniteSet(tasks) /\ IsFiniteSet(direct)

\* What a record of an end that may still be written is known to say.
RecordKnown ==
    \A e \in InFlight : e.says \in Outcomes =>
        /\ req[e.id].pc = "done"
        /\ ended[e.id] # <<>> /\ e.says = Last(ended[e.id])

\* The same of a row.
RowKnown ==
    \A r \in Requests : rows[r] \in Outcomes =>
        /\ req[r].pc = "done"
        /\ ended[r] # <<>> /\ rows[r] = Last(ended[r])

\* A request in the hands of its handler or its stream has no end; one whose
\* record waits for its place has one.
EndsKnown ==
    \A r \in Requests :
        /\ req[r].pc \in {"ending", "refusing"} =>
               req[r].says \in Outcomes /\ ended[r] = <<req[r].says>>
        /\ req[r].pc \notin {"ending", "refusing", "done"} => ended[r] = <<>>

\* The guard is armed when the request is entered, and before the first await
\* that follows.
Guarded ==
    \A r \in Requests :
        /\ req[r].pc \in {"idle", "chain", "refusing"} => ~req[r].armed
        /\ req[r].pc = "seeding" => req[r].armed

\* The inductive invariant.
IInv ==
    /\ TypeOK /\ IsFiniteSet(tasks) /\ IsFiniteSet(direct)
    /\ RecordKnown /\ RowKnown /\ EndsKnown
    /\ Guarded /\ NothingForgotten

(* ------------------------------ the table --------------------------------- *)

Below == {ss \in Nat \X Nat : ss[1] < ss[2]}

LEMMA BelowWF == IsWellFoundedOn(Below, Nat)
  BY NatLessThanWellFounded DEF OpToRel, Below

\* A nonempty set of the indices of a sequence has a greatest one.
LEMMA GreatestIndex ==
    ASSUME NEW n \in Nat, NEW S \in SUBSET (1..n), S # {}
    PROVE  \E i \in S : \A j \in S : j <= i
  <1> DEFINE T == {n - i : i \in S}
  <1>1. \A i \in S : i \in Int /\ n - i \in Nat OBVIOUS
  <1>2. T \subseteq Nat /\ T # {} BY <1>1
  <1>3. PICK x \in T : \A y \in T : ~(<<y, x>> \in Below)
    <2> HIDE DEF T
    <2> QED BY <1>2, BelowWF, WFMin
  <1>4. PICK i \in S : x = n - i BY DEF T
  <1>5. ASSUME NEW j \in S PROVE j <= i
    <2>1. n - j \in T /\ ~(<<n - j, x>> \in Below) BY <1>3
    <2>2. ~(n - j < x) BY <2>1, <1>2 DEF Below
    <2> QED BY <2>2, <1>4
  <1> QED BY <1>5

\* The last end of r in the batch is one of the batch's records.
LEMMA LastEndFound ==
    ASSUME LogType, NEW r \in Requests,
           \E e \in ToSet(batch) : e.id = r /\ e.says # "pending"
    PROVE  /\ batch[LastEnd(r)].says \in Outcomes
           /\ Says(r, batch[LastEnd(r)].says) \in ToSet(batch)
  <1> DEFINE S == {i \in 1..Len(batch) : batch[i].id = r /\ batch[i].says # "pending"}
  <1>1. batch \in Seq(Record) BY DEF LogType
  <1>2. Len(batch) \in Nat /\ DOMAIN batch = 1..Len(batch) BY <1>1
  <1>3. S \in SUBSET (1..Len(batch)) /\ S # {} BY <1>2 DEF ToSet
  <1>4. \E i \in S : \A j \in S : j <= i
    <2> HIDE DEF S
    <2> QED BY <1>2, <1>3, GreatestIndex
  <1>5. /\ LastEnd(r) \in DOMAIN batch
        /\ batch[LastEnd(r)].id = r /\ batch[LastEnd(r)].says # "pending"
    BY <1>2, <1>4 DEF LastEnd
  <1>6. batch[LastEnd(r)] \in Record /\ batch[LastEnd(r)] \in ToSet(batch)
    BY <1>1, <1>2, <1>5 DEF ToSet
  <1>7. batch[LastEnd(r)] = [id |-> r, says |-> batch[LastEnd(r)].says]
    BY <1>5, <1>6 DEF Record
  <1> QED BY <1>5, <1>6, <1>7 DEF Record, Says

\* What becomes of a row: nothing, "pending" unless it has its end, or an end that
\* was on its way.
RowStep(r) ==
    \/ rows'[r] = rows[r]
    \/ rows'[r] = "pending" /\ rows[r] \notin Terminal /\ Says(r, "pending") \in InFlight
    \/ rows'[r] \in Outcomes /\ Says(r, rows'[r]) \in InFlight

\* What becomes of the record of an end: it stays on its way, it is dropped, or
\* the row has an end.
RecordStep(e) ==
    \/ e \in InFlight' \cup lost'
    \/ rows'[e.id] \in Outcomes

LEMMA WrittenRow ==
    ASSUME LogType, NEW r \in Requests
    PROVE  /\ Written(r) \in Terminal \cup {"none", "pending"}
           /\ \/ Written(r) = rows[r]
              \/ /\ Written(r) = "pending" /\ rows[r] \notin Terminal
                 /\ Says(r, "pending") \in ToSet(batch)
              \/ Written(r) \in Outcomes /\ Says(r, Written(r)) \in ToSet(batch)
           /\ (\E e \in ToSet(batch) : e.id = r /\ e.says # "pending")
                  => Written(r) \in Outcomes
  <1>1. CASE \E e \in ToSet(batch) : e.id = r /\ e.says # "pending"
    <2>1. Written(r) = batch[LastEnd(r)].says BY <1>1 DEF Written
    <2> QED BY <1>1, <2>1, LastEndFound DEF Terminal
  <1>2. CASE ~\E e \in ToSet(batch) : e.id = r /\ e.says # "pending"
    <2>1. rows[r] \in Terminal \cup {"none", "pending"} BY DEF LogType
    <2> QED BY <1>2, <2>1 DEF Written, Upsert, Says
  <1> QED BY <1>1, <1>2

(* ------------------------ the way of a record ----------------------------- *)

\* A record is offered: its task is over, or it never had one.
LEMMA Delivered ==
    ASSUME LogGood, NEW e \in Record, Deliver(e), UNCHANGED <<batch, rows>>,
           tasks' = tasks \/ tasks' = tasks \ {e}
    PROVE  /\ LogGood'
           /\ InFlight' \subseteq InFlight \cup {e}
           /\ InFlight \cup lost \cup {e} \subseteq InFlight' \cup lost'
  <1> USE LimitAssumption DEF LogGood, LogType
  <1>1. IsFiniteSet(tasks') /\ Cardinality(tasks') <= MaxTasks /\ tasks' \subseteq tasks
    <2>1. tasks' \subseteq tasks OBVIOUS
    <2>2. IsFiniteSet(tasks) /\ Cardinality(tasks) <= MaxTasks OBVIOUS
    <2>3. IsFiniteSet(tasks') /\ Cardinality(tasks') <= Cardinality(tasks)
      BY <2>1, <2>2, FS_Subset
    <2>4. Cardinality(tasks) \in Nat /\ Cardinality(tasks') \in Nat
      BY <2>2, <2>3, FS_CardinalityType
    <2> QED BY <2>1, <2>2, <2>3, <2>4
  <1>2. tasks \cup {e} \subseteq tasks' \cup {e} OBVIOUS
  <1>3. CASE Accept(e)
    <2>1. /\ queue' = Append(queue, e) /\ Len(queue) < QueueCap
          /\ direct' = direct /\ lost' = lost
      BY <1>3 DEF Accept
    <2>2. queue' \in Seq(Record) /\ Len(queue') = Len(queue) + 1
      BY <2>1
    <2>3. ToSet(queue') = ToSet(queue) \cup {e}
      <3>1. DOMAIN queue' = DOMAIN queue \cup {Len(queue) + 1}
        BY <2>1, <2>2
      <3>2. \A i \in DOMAIN queue : queue'[i] = queue[i]
        BY <2>1
      <3>3. queue'[Len(queue) + 1] = e BY <2>1
      <3> QED BY <3>1, <3>2, <3>3 DEF ToSet
    <2>4. Len(queue') <= QueueCap BY <2>1, <2>2
    <2>5. LogGood' BY <1>1, <2>1, <2>2, <2>4
    <2> QED BY <1>1, <1>2, <2>1, <2>3, <2>5 DEF InFlight
  <1>4. CASE Overflow(e) /\ direct' = direct \cup {e} /\ Cardinality(direct) < MaxDirect
             /\ UNCHANGED <<queue, lost>>
    <2>1. IsFiniteSet(direct') /\ Cardinality(direct') <= MaxDirect
      <3>1. /\ IsFiniteSet(direct \cup {e})
            /\ \/ Cardinality(direct \cup {e}) = Cardinality(direct)
               \/ Cardinality(direct \cup {e}) = Cardinality(direct) + 1
        BY FS_AddElement
      <3>2. Cardinality(direct) \in Nat BY FS_CardinalityType
      <3> QED BY <1>4, <3>1, <3>2
    <2>2. LogGood' BY <1>1, <1>4, <2>1
    <2> QED BY <1>1, <1>2, <1>4, <2>2 DEF InFlight
  <1>5. CASE lost' = lost \cup {e} /\ UNCHANGED <<queue, direct>>
    <2>1. LogGood' BY <1>1, <1>5
    <2> QED BY <1>1, <1>2, <1>5, <2>1 DEF InFlight
  <1> QED BY <1>3, <1>4, <1>5 DEF Deliver, Overflow, WriteThrough, Drop

LEMMA Spawned ==
    ASSUME LogGood, NEW e \in Record, Spawn(e), UNCHANGED <<batch, rows>>
    PROVE  /\ LogGood'
           /\ InFlight' \subseteq InFlight \cup {e}
           /\ InFlight \cup lost \cup {e} \subseteq InFlight' \cup lost'
  <1>1. CASE Cardinality(tasks) < MaxTasks
    <2>1. tasks' = tasks \cup {e} /\ UNCHANGED <<queue, direct, lost>>
      BY <1>1 DEF Spawn
    <2>2. IsFiniteSet(tasks') /\ Cardinality(tasks') <= MaxTasks
      <3>1. /\ IsFiniteSet(tasks \cup {e})
            /\ \/ Cardinality(tasks \cup {e}) = Cardinality(tasks)
               \/ Cardinality(tasks \cup {e}) = Cardinality(tasks) + 1
        BY FS_AddElement DEF LogGood
      <3>2. Cardinality(tasks) \in Nat BY FS_CardinalityType DEF LogGood
      <3> QED BY <1>1, <2>1, <3>1, <3>2, LimitAssumption
    <2>3. LogGood' BY <2>1, <2>2 DEF LogGood, LogType
    <2> QED BY <2>1, <2>3 DEF InFlight
  <1>2. CASE ~(Cardinality(tasks) < MaxTasks)
    BY <1>2, Delivered DEF Spawn
  <1> QED BY <1>1, <1>2

LEMMA Collected ==
    ASSUME LogGood, Collect
    PROVE  LogGood' /\ InFlight' = InFlight
  <1> DEFINE n == IF Len(queue) < BatchMax THEN Len(queue) ELSE BatchMax
  <1>0. /\ queue \in Seq(Record) /\ Len(queue) \in Nat /\ Len(queue) <= QueueCap
        /\ BatchMax \in Nat /\ QueueCap \in Nat
    BY LimitAssumption DEF LogGood, LogType
  <1>1. n \in 0..Len(queue) /\ n <= BatchMax BY <1>0
  <1>2. /\ batch = <<>> /\ UNCHANGED <<tasks, direct, rows, lost>>
        /\ batch' = SubSeq(queue, 1, n) /\ queue' = SubSeq(queue, n + 1, Len(queue))
    BY DEF Collect
  <1> HIDE DEF n
  <1>3. /\ batch' \in Seq(Record) /\ Len(batch') = n
        /\ \A i \in 1..n : batch'[i] = queue[i]
    BY <1>0, <1>1, <1>2
  <1>4. /\ queue' \in Seq(Record) /\ Len(queue') = Len(queue) - n
        /\ \A i \in 1..(Len(queue) - n) : queue'[i] = queue[n + i]
    BY <1>0, <1>1, <1>2
  <1>5. ToSet(queue) = ToSet(batch') \cup ToSet(queue')
    <2>1. ASSUME NEW i \in 1..Len(queue)
          PROVE  queue[i] \in ToSet(batch') \cup ToSet(queue')
      <3>1. CASE i <= n
        <4>1. i \in DOMAIN batch' /\ batch'[i] = queue[i] BY <1>1, <1>3, <3>1
        <4> QED BY <4>1 DEF ToSet
      <3>2. CASE ~(i <= n)
        <4>1. i - n \in 1..(Len(queue) - n) /\ n + (i - n) = i BY <1>0, <1>1, <3>2
        <4>2. i - n \in DOMAIN queue' /\ queue'[i - n] = queue[i] BY <1>4, <4>1
        <4> QED BY <4>2 DEF ToSet
      <3> QED BY <3>1, <3>2
    <2>2. ToSet(batch') \subseteq ToSet(queue)
      BY <1>0, <1>1, <1>3 DEF ToSet
    <2>3. ToSet(queue') \subseteq ToSet(queue)
      <3>1. \A i \in 1..(Len(queue) - n) : n + i \in DOMAIN queue BY <1>0, <1>1
      <3> QED BY <1>4, <3>1 DEF ToSet
    <2>4. \A e \in ToSet(queue) : \E i \in 1..Len(queue) : e = queue[i]
      BY <1>0 DEF ToSet
    <2> QED BY <2>1, <2>2, <2>3, <2>4
  <1>6. ToSet(batch) = {} BY <1>2 DEF ToSet
  <1>7. LogGood' BY <1>0, <1>1, <1>2, <1>3, <1>4 DEF LogGood, LogType
  <1> QED BY <1>2, <1>5, <1>6, <1>7 DEF InFlight

\* What one step of the tasks and writers does to a record and a row.
LEMMA LogStep ==
    ASSUME LogGood, LogNext
    PROVE  /\ LogGood' /\ InFlight' \subseteq InFlight /\ lost \subseteq lost'
           /\ \A r \in Requests : RowStep(r)
           /\ \A e \in InFlight : e.says \in Outcomes => RecordStep(e)
  <1>1. ASSUME NEW e \in tasks, RunTask(e)
        PROVE  /\ LogGood' /\ InFlight' \subseteq InFlight
               /\ InFlight \cup lost \subseteq InFlight' \cup lost'
               /\ lost \subseteq lost' /\ rows' = rows
    <2>1. e \in Record /\ Deliver(e) /\ tasks' = tasks \ {e} /\ UNCHANGED <<batch, rows>>
      BY <1>1 DEF RunTask, LogGood, LogType
    <2>2. /\ LogGood' /\ InFlight' \subseteq InFlight \cup {e}
          /\ InFlight \cup lost \cup {e} \subseteq InFlight' \cup lost'
      BY <2>1, Delivered
    <2>3. e \in InFlight BY DEF InFlight
    <2>4. lost \subseteq lost'
      BY <2>1 DEF Deliver, Accept, Overflow, WriteThrough, Drop
    <2> QED BY <2>1, <2>2, <2>3, <2>4
  <1>2. ASSUME Collect
        PROVE  LogGood' /\ InFlight' = InFlight /\ lost' = lost /\ rows' = rows
    BY <1>2, Collected DEF Collect
  <1>3. CASE WriteBatch
    <2>1. /\ rows' = [r \in Requests |-> Written(r)] /\ batch' = <<>>
          /\ UNCHANGED <<tasks, queue, direct, lost>>
      BY <1>3 DEF WriteBatch
    <2>2. ToSet(batch) \subseteq InFlight BY DEF InFlight
    <2>3. \A r \in Requests : RowStep(r)
      BY <2>1, <2>2, WrittenRow DEF RowStep, LogGood
    <2>4. rows' \in [Requests -> Terminal \cup {"none", "pending"}]
      BY <2>1, WrittenRow DEF LogGood
    <2>5. ToSet(batch') = {} BY <2>1 DEF ToSet
    <2>6. InFlight' = tasks \cup direct \cup ToSet(queue)
      BY <2>1, <2>5 DEF InFlight
    <2>7. ASSUME NEW e \in InFlight, e.says \in Outcomes PROVE RecordStep(e)
      <3>1. CASE e \in ToSet(batch)
        <4>1. e \in Record
          BY <3>1, <1>3 DEF LogGood, LogType, ToSet, WriteBatch
        <4>2. e.id \in Requests /\ e.says # "pending"
          BY <4>1, <2>7 DEF Record, Outcomes
        <4>3. Written(e.id) \in Outcomes
          BY <3>1, <4>2, WrittenRow DEF LogGood
        <4> QED BY <2>1, <4>2, <4>3 DEF RecordStep
      <3>2. CASE e \notin ToSet(batch)
        BY <3>2, <2>6 DEF RecordStep, InFlight
      <3> QED BY <3>1, <3>2
    <2>8. LogGood'
      <3>1. batch' \in Seq(Record) /\ Len(batch') = 0 BY <2>1
      <3> QED BY <2>1, <2>4, <3>1, LimitAssumption DEF LogGood, LogType
    <2> QED BY <2>1, <2>3, <2>6, <2>7, <2>8 DEF InFlight
  <1>4. CASE LoseBatch
    <2>1. /\ lost' = lost \cup ToSet(batch) /\ batch' = <<>>
          /\ UNCHANGED <<tasks, queue, direct, rows>>
      BY <1>4 DEF LoseBatch
    <2>2. ToSet(batch') = {} BY <2>1 DEF ToSet
    <2>3. LogGood'
      <3>1. batch' \in Seq(Record) /\ Len(batch') = 0 BY <2>1
      <3>2. ToSet(batch) \subseteq Record BY DEF LogGood, LogType, ToSet
      <3> QED BY <2>1, <3>1, <3>2, LimitAssumption DEF LogGood, LogType
    <2>4. InFlight' \subseteq InFlight /\ InFlight \subseteq InFlight' \cup lost'
      BY <2>1, <2>2 DEF InFlight
    <2> QED BY <2>1, <2>3, <2>4 DEF RowStep, RecordStep
  <1>5. ASSUME NEW e \in direct, WriteDirect(e)
        PROVE  /\ LogGood' /\ InFlight' \subseteq InFlight /\ lost \subseteq lost'
               /\ \A r \in Requests : RowStep(r)
               /\ \A f \in InFlight : f.says \in Outcomes => RecordStep(f)
    <2>1. /\ direct' = direct \ {e} /\ UNCHANGED <<tasks, queue, batch>>
          /\ \/ rows' = [rows EXCEPT ![e.id] = Upsert(@, e.says)] /\ lost' = lost
             \/ lost' = lost \cup {e} /\ rows' = rows
      BY <1>5 DEF WriteDirect
    <2>2. /\ e \in Record /\ e.id \in Requests /\ e.says \in Outcomes \cup {"pending"}
          /\ e = Says(e.id, e.says) /\ e \in InFlight
      BY DEF LogGood, LogType, Record, Says, InFlight
    <2>3. rows \in [Requests -> Terminal \cup {"none", "pending"}]
      BY DEF LogGood, LogType
    <2>4. IsFiniteSet(direct') /\ Cardinality(direct') <= MaxDirect
      <3>1. direct' \subseteq direct BY <2>1
      <3>2. IsFiniteSet(direct) /\ Cardinality(direct) <= MaxDirect
        BY DEF LogGood, LogType
      <3>3. IsFiniteSet(direct') /\ Cardinality(direct') <= Cardinality(direct)
        BY <3>1, <3>2, FS_Subset
      <3>4. Cardinality(direct) \in Nat /\ Cardinality(direct') \in Nat
        BY <3>2, <3>3, FS_CardinalityType
      <3> QED BY <3>2, <3>3, <3>4, LimitAssumption
    <2>5. LogGood'
      <3>1. rows' \in [Requests -> Terminal \cup {"none", "pending"}]
        BY <2>1, <2>2, <2>3 DEF Upsert, Terminal
      <3>2. lost' \subseteq Record /\ direct' \subseteq Record
        BY <2>1, <2>2 DEF LogGood, LogType
      <3> QED BY <2>1, <2>4, <3>1, <3>2 DEF LogGood, LogType
    <2>6. InFlight' \subseteq InFlight /\ InFlight \subseteq InFlight' \cup {e}
      BY <2>1 DEF InFlight
    <2>7. ASSUME NEW r \in Requests PROVE RowStep(r)
      BY <2>1, <2>2, <2>3 DEF RowStep, Upsert, Terminal, Outcomes
    <2>8. ASSUME NEW f \in InFlight, f.says \in Outcomes PROVE RecordStep(f)
      <3>1. CASE f = e
        <4>1. CASE lost' = lost \cup {e} BY <3>1, <4>1 DEF RecordStep
        <4>2. CASE rows' = [rows EXCEPT ![e.id] = Upsert(@, e.says)]
          BY <2>2, <2>3, <2>8, <3>1, <4>2 DEF RecordStep, Upsert, Outcomes
        <4> QED BY <2>1, <4>1, <4>2
      <3>2. CASE f # e BY <2>6, <3>2 DEF RecordStep
      <3> QED BY <3>1, <3>2
    <2> QED BY <2>1, <2>5, <2>6, <2>7, <2>8
  <1>6. ASSUME NEW e \in tasks, RunTask(e)
        PROVE  (\A r \in Requests : RowStep(r)) /\ (\A f \in InFlight : RecordStep(f))
    BY <1>1, <1>6 DEF RowStep, RecordStep
  <1>7. ASSUME Collect
        PROVE  (\A r \in Requests : RowStep(r)) /\ (\A f \in InFlight : RecordStep(f))
    BY <1>2, <1>7 DEF RowStep, RecordStep
  <1> QED BY <1>1, <1>2, <1>3, <1>4, <1>5, <1>6, <1>7 DEF LogNext

(* ---------------------- the steps of a request ---------------------------- *)

LEMMA InFlightRecords ==
    ASSUME LogType
    PROVE  InFlight \subseteq Record
  <1>1. ToSet(queue) \subseteq Record /\ ToSet(batch) \subseteq Record
    BY DEF LogType, ToSet
  <1> QED BY <1>1 DEF LogType, InFlight

\* The records of ends that are on their way are those of other requests.
LEMMA OthersInFlight ==
    ASSUME IInv, NEW r \in Requests, req[r].pc # "done",
           NEW e \in InFlight, e.says \in Outcomes
    PROVE  e.id \in Requests /\ e.id # r
  <1>1. e \in Record BY InFlightRecords DEF IInv, TypeOK
  <1>2. req[e.id].pc = "done" BY DEF IInv, RecordKnown
  <1> QED BY <1>1, <1>2 DEF Record

\* Somebody will remove an entry, and somebody will end a pending row, unless a hook
\* has ended the request.
Attended(r) ==
    req[r].pc # "unended" =>
        /\ r \in active => req[r].pc \in Streaming \/ (req[r].armed /\ req[r].pc # "ending")
        /\ rows[r] = "pending" \/ Says(r, "pending") \in InFlight =>
            \/ req[r].armed \/ req[r].pc \in Streaming
            \/ rows[r] \in Terminal
            \/ \E o \in Outcomes : Says(r, o) \in InFlight \cup lost

LEMMA AllAttended ==
    ASSUME active \subseteq Requests
    PROVE  NothingForgotten <=> \A r \in Requests : Attended(r)
  BY DEF NothingForgotten, Attended

LEMMA AllAttendedNext ==
    ASSUME active' \subseteq Requests, \A r \in Requests : Attended(r)'
    PROVE  NothingForgotten'
  BY DEF NothingForgotten, Attended

Published == [Ledger!Next]_<<ended, rows>>

\* The request moves on, and nothing is stated.
LEMMA QuietStep ==
    ASSUME IInv, NEW r \in Requests, NEW q \in Request,
           Set(r, q), NoLog, ended' = ended,
           active' = active \/ active' = active \cup {r},
           q.pc \notin {"idle", "ending", "refusing", "done"},
           req[r].pc \notin {"ending", "refusing", "unended", "done"},
           q.pc = "seeding" => q.armed, q.pc = "chain" => ~q.armed,
           q.armed \/ q.pc \in Streaming \cup {"unended"}
                   \/ (~req[r].armed /\ req[r].pc \notin Streaming /\ active' = active)
    PROVE  IInv' /\ Published
  <1>1. UNCHANGED <<tasks, queue, batch, direct, rows, lost, server>>
    BY DEF NoLog, logVars
  <1>2. InFlight' = InFlight BY <1>1 DEF InFlight
  <1>3. req' = [req EXCEPT ![r] = q] /\ req \in [Requests -> Request]
        /\ active \subseteq Requests
    BY DEF Set, IInv, TypeOK
  <1>4. req'[r] = q /\ \A s \in Requests \ {r} : req'[s] = req[s] BY <1>3
  <1>5. TypeOK' BY <1>1, <1>3 DEF IInv, TypeOK, LogType
  <1>6. RecordKnown'
    <2>1. ASSUME NEW e \in InFlight, e.says \in Outcomes
          PROVE  e.id \in Requests /\ e.id # r
      BY <2>1, OthersInFlight
    <2> QED BY <1>2, <1>4, <2>1 DEF IInv, RecordKnown
  <1>7. RowKnown' /\ EndsKnown' /\ Guarded'
    BY <1>1, <1>4 DEF IInv, RowKnown, EndsKnown, Guarded
  <1>8. \A s \in Requests : Attended(s)
    BY <1>3, AllAttended DEF IInv
  <1>9. ASSUME NEW s \in Requests PROVE Attended(s)'
    <2>1. CASE s = r BY <1>1, <1>2, <1>4, <1>8, <2>1 DEF Attended, Streaming
    <2>2. CASE s # r BY <1>1, <1>2, <1>4, <1>8, <2>2 DEF Attended, Streaming
    <2> QED BY <2>1, <2>2
  <1>10. NothingForgotten' BY <1>3, <1>9, AllAttendedNext
  <1> QED BY <1>1, <1>5, <1>6, <1>7, <1>10 DEF IInv, Published

\* The end is published, and its record waits for its place.
LEMMA StateStep ==
    ASSUME IInv, NEW r \in Requests, NEW q \in Request, NEW o \in Outcomes,
           Set(r, q), State(r, o), NoLog,
           q.pc \in {"ending", "refusing"}, q.says = o, q.armed = req[r].armed,
           q.pc = "refusing" => req[r].pc = "chain",
           req[r].pc \notin {"ending", "refusing", "unended", "done"} \cup Streaming
    PROVE  IInv' /\ Published
  <1>1. UNCHANGED <<tasks, queue, batch, direct, rows, lost, server>>
    BY DEF NoLog, logVars
  <1>2. InFlight' = InFlight BY <1>1 DEF InFlight
  <1>3. /\ req' = [req EXCEPT ![r] = q] /\ req \in [Requests -> Request]
        /\ active \subseteq Requests /\ ended \in [Requests -> Seq(Outcomes)]
        /\ active' = active \ {r} /\ ended' = [ended EXCEPT ![r] = Append(@, o)]
    BY DEF Set, State, IInv, TypeOK
  <1>4. /\ req'[r] = q /\ \A s \in Requests \ {r} : req'[s] = req[s]
        /\ \A s \in Requests \ {r} : ended'[s] = ended[s]
    BY <1>3
  <1>5. ended[r] = <<>> BY DEF IInv, EndsKnown
  <1>6. ended'[r] = <<o>> /\ ended'[r] \in Seq(Outcomes) BY <1>3, <1>5
  <1>7. TypeOK' BY <1>1, <1>3 DEF IInv, TypeOK, LogType
  <1>8. RecordKnown'
    <2>1. ASSUME NEW e \in InFlight, e.says \in Outcomes
          PROVE  e.id \in Requests /\ e.id # r
      BY <2>1, OthersInFlight
    <2> QED BY <1>2, <1>4, <2>1 DEF IInv, RecordKnown
  <1>9. RowKnown' /\ EndsKnown' /\ Guarded'
    BY <1>1, <1>4, <1>6 DEF IInv, RowKnown, EndsKnown, Guarded
  <1>10. \A s \in Requests : Attended(s)
    BY <1>3, AllAttended DEF IInv
  <1>11. ASSUME NEW s \in Requests PROVE Attended(s)'
    <2>1. CASE s = r BY <1>1, <1>2, <1>3, <1>4, <1>10, <2>1 DEF Attended, Streaming
    <2>2. CASE s # r BY <1>1, <1>2, <1>3, <1>4, <1>10, <2>2 DEF Attended, Streaming
    <2> QED BY <2>1, <2>2
  <1>12. NothingForgotten' BY <1>3, <1>11, AllAttendedNext
  <1>13. Ledger!Publish(r, o)
    <2>1. rows[r] \notin Outcomes BY DEF IInv, RowKnown
    <2> QED BY <1>1, <1>3, <1>5, <2>1 DEF Ledger!Publish
  <1> QED BY <1>1, <1>7, <1>8, <1>9, <1>12, <1>13 DEF IInv, Published, Ledger!Next

\* The end is published and its record is on its way.
LEMMA EndStep ==
    ASSUME IInv, NEW r \in Requests, NEW o \in Outcomes,
           Done(r), EndWith(r, o), NoWrite,
           req[r].pc # "done",
           req[r].pc \in {"ending", "refusing"} => o = "aborted"
    PROVE  IInv' /\ Published
  <1> DEFINE q == [Idle EXCEPT !.pc = "done", !.says = req[r].says]
             e == Says(r, o)
  <1>1. UNCHANGED <<batch, rows, server>> BY DEF NoWrite
  <1>2. /\ req' = [req EXCEPT ![r] = q] /\ req \in [Requests -> Request]
        /\ active \subseteq Requests /\ ended \in [Requests -> Seq(Outcomes)]
        /\ active' = active \ {r} /\ ended' = [ended EXCEPT ![r] = Append(@, o)]
        /\ LogGood /\ Spawn(e)
    BY DEF Done, Set, EndWith, State, IInv, TypeOK, LogGood
  <1>3. e \in Record BY DEF Says, Record
  <1>4. q \in Request /\ q.pc = "done"
    BY <1>2 DEF Request, Idle
  <1>5. /\ LogGood' /\ InFlight' \subseteq InFlight \cup {e}
        /\ InFlight \cup lost \cup {e} \subseteq InFlight' \cup lost'
    BY <1>1, <1>2, <1>3, Spawned
  <1> HIDE DEF q
  <1>6. /\ req'[r] = q /\ \A s \in Requests \ {r} : req'[s] = req[s]
        /\ ended'[r] = Append(ended[r], o)
        /\ \A s \in Requests \ {r} : ended'[s] = ended[s]
    BY <1>2
  <1>7. ended'[r] # <<>> /\ Last(ended'[r]) = o /\ ended'[r] \in Seq(Outcomes)
    <2>1. ended[r] \in Seq(Outcomes) BY <1>2
    <2> QED BY <1>6, <2>1 DEF Last
  <1>8. TypeOK' BY <1>1, <1>2, <1>4, <1>5, <1>7 DEF IInv, TypeOK, LogGood
  <1>9. RecordKnown'
    <2>1. ASSUME NEW f \in InFlight, f.says \in Outcomes
          PROVE  f.id \in Requests /\ f.id # r
      BY <2>1, OthersInFlight
    <2>2. e.id = r /\ e.says = o BY DEF Says
    <2> QED BY <1>4, <1>5, <1>6, <1>7, <2>1, <2>2 DEF IInv, RecordKnown
  <1>10. RowKnown' /\ EndsKnown' /\ Guarded'
    <2>1. rows[r] \notin Outcomes BY DEF IInv, RowKnown
    <2> QED BY <1>1, <1>4, <1>6, <2>1 DEF IInv, RowKnown, EndsKnown, Guarded
  <1>11. \A s \in Requests : Attended(s)
    BY <1>2, AllAttended DEF IInv
  <1>12. ASSUME NEW s \in Requests PROVE Attended(s)'
    <2>1. CASE s = r BY <1>2, <1>5, <2>1 DEF Attended
    <2>2. CASE s # r
      <3>1. Says(s, "pending") \in InFlight' => Says(s, "pending") \in InFlight
        BY <1>5, <2>2 DEF Says
      <3>2. s \in active' => s \in active BY <1>2
      <3> QED BY <1>1, <1>5, <1>6, <1>11, <2>2, <3>1, <3>2 DEF Attended, Streaming
    <2> QED BY <2>1, <2>2
  <1>13. NothingForgotten' BY <1>2, <1>12, AllAttendedNext
  <1>14. Ledger!Publish(r, o)
    <2>1. rows[r] \notin Outcomes BY DEF IInv, RowKnown
    <2>2. CASE req[r].pc \in {"ending", "refusing"}
      <3>1. ended[r] = <<req[r].says>> BY <2>2 DEF IInv, EndsKnown
      <3>2. Len(ended[r]) = 1 /\ o = "aborted" BY <2>2, <3>1
      <3> QED BY <1>1, <1>2, <2>1, <3>2 DEF Ledger!Publish
    <2>3. CASE req[r].pc \notin {"ending", "refusing"}
      BY <1>1, <1>2, <2>1, <2>3 DEF Ledger!Publish, IInv, EndsKnown
    <2> QED BY <2>2, <2>3
  <1> QED BY <1>1, <1>5, <1>8, <1>9, <1>10, <1>13, <1>14
           DEF IInv, Published, Ledger!Next, LogGood

\* A record takes its place: the placeholder of a running handler, or the end that
\* its handler has stated.
LEMMA DeliverStep ==
    ASSUME IInv, NEW r \in Requests, NEW q \in Request, NEW e \in Record,
           Set(r, q), Deliver(e), NoWrite, UNCHANGED <<tasks, active, ended>>,
           e.id = r,
           \/ req[r].pc = "seeding" /\ e.says = "pending" /\ q.pc = "running" /\ q.armed
           \/ /\ req[r].pc \in {"ending", "refusing"} /\ e.says = req[r].says
              /\ q.pc = "done"
    PROVE  IInv' /\ Published
  <1>1. /\ UNCHANGED <<batch, rows, server>> /\ LogGood
        /\ req' = [req EXCEPT ![r] = q] /\ req \in [Requests -> Request]
        /\ active \subseteq Requests
    BY DEF NoWrite, Set, IInv, TypeOK, LogGood
  <1>2. /\ LogGood' /\ InFlight' \subseteq InFlight \cup {e}
        /\ InFlight \cup lost \cup {e} \subseteq InFlight' \cup lost'
    BY <1>1, Delivered
  <1>3. req'[r] = q /\ \A s \in Requests \ {r} : req'[s] = req[s] BY <1>1
  <1>4. TypeOK' BY <1>1, <1>2 DEF IInv, TypeOK, LogGood
  <1>5. e.says # "pending" =>
            e.says \in Outcomes /\ ended[r] # <<>> /\ e.says = Last(ended[r])
    <2>1. CASE req[r].pc = "seeding" BY <2>1
    <2>2. CASE req[r].pc \in {"ending", "refusing"}
      <3>1. ended[r] = <<req[r].says>> /\ req[r].says \in Outcomes /\ e.says = req[r].says
        BY <2>2 DEF IInv, EndsKnown
      <3> QED BY <3>1 DEF Last
    <2> QED BY <2>1, <2>2
  <1>6. RecordKnown'
    <2>1. ASSUME NEW f \in InFlight, f.says \in Outcomes
          PROVE  f.id \in Requests /\ f.id # r
      BY <2>1, OthersInFlight
    <2>2. e.says \in Outcomes => req'[r].pc = "done" BY <1>3 DEF Outcomes
    <2>3. e.says \in Outcomes => e.says # "pending" BY DEF Outcomes
    <2> QED BY <1>2, <1>3, <1>5, <2>1, <2>2, <2>3 DEF IInv, RecordKnown
  <1>7. RowKnown' /\ EndsKnown' /\ Guarded'
    <2>1. rows[r] \notin Outcomes BY DEF IInv, RowKnown
    <2> QED BY <1>1, <1>3, <2>1 DEF IInv, RowKnown, EndsKnown, Guarded
  <1>8. \A s \in Requests : Attended(s)
    BY <1>1, AllAttended DEF IInv
  <1>9. ASSUME NEW s \in Requests PROVE Attended(s)'
    <2>1. CASE s = r /\ req[r].pc = "seeding"
      BY <1>3, <2>1 DEF Attended
    <2>2. CASE s = r /\ req[r].pc \in {"ending", "refusing"}
      <3>1. e = Says(r, e.says) BY DEF Says, Record
      <3>2. e.says \in Outcomes
        BY <2>2, <1>5 DEF IInv, EndsKnown
      <3>3. r \notin active
        BY <2>2, <1>8 DEF Attended, Streaming, IInv, Guarded
      <3> QED BY <1>1, <1>2, <2>2, <3>1, <3>2, <3>3 DEF Attended
    <2>3. CASE s # r
      <3>1. Says(s, "pending") \in InFlight' => Says(s, "pending") \in InFlight
        BY <1>2, <2>3 DEF Says
      <3> QED BY <1>1, <1>2, <1>3, <1>8, <2>3, <3>1 DEF Attended, Streaming
    <2> QED BY <2>1, <2>2, <2>3
  <1>10. NothingForgotten' BY <1>1, <1>9, AllAttendedNext
  <1> QED BY <1>1, <1>2, <1>4, <1>6, <1>7, <1>10 DEF IInv, Published, LogGood

\* The future of a handler without a guard is dropped, and a record that it holds.
LEMMA DroppedStep ==
    ASSUME IInv, NEW r \in Requests,
           Cancel(r), ~req[r].armed
    PROVE  IInv' /\ Published
  <1> DEFINE q == [Idle EXCEPT !.pc = "done", !.says = req[r].says]
  <1>1. /\ UNCHANGED <<tasks, queue, batch, direct, rows, server, active, ended>>
        /\ lost' = lost \cup Held(r)
        /\ req' = [req EXCEPT ![r] = q] /\ req \in [Requests -> Request]
        /\ active \subseteq Requests
        /\ req[r].pc \in {"chain", "refusing", "seeding", "running", "ending"}
    BY DEF Cancel, Done, Set, NoWrite, IInv, TypeOK
  <1>2. q \in Request /\ q.pc = "done" BY <1>1 DEF Request, Idle
  <1> HIDE DEF q
  <1>3. req'[r] = q /\ \A s \in Requests \ {r} : req'[s] = req[s] BY <1>1
  <1>4. InFlight' = InFlight /\ lost \subseteq lost' BY <1>1 DEF InFlight
  <1>5. Held(r) \subseteq Record
    BY DEF Held, Says, Record, IInv, EndsKnown
  <1>6. TypeOK'
    BY <1>1, <1>2, <1>5 DEF IInv, TypeOK, LogType
  <1>7. RecordKnown'
    <2>1. ASSUME NEW f \in InFlight, f.says \in Outcomes
          PROVE  f.id \in Requests /\ f.id # r
      BY <2>1, <1>1, OthersInFlight
    <2> QED BY <1>1, <1>3, <1>4, <2>1 DEF IInv, RecordKnown
  <1>8. RowKnown' /\ EndsKnown' /\ Guarded'
    BY <1>1, <1>2, <1>3 DEF IInv, RowKnown, EndsKnown, Guarded
  <1>9. \A s \in Requests : Attended(s)
    BY <1>1, AllAttended DEF IInv
  <1>10. ASSUME NEW s \in Requests PROVE Attended(s)'
    <2>1. CASE s = r BY <1>1, <1>4, <1>9, <2>1 DEF Attended, Streaming
    <2>2. CASE s # r BY <1>1, <1>3, <1>4, <1>9, <2>2 DEF Attended, Streaming
    <2> QED BY <2>1, <2>2
  <1>11. NothingForgotten' BY <1>1, <1>10, AllAttendedNext
  <1> QED BY <1>1, <1>6, <1>7, <1>8, <1>11 DEF IInv, Published

LEMMA RequestStep ==
    ASSUME IInv, NEW r \in Requests, Step(r)
    PROVE  IInv' /\ Published
  <1>0. /\ req[r] \in Request /\ Idle \in Request
        /\ req \in [Requests -> Request]
    BY DEF IInv, TypeOK, Request, Idle
  <1>1. CASE Arrive(r)
    <2> DEFINE q == [Idle EXCEPT !.pc = "chain"]
    <2>1. q \in Request /\ q.pc = "chain" /\ ~q.armed BY DEF Request, Idle
    <2>2. ~req[r].armed BY <1>1 DEF Arrive, IInv, Guarded
    <2>3. /\ Set(r, q) /\ NoLog /\ UNCHANGED <<active, ended>> /\ req[r].pc = "idle"
      BY <1>1 DEF Arrive
    <2> HIDE DEF q
    <2> QED BY <2>1, <2>2, <2>3, QuietStep DEF Streaming
  <1>2. CASE Refuse(r)
    <2> DEFINE q == [req[r] EXCEPT !.pc = "refusing", !.says = "failed"]
    <2>1. /\ q \in Request /\ q.pc = "refusing" /\ q.says = "failed"
          /\ q.armed = req[r].armed /\ "failed" \in Outcomes
      BY <1>0 DEF Request, Outcomes
    <2>2. Set(r, q) /\ State(r, "failed") /\ NoLog /\ req[r].pc = "chain"
      BY <1>2 DEF Refuse
    <2> HIDE DEF q
    <2> QED BY <2>1, <2>2, StateStep DEF Streaming
  <1>3. CASE RefuseAtOnce(r)
    BY <1>3, EndStep DEF RefuseAtOnce, Outcomes
  <1>4. CASE Enter(r)
    <2>1. PICK seed \in BOOLEAN : Set(r, Entered(seed))
      BY <1>4 DEF Enter
    <2>2. /\ Entered(seed) \in Request /\ Entered(seed).armed
          /\ Entered(seed).pc \in {"seeding", "running"}
      BY DEF Entered, Request, Idle
    <2>3. /\ NoLog /\ ended' = ended /\ req[r].pc = "chain"
          /\ active' = active \/ active' = active \cup {r}
      BY <1>4 DEF Enter
    <2> QED BY <2>1, <2>2, <2>3, QuietStep
  <1>5. CASE Seed(r)
    <2> DEFINE q == [req[r] EXCEPT !.pc = "running"]
    <2>1. /\ Set(r, q) /\ Deliver(Says(r, "pending")) /\ NoWrite
          /\ UNCHANGED <<tasks, active, ended>> /\ req[r].pc = "seeding"
      BY <1>5 DEF Seed
    <2>2. q \in Request /\ q.pc = "running" /\ q.armed
      BY <1>0, <2>1 DEF Request, IInv, Guarded
    <2>3. /\ Says(r, "pending") \in Record /\ Says(r, "pending").id = r
          /\ Says(r, "pending").says = "pending"
      BY DEF Says, Record
    <2> HIDE DEF q
    <2> QED BY <2>1, <2>2, <2>3, DeliverStep
  <1>6. CASE Answer(r)
    <2>1. PICK o \in {"ok", "failed"} :
            State(r, o) /\ Set(r, [req[r] EXCEPT !.pc = "ending", !.says = o])
      BY <1>6 DEF Answer
    <2> DEFINE q == [req[r] EXCEPT !.pc = "ending", !.says = o]
    <2>2. /\ q \in Request /\ q.pc = "ending" /\ q.says = o
          /\ q.armed = req[r].armed /\ o \in Outcomes
      BY <1>0 DEF Request, Outcomes
    <2>3. NoLog /\ req[r].pc = "running" BY <1>6 DEF Answer
    <2>4. Set(r, q) BY <2>1
    <2> HIDE DEF q
    <2> QED BY <2>1, <2>2, <2>3, <2>4, StateStep DEF Streaming
  <1>7. CASE Log(r)
    <2> DEFINE q == [Idle EXCEPT !.pc = "done", !.says = req[r].says]
               e == Says(r, req[r].says)
    <2>1. /\ Set(r, q) /\ Deliver(e) /\ NoWrite
          /\ UNCHANGED <<tasks, active, ended>> /\ req[r].pc \in {"ending", "refusing"}
      BY <1>7 DEF Log, Done
    <2>2. q \in Request /\ q.pc = "done" BY <1>0 DEF Request, Idle
    <2>3. e \in Record /\ e.id = r /\ e.says = req[r].says
      BY <2>1 DEF Says, Record, IInv, EndsKnown
    <2> HIDE DEF q, e
    <2> QED BY <2>1, <2>2, <2>3, DeliverStep
  <1>8. CASE Block(r)
    BY <1>8, EndStep DEF Block, Outcomes
  <1>9. CASE Open(r)
    <2>1. PICK kind \in {"tee", "body", "relay"} : Set(r, Opened(req[r], kind))
      BY <1>9 DEF Open
    <2>2. Opened(req[r], kind) \in Request /\ Opened(req[r], kind).pc = kind
      BY <1>0 DEF Opened, Request, Streaming
    <2>3. NoLog /\ UNCHANGED <<active, ended>> /\ req[r].pc = "running"
      BY <1>9 DEF Open
    <2> QED BY <2>1, <2>2, <2>3, QuietStep DEF Streaming
  <1>10. CASE Cancel(r) /\ req[r].armed
    BY <1>10, EndStep DEF Cancel, Outcomes
  <1>11. CASE Cancel(r) /\ ~req[r].armed
    BY <1>11, DroppedStep
  <1>12. CASE Chunk(r)
    <2>1. PICK mark \in Marks :
            /\ req[r].pc \in Streaming
            /\ \/ Done(r) /\ Finalize(r, "failed")
               \/ /\ Set(r, [req[r] EXCEPT !.seen = req[r].seen \cup {"output", mark}])
                  /\ NoLog /\ UNCHANGED <<active, ended>>
      BY <1>12 DEF Chunk
    <2>2. CASE Done(r) /\ Finalize(r, "failed")
      BY <2>1, <2>2, EndStep DEF Finalize, Outcomes, Streaming
    <2>3. CASE /\ Set(r, [req[r] EXCEPT !.seen = req[r].seen \cup {"output", mark}])
               /\ NoLog /\ UNCHANGED <<active, ended>>
      <3> DEFINE q == [req[r] EXCEPT !.seen = req[r].seen \cup {"output", mark}]
      <3>1. q \in Request /\ q.pc = req[r].pc
        BY <1>0 DEF Request, Marks
      <3>2. Set(r, q) BY <2>3
      <3> HIDE DEF q
      <3> QED BY <2>1, <2>3, <3>1, <3>2, QuietStep DEF Streaming
    <2> QED BY <2>1, <2>2, <2>3
  <1>13. ASSUME NEW o \in Outcomes, req[r].pc \in Streaming, Close(r, o)
         PROVE  IInv' /\ Published
    BY <1>13, EndStep DEF Close, Finalize, Streaming
  <1>14. CASE UpstreamEnds(r)
    <2>1. EndVerdict(req[r]) \in Outcomes BY DEF EndVerdict, Outcomes
    <2> QED BY <1>13, <1>14, <2>1 DEF UpstreamEnds
  <1>15. CASE UpstreamFails(r)
    <2>1. "ok" \in Outcomes /\ "failed" \in Outcomes BY DEF Outcomes
    <2> QED BY <1>13, <1>15, <2>1 DEF UpstreamFails
  <1>16. CASE Timeout(r)
    BY <1>13, <1>16 DEF Timeout, Outcomes, Streaming
  <1>17. CASE ClientLeaves(r)
    <2>1. CASE req[r].pc = "tee" /\ Close(r, "aborted")
      BY <1>13, <2>1 DEF Outcomes, Streaming
    <2>2. CASE /\ req[r].pc = "relay"
               /\ Set(r, [req[r] EXCEPT !.pc = "drain"])
               /\ NoLog /\ UNCHANGED <<active, ended>>
      <3> DEFINE q == [req[r] EXCEPT !.pc = "drain"]
      <3>1. q \in Request /\ q.pc = "drain" BY <1>0 DEF Request, Streaming
      <3>2. Set(r, q) BY <2>2
      <3> HIDE DEF q
      <3> QED BY <2>2, <3>1, <3>2, QuietStep DEF Streaming
    <2>3. CASE /\ req[r].pc = "body"
               /\ \E codex \in BOOLEAN : Close(r, DropVerdict(req[r], codex))
      <3>1. PICK codex \in BOOLEAN : Close(r, DropVerdict(req[r], codex))
        BY <2>3
      <3>2. DropVerdict(req[r], codex) \in Outcomes
        BY DEF DropVerdict, EndVerdict, Outcomes
      <3> QED BY <1>13, <2>3, <3>1, <3>2 DEF Streaming
    <2> QED BY <1>17, <2>1, <2>2, <2>3 DEF ClientLeaves
  <1>18. CASE HookEnds(r)
    <2> DEFINE q == [Idle EXCEPT !.pc = "unended"]
    <2>1. q \in Request /\ q.pc = "unended" BY DEF Request, Idle
    <2>2. /\ Set(r, q) /\ NoLog /\ UNCHANGED <<active, ended>> /\ req[r].pc = "running"
      BY <1>18 DEF HookEnds
    <2> HIDE DEF q
    <2> QED BY <2>1, <2>2, QuietStep
  <1>19. CASE StopDrain(r)
    <2>1. "ok" \in Outcomes /\ "aborted" \in Outcomes BY DEF Outcomes
    <2> QED BY <1>13, <1>19, <2>1 DEF StopDrain, Streaming
  <1> QED BY <1>1, <1>2, <1>3, <1>4, <1>5, <1>6, <1>7, <1>8, <1>9, <1>10, <1>11,
             <1>12, <1>14, <1>15, <1>16, <1>17, <1>18, <1>19 DEF Step

(* ----------------- the writers, the gateway, the process ------------------ *)

\* Rows that get the end that was stated last, or nothing new.
LEMMA WriteStep ==
    ASSUME TypeOK, TypeOK', ended' = ended,
           \A r \in Requests :
               \/ rows'[r] = rows[r]
               \/ rows'[r] = "pending" /\ rows[r] = "none"
               \/ rows'[r] = "interrupted" /\ rows[r] = "pending"
               \/ /\ rows'[r] \in Outcomes /\ rows[r] \notin Outcomes
                  /\ ended[r] # <<>> /\ rows'[r] = Last(ended[r])
    PROVE  Published
  <1>1. rows' \in [Requests -> Outcomes \cup {"none", "pending", "interrupted"}]
    BY DEF TypeOK, LogType, Terminal
  <1>2. \A r \in Requests : Ledger!Writes(r, rows'[r])
    BY DEF Ledger!Writes, Ledger!Last, Last
  <1>3. Ledger!Write BY <1>1, <1>2 DEF Ledger!Write
  <1> QED BY <1>3 DEF Published, Ledger!Next

LEMMA WritersStep ==
    ASSUME IInv, LogNext, UNCHANGED <<server, active, req, ended>>
    PROVE  IInv' /\ Published
  <1>0. LogGood /\ active \subseteq Requests BY DEF IInv, TypeOK, LogGood
  <1>1. /\ LogGood' /\ InFlight' \subseteq InFlight /\ lost \subseteq lost'
        /\ \A r \in Requests : RowStep(r)
        /\ \A e \in InFlight : e.says \in Outcomes => RecordStep(e)
    BY <1>0, LogStep
  <1>2. TypeOK' BY <1>1 DEF IInv, TypeOK, LogGood
  <1>3. RecordKnown' BY <1>1 DEF IInv, RecordKnown
  <1>4. \A r \in Requests, o \in Outcomes : Says(r, o) \in InFlight =>
            req[r].pc = "done" /\ ended[r] # <<>> /\ o = Last(ended[r])
    BY DEF Says, IInv, RecordKnown
  <1>5. RowKnown'
    <2>1. ASSUME NEW r \in Requests, rows'[r] \in Outcomes
          PROVE  req[r].pc = "done" /\ ended[r] # <<>> /\ rows'[r] = Last(ended[r])
      <3>1. RowStep(r) /\ "pending" \notin Outcomes BY <1>1 DEF Outcomes
      <3> QED BY <1>4, <2>1, <3>1 DEF RowStep, IInv, RowKnown
    <2> QED BY <2>1 DEF RowKnown
  <1>6. EndsKnown' /\ Guarded' BY DEF IInv, EndsKnown, Guarded
  <1>7. \A s \in Requests : Attended(s)
    BY <1>0, AllAttended DEF IInv
  <1>8. ASSUME NEW s \in Requests PROVE Attended(s)'
    <2>1. Attended(s) /\ req'[s] = req[s] /\ active' = active BY <1>7
    <2>2. RowStep(s) BY <1>1
    <2>3. rows[s] \in Terminal => rows'[s] \in Terminal
      BY <2>2 DEF RowStep, Terminal
    <2>4. ASSUME NEW o \in Outcomes, Says(s, o) \in InFlight
          PROVE  Says(s, o) \in InFlight' \cup lost' \/ rows'[s] \in Terminal
      <3>1. RecordStep(Says(s, o)) /\ Says(s, o).id = s
        BY <1>1, <2>4 DEF Says
      <3> QED BY <3>1 DEF RecordStep, Terminal
    <2>5. rows'[s] = "pending" => rows[s] = "pending" \/ Says(s, "pending") \in InFlight
      BY <2>2 DEF RowStep, Outcomes
    <2> QED BY <1>1, <2>1, <2>3, <2>4, <2>5 DEF Attended, Streaming
  <1>9. NothingForgotten' BY <1>0, <1>8, AllAttendedNext
  <1>10. Published
    <2>1. ASSUME NEW r \in Requests
          PROVE  \/ rows'[r] = rows[r]
                 \/ rows'[r] = "pending" /\ rows[r] = "none"
                 \/ rows'[r] = "interrupted" /\ rows[r] = "pending"
                 \/ /\ rows'[r] \in Outcomes /\ rows[r] \notin Outcomes
                    /\ ended[r] # <<>> /\ rows'[r] = Last(ended[r])
      <3>1. RowStep(r) BY <1>1
      <3>2. rows[r] \in Terminal \cup {"none", "pending"} BY <1>0 DEF LogGood, LogType
      <3>3. CASE rows[r] \in Outcomes
        <4>1. rows'[r] # "pending" BY <3>1, <3>3 DEF RowStep, Terminal, Outcomes
        <4>2. rows[r] = Last(ended[r]) BY <3>3 DEF IInv, RowKnown
        <4> QED BY <1>4, <3>1, <4>1, <4>2 DEF RowStep
      <3>4. CASE rows[r] \notin Outcomes
        BY <1>4, <3>1, <3>2, <3>4 DEF RowStep, Terminal
      <3> QED BY <3>3, <3>4
    <2> QED BY <1>2, <2>1, WriteStep DEF IInv
  <1> QED BY <1>1, <1>2, <1>3, <1>5, <1>6, <1>9, <1>10 DEF IInv, LogGood

LEMMA ReconciledRows ==
    ASSUME TypeOK
    PROVE  /\ Reconciled \in [Requests -> Terminal \cup {"none", "pending"}]
           /\ \A r \in Requests :
                /\ Reconciled[r] = rows[r]
                   \/ (Reconciled[r] = "interrupted" /\ rows[r] = "pending")
                /\ Reconciled[r] # "pending"
                /\ Reconciled[r] \in Outcomes <=> rows[r] \in Outcomes
  BY DEF TypeOK, LogType, Reconciled, Terminal, Outcomes

LEMMA StopStep ==
    ASSUME IInv, StopGateway
    PROVE  IInv' /\ Published
  <1>1. /\ UNCHANGED <<tasks, queue, batch, direct, rows, lost, req, ended>>
        /\ server' = "stopping" /\ active' = {}
    BY DEF StopGateway, logVars
  <1>2. InFlight' = InFlight BY <1>1 DEF InFlight
  <1>3. TypeOK' BY <1>1 DEF IInv, TypeOK, LogType
  <1>4. RecordKnown' /\ RowKnown' /\ EndsKnown' /\ Guarded'
    BY <1>1, <1>2 DEF IInv, RecordKnown, RowKnown, EndsKnown, Guarded
  <1>5. NothingForgotten'
    BY <1>1, <1>2 DEF IInv, NothingForgotten
  <1> QED BY <1>1, <1>3, <1>4, <1>5 DEF IInv, Published

LEMMA ReconcileStep ==
    ASSUME IInv, ReconcileStopped
    PROVE  IInv' /\ Published
  <1>1. /\ UNCHANGED <<tasks, queue, batch, direct, lost, active, req, ended>>
        /\ server' = "stopped" /\ rows' = Reconciled
    BY DEF ReconcileStopped
  <1>2. InFlight' = InFlight BY <1>1 DEF InFlight
  <1>3. TypeOK' BY <1>1, ReconciledRows DEF IInv, TypeOK, LogType
  <1>4. RecordKnown' /\ EndsKnown' /\ Guarded'
    BY <1>1, <1>2 DEF IInv, RecordKnown, EndsKnown, Guarded
  <1>5. RowKnown'
    BY <1>1, ReconciledRows DEF IInv, RowKnown, Outcomes
  <1>6. \A s \in Requests : Attended(s)
    BY AllAttended DEF IInv, TypeOK
  <1>7. ASSUME NEW s \in Requests PROVE Attended(s)'
    BY <1>1, <1>2, <1>6, ReconciledRows DEF Attended, Streaming, Terminal, IInv
  <1>8. NothingForgotten' BY <1>1, <1>7, AllAttendedNext DEF IInv, TypeOK
  <1>9. Published BY <1>1, <1>3, ReconciledRows, WriteStep DEF IInv
  <1> QED BY <1>1, <1>3, <1>4, <1>5, <1>8, <1>9 DEF IInv

LEMMA RestartStep ==
    ASSUME IInv, Restart
    PROVE  IInv' /\ Published
  <1>1. /\ server' = "up" /\ active' = {} /\ rows' = Reconciled
        /\ lost' = lost \cup InFlight \cup UNION {Held(r) : r \in Requests}
        /\ tasks' = {} /\ queue' = <<>> /\ batch' = <<>> /\ direct' = {}
        /\ ended' = ended
        /\ req' = [r \in Requests |-> IF req[r].pc = "idle" THEN req[r]
                                      ELSE [Idle EXCEPT !.pc = "done", !.says = req[r].says]]
    BY DEF Restart
  <1>0. tasks' = {} /\ queue' = <<>> /\ batch' = <<>> /\ direct' = {}
    BY <1>1
  <1>2. InFlight' = {} BY <1>0 DEF InFlight, ToSet
  <1>3. req \in [Requests -> Request] BY DEF IInv, TypeOK
  <1>4. /\ req' \in [Requests -> Request]
        /\ \A r \in Requests : \/ req[r].pc = "idle" /\ req'[r] = req[r]
                               \/ req[r].pc # "idle" /\ req'[r].pc = "done"
    BY <1>1, <1>3 DEF Request, Idle
  <1>5. LogGood'
    <2>1. \A r \in Requests : Held(r) \subseteq Record
      BY DEF Held, Says, Record, IInv, EndsKnown
    <2>2. lost' \subseteq Record
      BY <1>1, <2>1, InFlightRecords DEF IInv, TypeOK, LogType
    <2>3. queue' \in Seq(Record) /\ Len(queue') = 0 /\ batch' \in Seq(Record) /\ Len(batch') = 0
      BY <1>0
    <2>4. IsFiniteSet(tasks') /\ IsFiniteSet(direct') /\ Cardinality(tasks') = 0
          /\ Cardinality(direct') = 0
      BY <1>0, FS_EmptySet
    <2>5. rows' \in [Requests -> Terminal \cup {"none", "pending"}]
      BY <1>1, ReconciledRows DEF IInv
    <2> QED BY <1>0, <2>2, <2>3, <2>4, <2>5, LimitAssumption DEF LogGood, LogType
  <1>6. TypeOK' BY <1>1, <1>4, <1>5 DEF IInv, TypeOK, LogGood
  <1>7. RecordKnown' BY <1>2 DEF RecordKnown
  <1>8. RowKnown'
    BY <1>1, <1>4, ReconciledRows DEF IInv, RowKnown, Outcomes
  <1>9. EndsKnown' BY <1>1, <1>4 DEF IInv, EndsKnown
  <1>10. Guarded' BY <1>4 DEF IInv, Guarded
  <1>11. ASSUME NEW s \in Requests PROVE Attended(s)'
    BY <1>1, <1>2, ReconciledRows DEF Attended, IInv
  <1>12. NothingForgotten' BY <1>1, <1>11, AllAttendedNext
  <1>13. Published BY <1>1, <1>6, ReconciledRows, WriteStep DEF IInv
  <1> QED BY <1>5, <1>6, <1>7, <1>8, <1>9, <1>10, <1>12, <1>13 DEF IInv, LogGood

(* ----------------------------- theorems ----------------------------------- *)

LEMMA InitIInv == Init => IInv
  <1> SUFFICES ASSUME Init PROVE IInv OBVIOUS
  <1>1. /\ tasks = {} /\ queue = <<>> /\ batch = <<>> /\ direct = {} /\ lost = {}
        /\ rows = [r \in Requests |-> "none"]
        /\ server = "up" /\ active = {}
        /\ req = [r \in Requests |-> Idle] /\ ended = [r \in Requests |-> <<>>]
    BY DEF Init, LogInit
  <1>2. InFlight = {} BY <1>1 DEF InFlight, ToSet
  <1>3. /\ IsFiniteSet(tasks) /\ IsFiniteSet(direct)
        /\ Cardinality(tasks) = 0 /\ Cardinality(direct) = 0
    BY <1>1, FS_EmptySet
  <1>4. LogType
    <2>1. queue \in Seq(Record) /\ Len(queue) = 0 /\ batch \in Seq(Record) /\ Len(batch) = 0
      BY <1>1
    <2> QED BY <1>1, <1>3, <2>1, LimitAssumption DEF LogType
  <1>5. TypeOK BY <1>1, <1>4 DEF TypeOK, Request, Idle
  <1>6. RecordKnown /\ RowKnown /\ EndsKnown /\ Guarded
    BY <1>1, <1>2 DEF RecordKnown, RowKnown, EndsKnown, Guarded, Idle, Outcomes
  <1>7. NothingForgotten BY <1>1, <1>2 DEF NothingForgotten
  <1> QED BY <1>3, <1>5, <1>6, <1>7 DEF IInv

LEMMA NextIInv == IInv /\ [Next]_vars => IInv' /\ Published
  <1> SUFFICES ASSUME IInv, [Next]_vars PROVE IInv' /\ Published OBVIOUS
  <1>1. CASE \E r \in Requests : Step(r) BY <1>1, RequestStep
  <1>2. CASE LogNext /\ UNCHANGED <<server, active, req, ended>> BY <1>2, WritersStep
  <1>3. CASE StopGateway BY <1>3, StopStep
  <1>4. CASE ReconcileStopped BY <1>4, ReconcileStep
  <1>5. CASE Restart BY <1>5, RestartStep
  <1>6. CASE UNCHANGED vars
    <2>1. /\ UNCHANGED <<tasks, queue, batch, direct, rows, lost>>
          /\ UNCHANGED <<server, active, req, ended>>
      BY <1>6 DEF vars
    <2>2. InFlight' = InFlight BY <2>1 DEF InFlight
    <2> QED BY <2>1, <2>2 DEF IInv, TypeOK, LogType, RecordKnown, RowKnown, EndsKnown,
                              Guarded, NothingForgotten, Published
  <1> QED BY <1>1, <1>2, <1>3, <1>4, <1>5, <1>6 DEF Next

\* The inductive invariant holds for any requests and any limits: the guard, the
\* registry, the ends that were published, the records on their way and the rows
\* fit each other.
THEOREM Inductive == Spec => []IInv
  BY InitIInv, NextIInv, PTL DEF Spec

\* The types of the handlers, streams, queue and table (RequestEnd!TypeOK): tasks
\* and writes past the channel stay within their limits.
THEOREM EndTypes == Spec => []TypeOK
  <1>1. IInv => TypeOK BY DEF IInv
  <1> QED BY <1>1, Inductive, PTL

\* An entry of the registry and a pending row have somebody who will end them, or the
\* record that would have was dropped (abort_guard.rs, logging.rs), but of a request
\* that a response.after hook ended (success_non_stream.rs:1071-1112).
THEOREM NeverForgotten == Spec => []NothingForgotten
  <1>1. IInv => NothingForgotten BY DEF IInv
  <1> QED BY <1>1, Inductive, PTL

\* The handler, the guard, the streams, the tasks, the writers and reconciliation
\* together implement RequestLedger: an end is stated once, or again as aborted
\* before it is written, and a row that has its end is never changed.
THEOREM ImplementsLedger == Spec => KeepsLedger
  <1>1. Init => Ledger!Init BY DEF Init, LogInit, Ledger!Init
  <1>2. IInv /\ [Next]_vars => [Ledger!Next]_<<ended, rows>>
    BY NextIInv DEF Published
  <1> QED BY <1>1, <1>2, Inductive, PTL DEF Spec, KeepsLedger, Ledger!Spec
=============================================================================
