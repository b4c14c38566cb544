------------------------ MODULE CircuitPersist_proofs ------------------------
(* What the persistence of circuit states keeps for any workers, providers,     *)
(* flushers, limits and numbers of faults and crashes: the limits of channel,   *)
(* backlog and batch, that no wakeup of the flusher is lost, and that the newest *)
(* state of a provider whose calls follow one another is not passed over.       *)
EXTENDS CircuitPersist, FiniteSetTheorems, SequenceTheorems, WellFoundedInduction, TLAPS

Loaded == [pc : {"flush", "flushing", "send", "enqueue"}, item : Item]
Popped == [pc : {"send"}, item : Item]

\* The items that are somewhere between their worker and the database.
Handed ==
    backlog \cup ToSet(queue) \cup ToSet(batch) \cup lost
    \cup {work[w].item : w \in {v \in Workers : Carrying(v)}}
    \cup {flusher[f].item : f \in {g \in Flushers : flusher[g].pc = "send"}}

\* No item is newer than its provider's state, and the one a worker carries for a
\* sequential provider is its newest.
VersionsKnown ==
    /\ \A i \in Handed : i.ver <= ver[i.provider] /\ i.at <= clock
    /\ \A p \in Providers : written[p] <= ver[p]
    /\ \A w \in Workers :
          Carrying(w) /\ work[w].item.provider \in Sequential =>
              work[w].item.ver = ver[work[w].item.provider]

\* The newest state of a sequential provider is written, or somewhere on its way.
NewestKnown ==
    \A p \in Sequential :
        \/ written[p] = ver[p]
        \/ \E i \in Handed : i.provider = p /\ i.ver = ver[p]

\* The inductive invariant.
IInv ==
    /\ TypeOK /\ IsFiniteSet(backlog)
    /\ OneFlusherAttends
    /\ VersionsKnown
    /\ NewestKnown

-------------------------------------------------------------------------------
\* A step may take an item away if it leaves one as new.
LEMMA ItemsShrink ==
    ASSUME IInv, UNCHANGED <<clock, ver, written>>, Handed' \subseteq Handed,
           \A w \in Workers : Carrying(w)' => Carrying(w) /\ work'[w].item = work[w].item,
           \A i \in Handed \ Handed' : i.provider \in Sequential /\ i.ver = ver[i.provider] =>
               \E j \in Handed' : j.provider = i.provider /\ j.ver = i.ver
    PROVE  VersionsKnown' /\ NewestKnown'
  <1>1. VersionsKnown' BY DEF IInv, VersionsKnown
  <1>2. NewestKnown'
    <2> SUFFICES ASSUME NEW p \in Sequential, written[p] # ver[p]
                 PROVE  \E i \in Handed' : i.provider = p /\ i.ver = ver[p]
      BY DEF NewestKnown
    <2>1. PICK i \in Handed : i.provider = p /\ i.ver = ver[p] BY DEF IInv, NewestKnown
    <2> QED BY <2>1
  <1> QED BY <1>1, <1>2

LEMMA ItemsStay ==
    ASSUME IInv, UNCHANGED <<clock, ver, written>>, Handed' = Handed,
           \A w \in Workers : Carrying(w)' => Carrying(w) /\ work'[w].item = work[w].item
    PROVE  VersionsKnown' /\ NewestKnown'
  BY ItemsShrink

LEMMA LoadedKnown ==
    ASSUME TypeOK, NEW w \in Workers, Carrying(w)
    PROVE  work[w] \in Loaded
  BY DEF TypeOK, WorkState, Off, Carrying, Loaded

LEMMA PoppedKnown ==
    ASSUME TypeOK, NEW f \in Flushers, flusher[f].pc = "send"
    PROVE  flusher[f] \in Popped
  BY DEF TypeOK, FlushState, Popped

LEMMA HandedItems ==
    ASSUME TypeOK
    PROVE  Handed \subseteq Item
  <1>1. ToSet(queue) \subseteq Item /\ ToSet(batch) \subseteq Item
    BY DEF TypeOK, ToSet
  <1>2. \A w \in Workers : Carrying(w) => work[w].item \in Item
    BY LoadedKnown DEF Loaded
  <1>3. \A f \in Flushers : flusher[f].pc = "send" => flusher[f].item \in Item
    BY PoppedKnown DEF Popped
  <1> QED BY <1>1, <1>2, <1>3 DEF Handed, TypeOK

LEMMA PermitsKnown ==
    ASSUME TypeOK
    PROVE  /\ IsFiniteSet({f \in Flushers : flusher[f].pc \in {"pop", "send"}})
           /\ Permits \in Nat /\ Len(queue) \in Nat /\ Free \in Nat
  <1>1. IsFiniteSet(Flushers) BY CapsAssumption
  <1>2. IsFiniteSet({f \in Flushers : flusher[f].pc \in {"pop", "send"}})
    BY <1>1, FS_Subset
  <1>3. Permits \in Nat BY <1>2, FS_CardinalityType DEF Permits
  <1>4. Len(queue) \in Nat /\ QueueCap \in Nat BY CapsAssumption DEF TypeOK
  <1> QED BY <1>2, <1>3, <1>4 DEF Free, TypeOK

LEMMA Appended ==
    ASSUME NEW q \in Seq(Item), NEW i \in Item
    PROVE  /\ Append(q, i) \in Seq(Item) /\ Len(Append(q, i)) = Len(q) + 1
           /\ ToSet(Append(q, i)) = ToSet(q) \cup {i}
  <1>1. /\ Append(q, i) \in Seq(Item) /\ Len(Append(q, i)) = Len(q) + 1
        /\ \A n \in 1..Len(q) : Append(q, i)[n] = q[n]
        /\ Append(q, i)[Len(q) + 1] = i
    BY AppendProperties
  <1>2. Len(q) \in Nat /\ DOMAIN q = 1..Len(q) BY LenProperties
  <1>3. DOMAIN Append(q, i) = 1..(Len(q) + 1) BY <1>1, LenProperties
  <1>4. ToSet(Append(q, i)) = ToSet(q) \cup {i} BY <1>1, <1>2, <1>3 DEF ToSet
  <1> QED BY <1>1, <1>4

LEMMA Taken ==
    ASSUME NEW q \in Seq(Item), q # <<>>
    PROVE  /\ Head(q) \in Item /\ Tail(q) \in Seq(Item) /\ Len(Tail(q)) = Len(q) - 1
           /\ ToSet(q) = ToSet(Tail(q)) \cup {Head(q)}
  <1>1. /\ Head(q) \in Item /\ Tail(q) \in Seq(Item) /\ Len(Tail(q)) = Len(q) - 1
        /\ \A n \in 1..Len(Tail(q)) : Tail(q)[n] = q[n + 1]
    BY HeadTailProperties
  <1>2. Len(q) \in Nat \ {0} /\ DOMAIN q = 1..Len(q) /\ Head(q) = q[1]
    BY LenProperties, EmptySeq
  <1>3. DOMAIN Tail(q) = 1..(Len(q) - 1) BY <1>1, <1>2, LenProperties
  <1>4. ASSUME NEW n \in 2..Len(q) PROVE q[n] \in ToSet(Tail(q))
    <2>1. n - 1 \in 1..(Len(q) - 1) /\ q[n] = Tail(q)[n - 1] BY <1>1, <1>2
    <2> QED BY <2>1, <1>3 DEF ToSet
  <1>5. ASSUME NEW n \in 1..(Len(q) - 1) PROVE Tail(q)[n] \in ToSet(q)
    <2>1. n + 1 \in 1..Len(q) /\ Tail(q)[n] = q[n + 1] BY <1>1, <1>2
    <2> QED BY <2>1, <1>2 DEF ToSet
  <1>6. ToSet(q) = ToSet(Tail(q)) \cup {Head(q)}
    <2>1. \A n \in 1..Len(q) : n = 1 \/ n \in 2..Len(q) BY <1>2
    <2>2. q[1] \in ToSet(q) BY <1>2 DEF ToSet
    <2>3. ToSet(q) \subseteq ToSet(Tail(q)) \cup {Head(q)}
      BY <1>2, <1>4, <2>1 DEF ToSet
    <2>4. ToSet(Tail(q)) \subseteq ToSet(q) BY <1>3, <1>5 DEF ToSet
    <2> QED BY <1>2, <2>2, <2>3, <2>4
  <1> QED BY <1>1, <1>6

-------------------------------------------------------------------------------
LEMMA LoadedTyped == Loaded \subseteq WorkState
  BY DEF Loaded, WorkState

\* A worker that goes on with its item.
LEMMA GotoTyped ==
    ASSUME TypeOK, NEW w \in Workers, Carrying(w),
           NEW pc \in {"flush", "flushing", "send", "enqueue"}, Goto(w, pc)
    PROVE  /\ work' \in [Workers -> WorkState]
           /\ \A v \in Workers \ {w} : work'[v] = work[v]
           /\ work'[w].pc = pc /\ work'[w].item = work[w].item
           /\ \A v \in Workers : /\ Carrying(v)' <=> Carrying(v)
                                 /\ Carrying(v) => work'[v].item = work[v].item
  <1> DEFINE c == [work[w] EXCEPT !.pc = pc]
  <1>1. work[w] \in Loaded BY LoadedKnown
  <1>2. c \in Loaded /\ c.pc = pc /\ c.item = work[w].item BY <1>1 DEF Loaded
  <1>3. work' = [work EXCEPT ![w] = c] BY DEF Goto
  <1>4. work \in [Workers -> WorkState] BY DEF TypeOK
  <1> HIDE DEF c
  <1>5. work' \in [Workers -> WorkState] /\ \A v \in Workers \ {w} : work'[v] = work[v]
    BY <1>2, <1>3, <1>4, LoadedTyped
  <1>6. work'[w] = c BY <1>3, <1>4
  <1> QED BY <1>2, <1>5, <1>6 DEF Carrying

\* A worker that is through.
LEMMA OffTyped ==
    ASSUME TypeOK, NEW w \in Workers, NEW c \in {Off, [pc |-> "schedule"]},
           work' = [work EXCEPT ![w] = c]
    PROVE  /\ work' \in [Workers -> WorkState]
           /\ \A v \in Workers \ {w} : work'[v] = work[v]
           /\ work'[w] = c /\ ~Carrying(w)'
           /\ \A v \in Workers : Carrying(v)' => Carrying(v) /\ v # w
  <1>1. work \in [Workers -> WorkState] BY DEF TypeOK
  <1>2. c \in WorkState BY DEF WorkState
  <1>3. c.pc \notin {"flush", "flushing", "send", "enqueue"} BY DEF Off
  <1> QED BY <1>1, <1>2, <1>3 DEF Carrying

\* While flag and flushers stay, a backlog that only shrinks stays attended, if no
\* worker drops its duty to schedule.
LEMMA AttendsStays ==
    ASSUME OneFlusherAttends, UNCHANGED <<scheduled, flusher>>, backlog' # {} => backlog # {},
           \A w \in Workers : At(w, "schedule") => At(w, "schedule")'
    PROVE  OneFlusherAttends'
  BY DEF OneFlusherAttends, Running, At

LEMMA FlushOneStep ==
    ASSUME IInv, NEW w \in Workers, FlushOne(w)
    PROVE  IInv'
  <1>1. /\ TypeOK /\ IsFiniteSet(backlog) /\ OneFlusherAttends BY DEF IInv
  <1>2. /\ Carrying(w)
        /\ UNCHANGED <<clock, ver, scheduled, flusher, writing, batch, db, faults,
                       crashes, written, lost>>
    BY DEF FlushOne, At, Carrying
  <1>3. /\ Permits' = Permits BY <1>2 DEF Permits
  <1>4. CASE Goto(w, "send") /\ UNCHANGED <<backlog, queue>>
    <2>1. /\ work' \in [Workers -> WorkState]
          /\ \A v \in Workers \ {w} : work'[v] = work[v]
          /\ work'[w].pc = "send" /\ work'[w].item = work[w].item
          /\ \A v \in Workers : /\ Carrying(v)' <=> Carrying(v)
                                /\ Carrying(v) => work'[v].item = work[v].item
      BY <1>1, <1>2, <1>4, GotoTyped
    <2>2. TypeOK' BY <1>1, <1>2, <1>3, <1>4, <2>1 DEF TypeOK
    <2>3. Handed' = Handed BY <1>2, <1>4, <2>1 DEF Handed
    <2>4. VersionsKnown' /\ NewestKnown' BY <1>2, <2>1, <2>3, ItemsStay
    <2>5. OneFlusherAttends' BY <1>1, <1>2, <1>4, <2>1, AttendsStays DEF At, Carrying
    <2> QED BY <1>1, <1>4, <2>2, <2>4, <2>5 DEF IInv
  <1>5. ASSUME NEW i \in Oldest(backlog), Free # 0, backlog' = backlog \ {i},
               queue' = Append(queue, i), Goto(w, "flushing")
        PROVE  IInv'
    <2>1. /\ work' \in [Workers -> WorkState]
          /\ \A v \in Workers \ {w} : work'[v] = work[v]
          /\ work'[w].pc = "flushing" /\ work'[w].item = work[w].item
          /\ \A v \in Workers : /\ Carrying(v)' <=> Carrying(v)
                                /\ Carrying(v) => work'[v].item = work[v].item
      BY <1>1, <1>2, <1>5, GotoTyped
    <2>2. i \in backlog /\ i \in Item BY <1>1, <1>5 DEF Oldest, TypeOK
    <2>3. /\ queue' \in Seq(Item) /\ Len(queue') = Len(queue) + 1
          /\ ToSet(queue') = ToSet(queue) \cup {i}
      BY <1>1, <1>5, <2>2, Appended DEF TypeOK
    <2>4. Len(queue') + Permits' <= QueueCap
      BY <1>1, <1>3, <1>5, <2>3, PermitsKnown, CapsAssumption DEF Free
    <2>5. IsFiniteSet(backlog') /\ Cardinality(backlog') <= Cardinality(backlog)
      BY <1>1, <1>5, FS_Subset
    <2>6. Cardinality(backlog') <= BacklogCap
      BY <1>1, <2>5, FS_CardinalityType, CapsAssumption DEF TypeOK
    <2>7. TypeOK' BY <1>1, <1>2, <1>5, <2>1, <2>3, <2>4, <2>6 DEF TypeOK
    <2>8. Handed' = Handed BY <1>2, <1>5, <2>1, <2>2, <2>3 DEF Handed
    <2>9. VersionsKnown' /\ NewestKnown' BY <1>2, <2>1, <2>8, ItemsStay
    <2>10. OneFlusherAttends'
      BY <1>1, <1>2, <1>5, <2>1, <2>2, AttendsStays DEF At, Carrying
    <2> QED BY <2>5, <2>7, <2>9, <2>10 DEF IInv
  <1> QED BY <1>4, <1>5 DEF FlushOne

LEMMA TrySendStep ==
    ASSUME IInv, NEW w \in Workers, TrySend(w)
    PROVE  IInv'
  <1>1. /\ TypeOK /\ IsFiniteSet(backlog) /\ OneFlusherAttends BY DEF IInv
  <1>2. /\ Carrying(w) /\ At(w, "send")
        /\ UNCHANGED <<clock, ver, backlog, scheduled, flusher, writing, batch, db, faults,
                       crashes, written, lost>>
    BY DEF TrySend, At, Carrying
  <1>3. /\ Permits' = Permits BY <1>2 DEF Permits
  <1>4. CASE Goto(w, "enqueue") /\ UNCHANGED queue
    <2>1. /\ work' \in [Workers -> WorkState]
          /\ \A v \in Workers \ {w} : work'[v] = work[v]
          /\ work'[w].pc = "enqueue" /\ work'[w].item = work[w].item
          /\ \A v \in Workers : /\ Carrying(v)' <=> Carrying(v)
                                /\ Carrying(v) => work'[v].item = work[v].item
      BY <1>1, <1>2, <1>4, GotoTyped
    <2>2. TypeOK' BY <1>1, <1>2, <1>3, <1>4, <2>1 DEF TypeOK
    <2>3. Handed' = Handed BY <1>2, <1>4, <2>1 DEF Handed
    <2>4. VersionsKnown' /\ NewestKnown' BY <1>2, <2>1, <2>3, ItemsStay
    <2>5. OneFlusherAttends' BY <1>1, <1>2, <1>4, <2>1, AttendsStays DEF At, Carrying
    <2> QED BY <1>1, <1>2, <2>2, <2>4, <2>5 DEF IInv
  <1>5. CASE Free > 0 /\ queue' = Append(queue, work[w].item) /\ work' = [work EXCEPT ![w] = Off]
    <2>1. /\ work' \in [Workers -> WorkState]
          /\ \A v \in Workers \ {w} : work'[v] = work[v]
          /\ work'[w] = Off /\ ~Carrying(w)'
          /\ \A v \in Workers : Carrying(v)' => Carrying(v) /\ v # w
      BY <1>1, <1>5, OffTyped
    <2>2. work[w].item \in Item BY <1>1, <1>2, LoadedKnown DEF Loaded
    <2>3. /\ queue' \in Seq(Item) /\ Len(queue') = Len(queue) + 1
          /\ ToSet(queue') = ToSet(queue) \cup {work[w].item}
      BY <1>1, <1>5, <2>2, Appended DEF TypeOK
    <2>4. Len(queue') + Permits' <= QueueCap
      BY <1>1, <1>3, <1>5, <2>3, PermitsKnown, CapsAssumption DEF Free
    <2>5. TypeOK' BY <1>1, <1>2, <1>5, <2>1, <2>3, <2>4 DEF TypeOK
    <2>6. \A v \in Workers \ {w} : Carrying(v)' <=> Carrying(v) BY <2>1 DEF Carrying
    <2>7. Handed' = Handed BY <1>2, <2>1, <2>3, <2>6 DEF Handed
    <2>8. VersionsKnown' /\ NewestKnown' BY <1>2, <2>1, <2>7, ItemsStay
    <2>9. OneFlusherAttends' BY <1>1, <1>2, <2>1, AttendsStays DEF At
    <2> QED BY <1>1, <1>2, <2>5, <2>8, <2>9 DEF IInv
  <1> QED BY <1>4, <1>5 DEF TrySend

\* At its limit the backlog gives up its oldest item, or one of the same provider.
LEMMA MergedBounded ==
    ASSUME TypeOK, IsFiniteSet(backlog), NEW i \in Item, NEW evicted \in EnqueueRoom(i)
    PROVE  /\ Merged(i, evicted) \in SUBSET Item /\ IsFiniteSet(Merged(i, evicted))
           /\ \A j, k \in Merged(i, evicted) : j.provider = k.provider => j = k
           /\ Cardinality(Merged(i, evicted)) <= BacklogCap
           /\ evicted \subseteq backlog /\ i \in Merged(i, evicted)
           /\ backlog \subseteq Merged(i, evicted) \cup evicted \cup SameProvider(backlog, i)
  <1> DEFINE rest == (backlog \ evicted) \ SameProvider(backlog, i)
  <1>1. evicted \subseteq backlog BY DEF EnqueueRoom, Oldest
  <1>2. Merged(i, evicted) = rest \cup {i} BY DEF Merged
  <1>3. backlog \in SUBSET Item /\ Cardinality(backlog) <= BacklogCap BY DEF TypeOK
  <1>4. rest \subseteq backlog /\ i \notin rest BY DEF SameProvider
  <1>5. IsFiniteSet(rest) BY <1>4, FS_Subset
  <1>6. /\ IsFiniteSet(rest \cup {i})
        /\ Cardinality(rest \cup {i}) = Cardinality(rest) + 1
    BY <1>4, <1>5, FS_AddElement
  <1>7. /\ Cardinality(rest) \in Nat /\ Cardinality(backlog) \in Nat /\ BacklogCap \in Nat
    BY <1>5, FS_CardinalityType, CapsAssumption
  <1>8. Cardinality(rest) + 1 <= BacklogCap
    <2>1. CASE Cardinality(backlog) < BacklogCap
      <3>1. Cardinality(rest) <= Cardinality(backlog) BY <1>4, FS_Subset
      <3> QED BY <2>1, <3>1, <1>7
    <2>2. CASE Cardinality(backlog) >= BacklogCap
      <3>1. PICK j \in backlog : rest \subseteq backlog \ {j}
        <4>1. CASE SameProvider(backlog, i) = {}
          <5>1. PICK j \in Oldest(backlog) : evicted = {j} BY <2>2, <4>1 DEF EnqueueRoom
          <5> QED BY <5>1 DEF Oldest
        <4>2. CASE SameProvider(backlog, i) # {}
          <5>1. PICK j \in backlog : j \in SameProvider(backlog, i) BY <4>2 DEF SameProvider
          <5> QED BY <5>1
        <4> QED BY <4>1, <4>2
      <3>2. /\ IsFiniteSet(backlog \ {j})
            /\ Cardinality(backlog \ {j}) = Cardinality(backlog) - 1
        BY FS_RemoveElement
      <3>3. Cardinality(rest) <= Cardinality(backlog \ {j}) BY <3>1, <3>2, FS_Subset
      <3> QED BY <3>2, <3>3, <1>3, <1>7
    <2> QED BY <2>1, <2>2, <1>7
  <1>9. \A j, k \in rest \cup {i} : j.provider = k.provider => j = k
    BY <1>4 DEF TypeOK, SameProvider
  <1> QED BY <1>1, <1>2, <1>3, <1>4, <1>6, <1>8, <1>9

LEMMA EnqueueStep ==
    ASSUME IInv, NEW w \in Workers, Enqueue(w)
    PROVE  IInv'
  <1> DEFINE i == work[w].item
  <1>1. TypeOK /\ IsFiniteSet(backlog) /\ OneFlusherAttends /\ VersionsKnown BY DEF IInv
  <1>2. /\ Carrying(w) /\ At(w, "enqueue") /\ work' = [work EXCEPT ![w] = [pc |-> "schedule"]]
        /\ UNCHANGED <<clock, ver, scheduled, flusher, queue, writing, batch, db, faults,
                       crashes, written>>
    BY DEF Enqueue, At, Carrying
  <1>3. PICK evicted \in EnqueueRoom(i) :
            backlog' = Merged(i, evicted) /\ lost' = lost \cup evicted
    BY DEF Enqueue
  <1>4. i \in Item BY <1>1, <1>2, LoadedKnown DEF Loaded
  <1>5. /\ backlog' \in SUBSET Item /\ IsFiniteSet(backlog')
        /\ \A j, k \in backlog' : j.provider = k.provider => j = k
        /\ Cardinality(backlog') <= BacklogCap
        /\ evicted \subseteq backlog /\ i \in backlog'
        /\ backlog \subseteq backlog' \cup evicted \cup SameProvider(backlog, i)
    BY <1>1, <1>3, <1>4, MergedBounded
  <1>6. /\ work' \in [Workers -> WorkState]
        /\ \A v \in Workers \ {w} : work'[v] = work[v]
        /\ work'[w] = [pc |-> "schedule"] /\ ~Carrying(w)'
        /\ \A v \in Workers : Carrying(v)' => Carrying(v) /\ v # w
    BY <1>1, <1>2, OffTyped
  <1>7. Permits' = Permits BY <1>2 DEF Permits
  <1>8. lost' \in SUBSET Item BY <1>1, <1>3, <1>5 DEF TypeOK
  <1>9. TypeOK' BY <1>1, <1>2, <1>5, <1>6, <1>7, <1>8 DEF TypeOK
  <1>10. \A v \in Workers \ {w} : Carrying(v)' <=> Carrying(v) BY <1>6 DEF Carrying
  <1>11. Handed' \subseteq Handed
    <2>1. backlog' \subseteq backlog \cup {i} BY <1>3 DEF Merged
    <2>2. i \in Handed BY <1>2 DEF Handed
    <2> HIDE DEF i
    <2> QED BY <1>2, <1>3, <1>5, <1>6, <2>1, <2>2 DEF Handed
  <1>12. i \in Handed' BY <1>5 DEF Handed
  <1>13. \A j \in Handed \ Handed' : j \in SameProvider(backlog, i)
    <2>1. \A j \in backlog : j \in Handed' \/ j \in SameProvider(backlog, i)
      BY <1>3, <1>5 DEF Handed
    <2>2. \A v \in Workers : Carrying(v) => work[v].item \in Handed'
      BY <1>6, <1>10, <1>12 DEF Handed
    <2> HIDE DEF i
    <2> QED BY <1>2, <1>3, <2>1, <2>2 DEF Handed
  <1>14. \A j \in Handed \ Handed' : j.provider \in Sequential /\ j.ver = ver[j.provider] =>
             i.provider = j.provider /\ i.ver = j.ver
    BY <1>1, <1>2, <1>13 DEF VersionsKnown, SameProvider
  <1>15. VersionsKnown' /\ NewestKnown'
    BY <1>2, <1>6, <1>11, <1>12, <1>14, ItemsShrink
  <1>16. OneFlusherAttends'
    <2>1. At(w, "schedule")' BY <1>6 DEF At
    <2> QED BY <1>1, <1>2, <2>1 DEF OneFlusherAttends, Running
  <1> QED BY <1>5, <1>9, <1>15, <1>16 DEF IInv

\* A flusher's step moves a permit with it.
LEMMA PermitMoves ==
    ASSUME TypeOK, NEW f \in Flushers, NEW c \in FlushState, flusher' = [flusher EXCEPT ![f] = c]
    PROVE  /\ flusher' \in [Flushers -> FlushState] /\ flusher'[f] = c
           /\ \A g \in Flushers \ {f} : flusher'[g] = flusher[g]
           /\ Permits' = IF c.pc \in {"pop", "send"}
                         THEN IF flusher[f].pc \in {"pop", "send"} THEN Permits ELSE Permits + 1
                         ELSE IF flusher[f].pc \in {"pop", "send"} THEN Permits - 1 ELSE Permits
  <1> DEFINE P == {g \in Flushers : flusher[g].pc \in {"pop", "send"}}
             Q == {g \in Flushers : flusher'[g].pc \in {"pop", "send"}}
  <1>1. /\ flusher' \in [Flushers -> FlushState] /\ flusher'[f] = c
        /\ \A g \in Flushers \ {f} : flusher'[g] = flusher[g]
    BY DEF TypeOK
  <1>2. IsFiniteSet(P) /\ Permits = Cardinality(P) /\ Permits' = Cardinality(Q)
    BY PermitsKnown DEF Permits
  <1>3. Q = IF c.pc \in {"pop", "send"} THEN P \cup {f} ELSE P \ {f} BY <1>1
  <1>4. f \in P <=> flusher[f].pc \in {"pop", "send"} OBVIOUS
  <1>5. f \notin P => Cardinality(P \cup {f}) = Cardinality(P) + 1 BY <1>2, FS_AddElement
  <1>6. f \in P => Cardinality(P \ {f}) = Cardinality(P) - 1 BY <1>2, FS_RemoveElement
  <1>7. (f \in P => P \cup {f} = P) /\ (f \notin P => P \ {f} = P) OBVIOUS
  <1> HIDE DEF P, Q
  <1> QED BY <1>1, <1>2, <1>3, <1>4, <1>5, <1>6, <1>7

LEMMA ScheduleStep ==
    ASSUME IInv, NEW w \in Workers, Schedule(w)
    PROVE  IInv'
  <1>1. TypeOK /\ IsFiniteSet(backlog) /\ OneFlusherAttends BY DEF IInv
  <1>2. /\ At(w, "schedule") /\ work' = [work EXCEPT ![w] = Off]
        /\ UNCHANGED <<clock, ver, backlog, queue, writing, batch, db, faults, crashes,
                       written, lost>>
    BY DEF Schedule
  <1>3. /\ work' \in [Workers -> WorkState]
        /\ \A v \in Workers \ {w} : work'[v] = work[v]
        /\ work'[w] = Off /\ ~Carrying(w)'
        /\ \A v \in Workers : Carrying(v)' => Carrying(v) /\ v # w
    BY <1>1, <1>2, OffTyped
  <1>4. \A v \in Workers : /\ Carrying(v)' <=> Carrying(v)
                           /\ Carrying(v) => work'[v].item = work[v].item
    BY <1>2, <1>3 DEF Carrying, At
  <1>5. CASE scheduled /\ UNCHANGED <<scheduled, flusher>>
    <2>1. Permits' = Permits BY <1>5 DEF Permits
    <2>2. TypeOK' BY <1>1, <1>2, <1>3, <1>5, <2>1 DEF TypeOK
    <2>3. Handed' = Handed BY <1>2, <1>4, <1>5 DEF Handed
    <2>4. VersionsKnown' /\ NewestKnown' BY <1>2, <1>4, <2>3, ItemsStay
    <2>5. OneFlusherAttends' BY <1>1, <1>5 DEF OneFlusherAttends, Running
    <2> QED BY <1>1, <1>2, <2>2, <2>4, <2>5 DEF IInv
  <1>6. ASSUME NEW f \in Flushers, ~scheduled, flusher[f] = Off, scheduled' = TRUE,
               flusher' = [flusher EXCEPT ![f] = [pc |-> "reserve"]]
        PROVE  IInv'
    <2> DEFINE c == [pc |-> "reserve"]
    <2>0. flusher[f].pc = "off" BY <1>6 DEF Off
    <2>1. c \in FlushState /\ c.pc = "reserve" BY DEF FlushState
    <2> HIDE DEF c
    <2>2. /\ flusher' \in [Flushers -> FlushState] /\ flusher'[f].pc = "reserve"
          /\ \A g \in Flushers \ {f} : flusher'[g] = flusher[g]
          /\ Permits' = Permits
      <3>1. flusher' = [flusher EXCEPT ![f] = c] BY <1>6 DEF c
      <3> QED BY <1>1, <2>0, <2>1, <3>1, PermitMoves
    <2>3. TypeOK' BY <1>1, <1>2, <1>3, <1>6, <2>2 DEF TypeOK
    <2>4. \A g \in Flushers : /\ flusher'[g].pc = "send" <=> flusher[g].pc = "send"
                              /\ flusher[g].pc = "send" => flusher'[g].item = flusher[g].item
      BY <1>6, <2>2 DEF Off
    <2>5. Handed' = Handed BY <1>2, <1>4, <2>4 DEF Handed
    <2>6. VersionsKnown' /\ NewestKnown' BY <1>2, <1>4, <2>5, ItemsStay
    <2>7. OneFlusherAttends' BY <1>1, <1>6, <2>2 DEF OneFlusherAttends, Running
    <2> QED BY <1>1, <1>2, <2>3, <2>6, <2>7 DEF IInv
  <1> QED BY <1>5, <1>6 DEF Schedule

\* A new state of p leaves the breaker with w: no other worker carries one of p.
LEMMA RecordStep ==
    ASSUME IInv, NEW w \in Workers, NEW p \in Providers, Record(w, p)
    PROVE  IInv'
  <1> DEFINE i == [provider |-> p, ver |-> ver[p] + 1, at |-> clock]
             c == [pc |-> "flush", item |-> i]
  <1>1. TypeOK /\ IsFiniteSet(backlog) /\ OneFlusherAttends /\ VersionsKnown /\ NewestKnown
    BY DEF IInv
  <1>2. /\ work[w] = Off /\ ver' = [ver EXCEPT ![p] = @ + 1] /\ work' = [work EXCEPT ![w] = c]
        /\ p \in Sequential => \A v \in Workers : Carrying(v) => work[v].item.provider # p
        /\ UNCHANGED <<clock, backlog, scheduled, flusher, queue, writing, batch, db,
                       faults, crashes, written, lost>>
    BY DEF Record
  <1>3. /\ ver' \in [Providers -> Nat] /\ ver'[p] = ver[p] + 1
        /\ \A q \in Providers : ver[q] <= ver'[q] /\ (q # p => ver'[q] = ver[q])
    <2>1. ver \in [Providers -> Nat] BY <1>1 DEF TypeOK
    <2> QED BY <1>2, <2>1
  <1>4. i \in Item BY <1>1 DEF TypeOK, Item
  <1>5. i.provider = p /\ i.ver = ver'[p] /\ i.at = clock BY <1>3
  <1> HIDE DEF i
  <1>6. c \in WorkState /\ c.pc = "flush" /\ c.item = i BY <1>4 DEF WorkState
  <1> HIDE DEF c
  <1>7. /\ work' \in [Workers -> WorkState] /\ work'[w] = c
        /\ \A v \in Workers \ {w} : work'[v] = work[v]
    BY <1>1, <1>2, <1>6 DEF TypeOK
  <1>8. Carrying(w)' /\ work'[w].item = i BY <1>6, <1>7 DEF Carrying
  <1>9. \A v \in Workers \ {w} : (Carrying(v)' <=> Carrying(v)) /\ work'[v].item = work[v].item
    BY <1>7 DEF Carrying
  <1>10. ~Carrying(w) BY <1>2 DEF Carrying, Off
  <1>11. Handed' = Handed \cup {i} BY <1>2, <1>8, <1>9, <1>10 DEF Handed
  <1>12. Permits' = Permits BY <1>2 DEF Permits
  <1>13. TypeOK' BY <1>1, <1>2, <1>3, <1>7, <1>12 DEF TypeOK
  <1>14. VersionsKnown'
    <2>1. \A j \in Handed : j \in Item BY <1>1, HandedItems
    <2>2. ASSUME NEW j \in Handed' PROVE j.ver <= ver'[j.provider] /\ j.at <= clock'
      <3>1. CASE j = i BY <3>1, <1>2, <1>3, <1>5, <1>1 DEF TypeOK
      <3>2. CASE j \in Handed
        <4>1. j.provider \in Providers /\ j.ver \in Nat BY <2>1, <3>2 DEF Item
        <4>2. j.ver <= ver[j.provider] /\ j.at <= clock BY <1>1, <3>2 DEF VersionsKnown
        <4>3. ver[j.provider] \in Nat /\ ver'[j.provider] \in Nat
          BY <1>1, <1>3, <4>1 DEF TypeOK
        <4> QED BY <1>2, <1>3, <4>1, <4>2, <4>3
      <3> QED BY <1>11, <3>1, <3>2
    <2>3. ASSUME NEW q \in Providers PROVE written'[q] <= ver'[q]
      <3>1. written[q] <= ver[q] /\ ver[q] <= ver'[q] BY <1>1, <1>3 DEF VersionsKnown
      <3>2. written[q] \in Nat /\ ver[q] \in Nat /\ ver'[q] \in Nat
        BY <1>1, <1>3 DEF TypeOK
      <3> QED BY <1>2, <3>1, <3>2
    <2>4. ASSUME NEW v \in Workers, Carrying(v)', work'[v].item.provider \in Sequential
          PROVE  work'[v].item.ver = ver'[work'[v].item.provider]
      <3>1. CASE v = w BY <3>1, <1>5, <1>8
      <3>2. CASE v # w
        <4>1. Carrying(v) /\ work'[v].item = work[v].item BY <1>9, <2>4, <3>2
        <4>2. work[v].item.provider # p BY <1>2, <2>4, <4>1
        <4>3. work[v].item.provider \in Providers BY <2>4, <4>1, CapsAssumption
        <4> QED BY <1>1, <1>3, <2>4, <4>1, <4>2, <4>3 DEF VersionsKnown
      <3> QED BY <3>1, <3>2
    <2> QED BY <2>2, <2>3, <2>4 DEF VersionsKnown
  <1>15. NewestKnown'
    <2> SUFFICES ASSUME NEW q \in Sequential
                 PROVE  written'[q] = ver'[q] \/ \E j \in Handed' : j.provider = q /\ j.ver = ver'[q]
      BY DEF NewestKnown
    <2>1. CASE q = p BY <2>1, <1>5, <1>11
    <2>2. CASE q # p
      <3>1. ver'[q] = ver[q] BY <1>3, <2>2, CapsAssumption
      <3> QED BY <3>1, <1>1, <1>2, <1>11 DEF NewestKnown
    <2> QED BY <2>1, <2>2
  <1>16. OneFlusherAttends'
    <2>1. ~At(w, "schedule") BY <1>2 DEF At, Off
    <2>2. \A v \in Workers : At(v, "schedule") => At(v, "schedule")' BY <1>7, <2>1 DEF At
    <2> QED BY <1>1, <1>2, <2>2, AttendsStays
  <1> QED BY <1>1, <1>2, <1>13, <1>14, <1>15, <1>16 DEF IInv

-------------------------------------------------------------------------------
LEMMA MoveTyped ==
    ASSUME TypeOK, NEW f \in Flushers,
           NEW pc \in {"off", "reserve", "pop", "clear", "look", "cas"}, Move(f, pc)
    PROVE  /\ flusher' \in [Flushers -> FlushState] /\ flusher'[f].pc = pc
           /\ \A g \in Flushers \ {f} : flusher'[g] = flusher[g]
           /\ Permits' = IF pc = "pop"
                         THEN IF flusher[f].pc \in {"pop", "send"} THEN Permits ELSE Permits + 1
                         ELSE IF flusher[f].pc \in {"pop", "send"} THEN Permits - 1 ELSE Permits
  <1> DEFINE c == [pc |-> pc]
  <1>1. c \in FlushState /\ c.pc = pc BY DEF FlushState
  <1>2. flusher' = [flusher EXCEPT ![f] = c] BY DEF Move
  <1> HIDE DEF c
  <1> QED BY <1>1, <1>2, PermitMoves

\* The items when a flusher without one moves to where it has none.
LEMMA MoveItems ==
    ASSUME IInv, NEW f \in Flushers, flusher[f].pc # "send", flusher'[f].pc # "send",
           \A g \in Flushers \ {f} : flusher'[g] = flusher[g],
           UNCHANGED <<clock, ver, written, work, backlog, queue, batch, lost>>
    PROVE  VersionsKnown' /\ NewestKnown'
  <1>1. \A g \in Flushers : flusher'[g].pc = "send" <=> flusher[g].pc = "send" OBVIOUS
  <1>2. \A w \in Workers : Carrying(w)' <=> Carrying(w) BY DEF Carrying
  <1>3. Handed' = Handed BY <1>1, <1>2 DEF Handed
  <1> QED BY <1>2, <1>3, ItemsStay

LEMMA ReserveStep ==
    ASSUME IInv, NEW f \in Flushers, Reserve(f)
    PROVE  IInv'
  <1>1. TypeOK /\ IsFiniteSet(backlog) /\ OneFlusherAttends BY DEF IInv
  <1>2. /\ flusher[f].pc = "reserve" /\ Free > 0 /\ Move(f, "pop")
        /\ UNCHANGED <<clock, ver, work, backlog, scheduled, queue, writing, batch, db,
                       faults, crashes, written, lost>>
    BY DEF Reserve
  <1>3. /\ flusher' \in [Flushers -> FlushState] /\ flusher'[f].pc = "pop"
        /\ \A g \in Flushers \ {f} : flusher'[g] = flusher[g]
        /\ Permits' = Permits + 1
    BY <1>1, <1>2, MoveTyped
  <1>4. Len(queue) + Permits' <= QueueCap
    BY <1>1, <1>2, <1>3, PermitsKnown, CapsAssumption DEF Free
  <1>5. TypeOK' BY <1>1, <1>2, <1>3, <1>4 DEF TypeOK
  <1>6. VersionsKnown' /\ NewestKnown' BY <1>2, <1>3, MoveItems
  <1>7. OneFlusherAttends' BY <1>1, <1>2, <1>3 DEF OneFlusherAttends, Running, At
  <1> QED BY <1>1, <1>2, <1>5, <1>6, <1>7 DEF IInv

LEMMA PopStep ==
    ASSUME IInv, NEW f \in Flushers, Pop(f)
    PROVE  IInv'
  <1>1. TypeOK /\ IsFiniteSet(backlog) /\ OneFlusherAttends BY DEF IInv
  <1>2. /\ flusher[f].pc = "pop"
        /\ UNCHANGED <<clock, ver, work, scheduled, queue, writing, batch, db, faults,
                       crashes, written, lost>>
    BY DEF Pop
  <1>3. CASE Move(f, "clear") /\ UNCHANGED backlog
    <2>1. /\ flusher' \in [Flushers -> FlushState] /\ flusher'[f].pc = "clear"
          /\ \A g \in Flushers \ {f} : flusher'[g] = flusher[g]
          /\ Permits' = Permits - 1
      BY <1>1, <1>2, <1>3, MoveTyped
    <2>2. Len(queue) + Permits' <= QueueCap
      BY <1>1, <2>1, PermitsKnown, CapsAssumption DEF TypeOK
    <2>3. TypeOK' BY <1>1, <1>2, <1>3, <2>1, <2>2 DEF TypeOK
    <2>4. VersionsKnown' /\ NewestKnown' BY <1>2, <1>3, <2>1, MoveItems
    <2>5. OneFlusherAttends' BY <1>1, <1>2, <1>3, <2>1 DEF OneFlusherAttends, Running, At
    <2> QED BY <1>1, <1>3, <2>3, <2>4, <2>5 DEF IInv
  <1>4. ASSUME NEW i \in Oldest(backlog), backlog' = backlog \ {i},
               flusher' = [flusher EXCEPT ![f] = [pc |-> "send", item |-> i]]
        PROVE  IInv'
    <2> DEFINE c == [pc |-> "send", item |-> i]
    <2>1. i \in backlog /\ i \in Item BY <1>1, <1>4 DEF Oldest, TypeOK
    <2>2. c \in FlushState /\ c.pc = "send" /\ c.item = i BY <2>1 DEF FlushState
    <2>3. flusher' = [flusher EXCEPT ![f] = c] BY <1>4
    <2> HIDE DEF c
    <2>4. /\ flusher' \in [Flushers -> FlushState] /\ flusher'[f] = c
          /\ \A g \in Flushers \ {f} : flusher'[g] = flusher[g]
          /\ Permits' = Permits
      BY <1>1, <1>2, <2>2, <2>3, PermitMoves
    <2>5. IsFiniteSet(backlog') /\ Cardinality(backlog') <= Cardinality(backlog)
      BY <1>1, <1>4, FS_Subset
    <2>6. Cardinality(backlog') <= BacklogCap
      BY <1>1, <2>5, FS_CardinalityType, CapsAssumption DEF TypeOK
    <2>7. TypeOK' BY <1>1, <1>2, <1>4, <2>4, <2>6 DEF TypeOK
    <2>8. \A w \in Workers : Carrying(w)' <=> Carrying(w) BY <1>2 DEF Carrying
    <2>9. {flusher'[g].item : g \in {h \in Flushers : flusher'[h].pc = "send"}}
            = {flusher[g].item : g \in {h \in Flushers : flusher[h].pc = "send"}} \cup {i}
      BY <1>2, <2>2, <2>4
    <2>10. Handed' = Handed BY <1>2, <1>4, <2>1, <2>8, <2>9 DEF Handed
    <2>11. VersionsKnown' /\ NewestKnown' BY <1>2, <2>8, <2>10, ItemsStay
    <2>12. OneFlusherAttends'
      BY <1>1, <1>2, <2>1, <2>2, <2>4 DEF OneFlusherAttends, Running, At
    <2> QED BY <2>5, <2>7, <2>11, <2>12 DEF IInv
  <1> QED BY <1>3, <1>4 DEF Pop

LEMMA SendPoppedStep ==
    ASSUME IInv, NEW f \in Flushers, SendPopped(f)
    PROVE  IInv'
  <1> DEFINE i == flusher[f].item
  <1>1. TypeOK /\ IsFiniteSet(backlog) /\ OneFlusherAttends BY DEF IInv
  <1>2. /\ flusher[f].pc = "send" /\ queue' = Append(queue, i) /\ Move(f, "reserve")
        /\ UNCHANGED <<clock, ver, work, backlog, scheduled, writing, batch, db, faults,
                       crashes, written, lost>>
    BY DEF SendPopped
  <1>3. /\ flusher' \in [Flushers -> FlushState] /\ flusher'[f].pc = "reserve"
        /\ \A g \in Flushers \ {f} : flusher'[g] = flusher[g]
        /\ Permits' = Permits - 1
    BY <1>1, <1>2, MoveTyped
  <1>4. i \in Item BY <1>1, <1>2, PoppedKnown DEF Popped
  <1>5. /\ queue' \in Seq(Item) /\ Len(queue') = Len(queue) + 1
        /\ ToSet(queue') = ToSet(queue) \cup {i}
    BY <1>1, <1>2, <1>4, Appended DEF TypeOK
  <1>6. Len(queue') + Permits' <= QueueCap
    BY <1>1, <1>3, <1>5, PermitsKnown, CapsAssumption DEF TypeOK
  <1>7. TypeOK' BY <1>1, <1>2, <1>3, <1>5, <1>6 DEF TypeOK
  <1>8. \A w \in Workers : Carrying(w)' <=> Carrying(w) BY <1>2 DEF Carrying
  <1>9. {flusher[g].item : g \in {h \in Flushers : flusher[h].pc = "send"}}
          = {flusher'[g].item : g \in {h \in Flushers : flusher'[h].pc = "send"}} \cup {i}
    BY <1>2, <1>3
  <1> HIDE DEF i
  <1>10. Handed' = Handed BY <1>2, <1>5, <1>8, <1>9 DEF Handed
  <1>11. VersionsKnown' /\ NewestKnown' BY <1>2, <1>8, <1>10, ItemsStay
  <1>12. OneFlusherAttends' BY <1>1, <1>2, <1>3 DEF OneFlusherAttends, Running, At
  <1> QED BY <1>1, <1>2, <1>7, <1>11, <1>12 DEF IInv

\* The flag goes down while its flusher still has to look.
LEMMA ClearStep ==
    ASSUME IInv, NEW f \in Flushers, Clear(f)
    PROVE  IInv'
  <1>1. TypeOK /\ IsFiniteSet(backlog) /\ OneFlusherAttends BY DEF IInv
  <1>2. /\ flusher[f].pc = "clear" /\ scheduled' = FALSE /\ Move(f, "look")
        /\ UNCHANGED <<clock, ver, work, backlog, queue, writing, batch, db, faults,
                       crashes, written, lost>>
    BY DEF Clear
  <1>3. /\ flusher' \in [Flushers -> FlushState] /\ flusher'[f].pc = "look"
        /\ \A g \in Flushers \ {f} : flusher'[g] = flusher[g]
        /\ Permits' = Permits
    BY <1>1, <1>2, MoveTyped
  <1>4. TypeOK' BY <1>1, <1>2, <1>3 DEF TypeOK
  <1>5. VersionsKnown' /\ NewestKnown' BY <1>2, <1>3, MoveItems
  <1>6. OneFlusherAttends' BY <1>1, <1>2, <1>3 DEF OneFlusherAttends, Running
  <1> QED BY <1>1, <1>2, <1>4, <1>5, <1>6 DEF IInv

LEMMA LookStep ==
    ASSUME IInv, NEW f \in Flushers, Look(f)
    PROVE  IInv'
  <1>1. TypeOK /\ IsFiniteSet(backlog) /\ OneFlusherAttends BY DEF IInv
  <1>2. /\ flusher[f].pc = "look" /\ Move(f, AfterLook)
        /\ UNCHANGED <<clock, ver, work, backlog, scheduled, queue, writing, batch, db,
                       faults, crashes, written, lost>>
    BY DEF Look
  <1>3. AfterLook \in {"off", "cas"} /\ (backlog # {} => AfterLook = "cas") BY DEF AfterLook
  <1>4. /\ flusher' \in [Flushers -> FlushState] /\ flusher'[f].pc = AfterLook
        /\ \A g \in Flushers \ {f} : flusher'[g] = flusher[g]
        /\ Permits' = Permits
    BY <1>1, <1>2, <1>3, MoveTyped
  <1>5. TypeOK' BY <1>1, <1>2, <1>4 DEF TypeOK
  <1>6. VersionsKnown' /\ NewestKnown' BY <1>2, <1>3, <1>4, MoveItems
  <1>7. OneFlusherAttends' BY <1>1, <1>2, <1>3, <1>4 DEF OneFlusherAttends, Running, At
  <1> QED BY <1>1, <1>2, <1>5, <1>6, <1>7 DEF IInv

LEMMA CasStep ==
    ASSUME IInv, NEW f \in Flushers, Cas(f)
    PROVE  IInv'
  <1>1. TypeOK /\ IsFiniteSet(backlog) /\ OneFlusherAttends BY DEF IInv
  <1>2. /\ flusher[f].pc = "cas" /\ scheduled' = TRUE /\ Move(f, AfterCas)
        /\ UNCHANGED <<clock, ver, work, backlog, queue, writing, batch, db, faults,
                       crashes, written, lost>>
    BY DEF Cas
  <1>3. AfterCas \in {"off", "reserve"} /\ (scheduled <=> AfterCas = "off") BY DEF AfterCas
  <1>4. /\ flusher' \in [Flushers -> FlushState] /\ flusher'[f].pc = AfterCas
        /\ \A g \in Flushers \ {f} : flusher'[g] = flusher[g]
        /\ Permits' = Permits
    BY <1>1, <1>2, <1>3, MoveTyped
  <1>5. TypeOK' BY <1>1, <1>2, <1>4 DEF TypeOK
  <1>6. VersionsKnown' /\ NewestKnown' BY <1>2, <1>3, <1>4, MoveItems
  <1>7. OneFlusherAttends'
    BY <1>1, <1>2, <1>3, <1>4 DEF OneFlusherAttends, Running
  <1> QED BY <1>1, <1>2, <1>5, <1>6, <1>7 DEF IInv

-------------------------------------------------------------------------------
Below == {ss \in Nat \X Nat : ss[1] < ss[2]}

LEMMA BelowWF == IsWellFoundedOn(Below, Nat)
  BY NatLessThanWellFounded DEF OpToRel, Below

\* A nonempty bounded set of numbers has a greatest one.
LEMMA GreatestBelow ==
    ASSUME NEW n \in Nat, NEW S \in SUBSET (0..n), S # {}
    PROVE  \E i \in S : \A j \in S : j <= i
  <1> DEFINE T == {n - i : i \in S}
  <1>1. \A i \in S : i \in Int /\ n - i \in Nat OBVIOUS
  <1>2. T \subseteq Nat /\ T # {} BY <1>1
  <1>3. PICK x \in T : \A y \in T : ~(<<y, x>> \in Below)
    <2> HIDE DEF T
    <2> QED BY <1>2, BelowWF, WFMin
  <1>4. PICK i \in S : x = n - i BY DEF T
  <1>5. ASSUME NEW j \in S PROVE j <= i
    <2>1. n - j \in T /\ ~(<<n - j, x>> \in Below) BY <1>3
    <2>2. ~(n - j < x) BY <2>1, <1>2 DEF Below
    <2> QED BY <2>2, <1>4
  <1> QED BY <1>5

LEMMA BatchKnown ==
    ASSUME TypeOK
    PROVE  /\ Len(batch) \in Nat /\ DOMAIN batch = 1..Len(batch)
           /\ \A n \in 1..Len(batch) : batch[n] \in Item /\ batch[n] \in ToSet(batch)
  <1>1. Len(batch) \in Nat /\ DOMAIN batch = 1..Len(batch) BY LenProperties DEF TypeOK
  <1>2. \A n \in 1..Len(batch) : batch[n] \in Item BY <1>1, ElementOfSeq DEF TypeOK
  <1>3. \A n \in 1..Len(batch) : batch[n] \in ToSet(batch) BY <1>1 DEF ToSet
  <1> QED BY <1>1, <1>2, <1>3

LEMMA EmptyTyped == <<>> \in Seq(Item) /\ Len(<<>>) = 0 /\ ToSet(<<>>) = {}
  <1>1. <<>> \in Seq(Item) /\ Len(<<>>) = 0 BY EmptySeq
  <1>2. DOMAIN <<>> = 1..0 BY <1>1, LenProperties
  <1>3. 1..0 = {} OBVIOUS
  <1> QED BY <1>1, <1>2, <1>3 DEF ToSet

LEMMA RowTyped ==
    ASSUME TypeOK, NEW p \in Providers
    PROVE  RowAfter(p) \in Nat
  <1> DEFINE I == {m \in DOMAIN batch : batch[m].provider = p}
  <1>1. I \subseteq 1..Len(batch) /\ Len(batch) \in Nat BY BatchKnown
  <1>2. CASE I = {} BY <1>2 DEF RowAfter, TypeOK
  <1>3. CASE I # {}
    <2>1. \E n \in I : \A m \in I : m <= n
      <3>1. I \in SUBSET (0..Len(batch)) BY <1>1
      <3> HIDE DEF I
      <3> QED BY <1>1, <1>3, <3>1, GreatestBelow
    <2> DEFINE last == CHOOSE n \in I : \A m \in I : m <= n
    <2>2. last \in I BY <2>1
    <2>3. RowAfter(p) = batch[last].ver BY <1>3 DEF RowAfter
    <2> HIDE DEF last
    <2>4. batch[last] \in Item BY <1>1, <2>2, BatchKnown
    <2> QED BY <2>3, <2>4 DEF Item
  <1> QED BY <1>2, <1>3

\* The versions of p in the batch are no newer than its state.
LEMMA VersionsBounded ==
    ASSUME TypeOK, VersionsKnown, NEW p \in Providers
    PROVE  /\ ver[p] \in Nat /\ Versions(p) \in SUBSET (0..ver[p])
           /\ \A i \in ToSet(batch) : i.provider = p => i.ver \in Versions(p)
  <1>1. ver[p] \in Nat BY DEF TypeOK
  <1>2. ASSUME NEW n \in DOMAIN batch, batch[n].provider = p
        PROVE  batch[n].ver \in 0..ver[p]
    <2>1. batch[n] \in Item /\ batch[n] \in ToSet(batch) BY BatchKnown
    <2>2. batch[n].ver <= ver[p] BY <1>2, <2>1 DEF VersionsKnown, Handed
    <2> QED BY <1>1, <2>1, <2>2 DEF Item
  <1>3. Versions(p) \in SUBSET (0..ver[p]) BY <1>2 DEF Versions
  <1>4. \A i \in ToSet(batch) : i.provider = p => i.ver \in Versions(p)
    BY DEF ToSet, Versions
  <1> QED BY <1>1, <1>3, <1>4

\* What is written of p is the newest in the batch or before.
LEMMA WrittenNewest ==
    ASSUME TypeOK, VersionsKnown, Commit, NEW p \in Providers
    PROVE  /\ written'[p] \in Nat /\ written'[p] <= ver[p]
           /\ ver[p] \in Versions(p) \cup {written[p]} => written'[p] = ver[p]
  <1> DEFINE V == Versions(p)
             top == CHOOSE v \in V : \A u \in V : u <= v
  <1>1. ver[p] \in Nat /\ V \in SUBSET (0..ver[p]) BY VersionsBounded
  <1>2. written[p] \in Nat /\ written[p] <= ver[p] BY DEF TypeOK, VersionsKnown
  <1>3. written'[p] = IF \E v \in V : v > written[p] THEN top ELSE written[p]
    BY DEF Commit
  <1>4. V # {} => top \in V /\ \A u \in V : u <= top
    <2>1. V # {} => \E v \in V : \A u \in V : u <= v
      <3> HIDE DEF V
      <3> QED BY <1>1, GreatestBelow
    <2> QED BY <2>1
  <1> HIDE DEF V, top
  <1>5. CASE \E v \in V : v > written[p]
    <2>1. written'[p] = top /\ top \in V /\ top \in 0..ver[p] /\ \A u \in V : u <= top
      BY <1>1, <1>3, <1>4, <1>5
    <2>2. written[p] # ver[p] BY <1>1, <1>2, <1>5
    <2>3. ver[p] \in V => top = ver[p] BY <1>1, <2>1
    <2> QED BY <1>1, <2>1, <2>2, <2>3 DEF V
  <1>6. CASE ~\E v \in V : v > written[p]
    <2>1. ver[p] \in V => written[p] = ver[p] BY <1>1, <1>2, <1>6
    <2> QED BY <1>2, <1>3, <1>6, <2>1 DEF V
  <1> QED BY <1>5, <1>6

LEMMA ReceiveStep ==
    ASSUME IInv, Receive
    PROVE  IInv'
  <1>1. TypeOK /\ IsFiniteSet(backlog) /\ OneFlusherAttends BY DEF IInv
  <1>2. /\ queue # <<>> /\ Len(batch) < BatchMax
        /\ batch' = Append(batch, Head(queue)) /\ queue' = Tail(queue)
        /\ UNCHANGED <<clock, ver, work, backlog, scheduled, flusher, writing, db, faults,
                       crashes, written, lost>>
    BY DEF Receive, BatchHasRoom
  <1>3. /\ Head(queue) \in Item /\ queue' \in Seq(Item) /\ Len(queue') = Len(queue) - 1
        /\ ToSet(queue) = ToSet(queue') \cup {Head(queue)}
    BY <1>1, <1>2, Taken DEF TypeOK
  <1>4. /\ batch' \in Seq(Item) /\ Len(batch') = Len(batch) + 1
        /\ ToSet(batch') = ToSet(batch) \cup {Head(queue)}
    BY <1>1, <1>2, <1>3, Appended DEF TypeOK
  <1>5. Permits' = Permits BY <1>2 DEF Permits
  <1>6. Len(queue') + Permits' <= QueueCap
    BY <1>1, <1>3, <1>5, PermitsKnown, CapsAssumption DEF TypeOK
  <1>7. Len(batch') <= BatchMax BY <1>1, <1>2, <1>4, BatchKnown, CapsAssumption
  <1>8. TypeOK' BY <1>1, <1>2, <1>3, <1>4, <1>6, <1>7 DEF TypeOK
  <1>9. \A w \in Workers : Carrying(w)' <=> Carrying(w) BY <1>2 DEF Carrying
  <1>10. Handed' = Handed BY <1>2, <1>3, <1>4, <1>9 DEF Handed
  <1>11. VersionsKnown' /\ NewestKnown' BY <1>2, <1>9, <1>10, ItemsStay
  <1>12. OneFlusherAttends' BY <1>1, <1>2, AttendsStays DEF At
  <1> QED BY <1>1, <1>2, <1>8, <1>11, <1>12 DEF IInv

LEMMA StopReceivingStep ==
    ASSUME IInv, StopReceiving
    PROVE  IInv'
  <1>1. TypeOK /\ IsFiniteSet(backlog) /\ OneFlusherAttends BY DEF IInv
  <1>2. /\ writing' = TRUE
        /\ UNCHANGED <<clock, ver, work, backlog, scheduled, flusher, queue, batch, db,
                       faults, crashes, written, lost>>
    BY DEF StopReceiving
  <1>3. Permits' = Permits BY <1>2 DEF Permits
  <1>4. TypeOK' BY <1>1, <1>2, <1>3 DEF TypeOK
  <1>5. \A w \in Workers : Carrying(w)' <=> Carrying(w) BY <1>2 DEF Carrying
  <1>6. Handed' = Handed BY <1>2, <1>5 DEF Handed
  <1>7. VersionsKnown' /\ NewestKnown' BY <1>2, <1>5, <1>6, ItemsStay
  <1>8. OneFlusherAttends' BY <1>1, <1>2, AttendsStays DEF At
  <1> QED BY <1>1, <1>2, <1>4, <1>7, <1>8 DEF IInv

\* The batch goes; what was newest in it is written.
LEMMA CommitStep ==
    ASSUME IInv, Commit
    PROVE  IInv'
  <1>1. TypeOK /\ IsFiniteSet(backlog) /\ OneFlusherAttends /\ VersionsKnown /\ NewestKnown
    BY DEF IInv
  <1>2. /\ batch' = <<>> /\ writing' = FALSE
        /\ UNCHANGED <<clock, ver, work, backlog, scheduled, flusher, queue, faults,
                       crashes, lost>>
    BY DEF Commit
  <1>3. db' \in [Providers -> Nat] BY <1>1, RowTyped DEF Commit
  <1>4. written' \in [Providers -> Nat] /\ \A p \in Providers : written'[p] <= ver[p]
    <2>1. DOMAIN written' = Providers /\ written' = [p \in Providers |-> written'[p]]
      BY DEF Commit
    <2> QED BY <1>1, <2>1, WrittenNewest
  <1>5. batch' \in Seq(Item) /\ Len(batch') <= BatchMax /\ ToSet(batch') = {}
    BY <1>2, EmptyTyped, CapsAssumption
  <1>6. Permits' = Permits BY <1>2 DEF Permits
  <1>7. TypeOK' BY <1>1, <1>2, <1>3, <1>4, <1>5, <1>6 DEF TypeOK
  <1>8. \A w \in Workers : (Carrying(w)' <=> Carrying(w)) /\ work'[w].item = work[w].item
    BY <1>2 DEF Carrying
  <1>9. Handed' \subseteq Handed /\ Handed \subseteq Handed' \cup ToSet(batch)
    BY <1>2, <1>5, <1>8 DEF Handed
  <1>10. VersionsKnown' BY <1>1, <1>2, <1>4, <1>8, <1>9 DEF VersionsKnown
  <1>11. NewestKnown'
    <2> SUFFICES ASSUME NEW p \in Sequential, written'[p] # ver'[p]
                 PROVE  \E i \in Handed' : i.provider = p /\ i.ver = ver'[p]
      BY DEF NewestKnown
    <2>1. p \in Providers /\ ver' = ver BY <1>2, CapsAssumption
    <2>2. ver[p] \notin Versions(p) /\ ver[p] # written[p] BY <1>1, <2>1, WrittenNewest
    <2>3. PICK i \in Handed : i.provider = p /\ i.ver = ver[p]
      BY <1>1, <2>2 DEF NewestKnown
    <2>4. i \notin ToSet(batch) BY <1>1, <2>1, <2>2, <2>3, VersionsBounded
    <2> QED BY <1>9, <2>1, <2>3, <2>4
  <1>12. OneFlusherAttends' BY <1>1, <1>2, AttendsStays DEF At
  <1> QED BY <1>1, <1>2, <1>7, <1>10, <1>11, <1>12 DEF IInv

LEMMA DropBatchStep ==
    ASSUME IInv, DropBatch
    PROVE  IInv'
  <1>1. TypeOK /\ IsFiniteSet(backlog) /\ OneFlusherAttends BY DEF IInv
  <1>2. /\ faults' = faults + 1 /\ lost' = lost \cup ToSet(batch)
        /\ batch' = <<>> /\ writing' = FALSE
        /\ UNCHANGED <<clock, ver, work, backlog, scheduled, flusher, queue, db, crashes,
                       written>>
    BY DEF DropBatch
  <1>3. batch' \in Seq(Item) /\ Len(batch') <= BatchMax /\ ToSet(batch') = {}
    BY <1>2, EmptyTyped, CapsAssumption
  <1>4. Permits' = Permits BY <1>2 DEF Permits
  <1>5. lost' \in SUBSET Item BY <1>1, <1>2 DEF TypeOK, ToSet
  <1>6. faults' \in Nat BY <1>1, <1>2 DEF TypeOK
  <1>7. TypeOK' BY <1>1, <1>2, <1>3, <1>4, <1>5, <1>6 DEF TypeOK
  <1>8. \A w \in Workers : Carrying(w)' <=> Carrying(w) BY <1>2 DEF Carrying
  <1>9. Handed' = Handed BY <1>2, <1>3, <1>8 DEF Handed
  <1>10. VersionsKnown' /\ NewestKnown' BY <1>2, <1>8, <1>9, ItemsStay
  <1>11. OneFlusherAttends' BY <1>1, <1>2, AttendsStays DEF At
  <1> QED BY <1>1, <1>2, <1>7, <1>10, <1>11 DEF IInv

LEMMA TickStep ==
    ASSUME IInv, Tick
    PROVE  IInv'
  <1>1. TypeOK /\ IsFiniteSet(backlog) /\ OneFlusherAttends /\ VersionsKnown /\ NewestKnown
    BY DEF IInv
  <1>2. /\ clock' = clock + 1
        /\ UNCHANGED <<ver, work, backlog, scheduled, flusher, queue, writing, batch, db,
                       faults, crashes, written, lost>>
    BY DEF Tick
  <1>3. Permits' = Permits BY <1>2 DEF Permits
  <1>4. clock \in Nat /\ clock' \in Nat BY <1>1, <1>2 DEF TypeOK
  <1>5. TypeOK' BY <1>1, <1>2, <1>3, <1>4 DEF TypeOK
  <1>6. \A w \in Workers : Carrying(w)' <=> Carrying(w) BY <1>2 DEF Carrying
  <1>7. Handed' = Handed BY <1>2, <1>6 DEF Handed
  <1>8. VersionsKnown'
    <2>1. \A i \in Handed : i.at \in Nat BY <1>1, HandedItems DEF Item
    <2>2. \A i \in Handed : i.at <= clock' BY <1>1, <1>2, <1>4, <2>1 DEF VersionsKnown
    <2> QED BY <1>1, <1>2, <1>6, <1>7, <2>2 DEF VersionsKnown
  <1>9. NewestKnown' BY <1>1, <1>2, <1>7 DEF NewestKnown
  <1>10. OneFlusherAttends' BY <1>1, <1>2, AttendsStays DEF At
  <1> QED BY <1>1, <1>2, <1>5, <1>8, <1>9, <1>10 DEF IInv

LEMMA NobodyPermits ==
    ASSUME flusher = [f \in Flushers |-> Off]
    PROVE  Permits = 0
  <1>1. {f \in Flushers : flusher[f].pc \in {"pop", "send"}} = {} BY DEF Off
  <1> QED BY <1>1, FS_EmptySet DEF Permits

\* What a start or a crash leaves: the rows are all there is.
MemoryEmpty ==
    /\ clock \in Nat /\ faults \in Nat /\ crashes \in Nat /\ db \in [Providers -> Nat]
    /\ ver = db /\ written = db /\ lost = {}
    /\ work = [w \in Workers |-> Off]
    /\ backlog = {} /\ scheduled = FALSE
    /\ flusher = [f \in Flushers |-> Off]
    /\ queue = <<>> /\ writing = FALSE /\ batch = <<>>

LEMMA Fresh == MemoryEmpty => IInv
  <1> SUFFICES ASSUME MemoryEmpty PROVE IInv OBVIOUS
  <1> USE DEF MemoryEmpty
  <1>1. Permits = 0 BY NobodyPermits
  <1>2. Cardinality({}) = 0 /\ IsFiniteSet({}) BY FS_EmptySet
  <1>3. TypeOK
    <2>1. Off \in WorkState /\ Off \in FlushState BY DEF WorkState, FlushState, Off
    <2>2. work \in [Workers -> WorkState] /\ flusher \in [Flushers -> FlushState] BY <2>1
    <2>3. queue \in Seq(Item) /\ Len(queue) = 0 /\ batch \in Seq(Item) /\ Len(batch) = 0
      BY EmptyTyped
    <2>4. Len(queue) + Permits <= QueueCap /\ Len(batch) <= BatchMax
      BY <1>1, <2>3, CapsAssumption
    <2>5. Cardinality(backlog) <= BacklogCap BY <1>2, CapsAssumption
    <2> QED BY <2>2, <2>3, <2>4, <2>5 DEF TypeOK
  <1>4. \A w \in Workers : ~Carrying(w) /\ ~At(w, "schedule") BY DEF Carrying, At, Off
  <1>5. \A f \in Flushers : flusher[f].pc = "off" BY DEF Off
  <1>6. Handed = {} BY <1>4, <1>5, EmptyTyped DEF Handed
  <1>7. VersionsKnown BY <1>4, <1>6 DEF VersionsKnown
  <1>8. NewestKnown BY CapsAssumption DEF NewestKnown
  <1>9. OneFlusherAttends BY <1>5 DEF OneFlusherAttends, Running
  <1> QED BY <1>2, <1>3, <1>7, <1>8, <1>9 DEF IInv

LEMMA InitInv == Init => IInv
  <1>1. Init => MemoryEmpty BY DEF Init, MemoryEmpty
  <1> QED BY <1>1, Fresh

LEMMA CrashStep ==
    ASSUME IInv, Crash
    PROVE  IInv'
  <1>1. MemoryEmpty' BY DEF IInv, TypeOK, Crash, MemoryEmpty
  <1>2. MemoryEmpty' => IInv' BY Fresh, PTL
  <1> QED BY <1>1, <1>2

-------------------------------------------------------------------------------
LEMMA StutterStep ==
    ASSUME IInv, UNCHANGED vars
    PROVE  IInv'
  <1>1. Permits' = Permits BY DEF vars, Permits
  <1>2. \A w \in Workers : Carrying(w)' <=> Carrying(w) BY DEF vars, Carrying
  <1>3. Handed' = Handed BY <1>2 DEF vars, Handed
  <1>4. VersionsKnown' /\ NewestKnown' BY <1>2, <1>3, ItemsStay DEF vars
  <1>5. TypeOK' BY <1>1 DEF IInv, TypeOK, vars
  <1>6. OneFlusherAttends' BY DEF IInv, OneFlusherAttends, Running, At, vars
  <1> QED BY <1>4, <1>5, <1>6 DEF IInv, vars

LEMMA NextInv == IInv /\ [Next]_vars => IInv'
  <1> SUFFICES ASSUME IInv, [Next]_vars PROVE IInv' OBVIOUS
  <1>1. ASSUME NEW w \in Workers, NEW p \in Providers, Record(w, p) PROVE IInv'
    BY <1>1, RecordStep
  <1>2. ASSUME NEW w \in Workers, TryPersist(w) PROVE IInv'
    BY <1>2, FlushOneStep, TrySendStep, EnqueueStep, ScheduleStep DEF TryPersist
  <1>3. ASSUME NEW f \in Flushers, Flush(f) PROVE IInv'
    BY <1>3, ReserveStep, PopStep, SendPoppedStep, ClearStep, LookStep, CasStep DEF Flush
  <1>4. CASE Writer
    BY <1>4, ReceiveStep, StopReceivingStep, CommitStep, DropBatchStep DEF Writer
  <1>5. CASE Tick BY <1>5, TickStep
  <1>6. CASE Crash BY <1>6, CrashStep
  <1>7. CASE UNCHANGED vars BY <1>7, StutterStep
  <1> QED BY <1>1, <1>2, <1>3, <1>4, <1>5, <1>6, <1>7 DEF Next

\* An item that was handed over is in one of the places NewestIsWritten names.
LEMMA NewestFound == IInv => NewestIsWritten
  <1> SUFFICES ASSUME IInv, NEW p \in Sequential, written[p] # ver[p]
               PROVE  \E a \in 0 .. clock : InHand([provider |-> p, ver |-> ver[p], at |-> a])
    BY DEF NewestIsWritten
  <1>1. PICK i \in Handed : i.provider = p /\ i.ver = ver[p] BY DEF IInv, NewestKnown
  <1>2. i \in Item /\ clock \in Nat BY HandedItems DEF IInv, TypeOK
  <1>3. i.at \in 0 .. clock BY <1>1, <1>2 DEF IInv, VersionsKnown, Item
  <1>4. i = [provider |-> p, ver |-> ver[p], at |-> i.at] BY <1>1, <1>2 DEF Item
  <1>5. InHand(i) BY <1>1 DEF InHand, Handed
  <1> QED BY <1>3, <1>4, <1>5

\* Whatever workers, flushers and the writer do, and wherever a crash falls, the
\* strengthened invariant holds of circuit_breaker.rs:67-100 and :560-640.
THEOREM Inductive == Spec => []IInv
  BY InitInv, NextInv, PTL DEF Spec

\* The channel, the backlog and the batch stay within their limits, and the
\* backlog holds one state per provider (circuit_breaker.rs:560-583).
THEOREM PersistTypes == Spec => []TypeOK
  <1>1. IInv => TypeOK BY DEF IInv
  <1> QED BY <1>1, Inductive, PTL

\* One flusher at most is in its loop, and while items wait in the backlog one of
\* them will see these items (circuit_breaker.rs:67-81, :585).
THEOREM NoWakeupLost == Spec => []OneFlusherAttends
  <1>1. IInv => OneFlusherAttends BY DEF IInv
  <1> QED BY <1>1, Inductive, PTL

\* The newest state of a provider whose calls follow one another is written, or on
\* its way, or was evicted or refused by the database (circuit_breaker.rs:572).
THEOREM NewestNotPassedOver == Spec => []NewestIsWritten
  BY NewestFound, Inductive, PTL
===============================================================================
