------------------------- MODULE OAuthRefresh_proofs -------------------------
(* What OAuthRefresh.tla keeps for any number of refreshes, attempts, logins    *)
(* and answers, and any clock: its types, that the last login wins, that a      *)
(* refresh replaces the tokens it refreshed, and that the newest token of a     *)
(* server that rotates is never given up for a conflict.                        *)
EXTENDS OAuthRefresh, TLAPS

\* A refresh that has read the row.
Active(a) == a.pc \in {"call", "persist"}

\* Logins are written in the order they are started, and only the newest.
LoginsInOrder ==
    /\ saved <= started
    /\ flow # 0 => flow = started /\ saved < started
    /\ \A l \in Logins : l > saved => issued[l] = 0

\* Nobody knows of a login or of an answer that there has not been.
Known ==
    /\ row.mode = "oauth" => row.login \in 1..saved /\ row.gen <= issued[row.login]
    /\ row.mode = "api_key" => row.login = 0
    /\ \A t \in Tasks : Active(task[t]) =>
        /\ task[t].login \in 1..saved /\ task[t].seen <= saved
        /\ task[t].gen <= issued[task[t].login]
        /\ task[t].pc = "persist" => task[t].new <= issued[task[t].login]

\* Until the next login, the stamp of the row tells its tokens from those that
\* were read.
StampTells ==
    \A t \in Tasks :
        Active(task[t]) /\ task[t].seen = saved /\ row.mode = "oauth" =>
            \/ task[t].stamp < row.stamp
            \/ task[t].stamp = row.stamp /\ task[t].gen = row.gen

\* A token that is taken once has one holder: the answer a refresh holds is the
\* last of its login, and it replaces the one before; nobody else has it.
OneHolder ==
    \A t \in Tasks : task[t].pc = "persist" =>
        /\ task[t].new = issued[task[t].login] /\ task[t].gen + 1 = task[t].new
        /\ \A u \in Tasks : Active(task[u]) /\ task[u].login = task[t].login =>
             /\ task[u].gen < issued[task[t].login]
             /\ u # t => task[u].pc = "call"
        /\ row.mode = "oauth" /\ row.login = task[t].login =>
             row.gen < issued[task[t].login]

\* The row is no older than what was read of its login, and what is as old is
\* the same row.
RowIsNewest ==
    \A t \in Tasks :
        Active(task[t]) /\ row.mode = "oauth" /\ row.login = task[t].login =>
            /\ task[t].gen <= row.gen
            /\ task[t].gen = row.gen => task[t].stamp = row.stamp

\* The inductive invariant.
IInv ==
    /\ TypeOK /\ LoginsInOrder /\ Known /\ StampTells
    /\ rotates => OneHolder /\ RowIsNewest
    /\ NewestTokenKept

LEMMA Types ==
    ASSUME IInv
    PROVE  /\ started \in 0..MaxLogins /\ saved \in 0..MaxLogins /\ flow \in 0..MaxLogins
           /\ row \in Row /\ task \in [Tasks -> Task]
           /\ issued \in [Logins -> 0..MaxGen]
           /\ \A l \in 1..saved : l \in Logins
           /\ lost \subseteq Logins /\ clock \in 1..MaxTime
           /\ MaxLogins \in Nat /\ MaxGen \in Nat /\ MaxTime \in Nat /\ Attempts \in Nat \ {0}
  BY OAuthAssumption DEF IInv, TypeOK, Logins

LEMMA NoTokensRow == NoTokens \in Row
  <1>1. 0 \in 0..MaxGen /\ 0 \in Nat BY OAuthAssumption
  <1> QED BY <1>1 DEF NoTokens, Row, Both

LEMMA FreeTasks == Free \in Task /\ Polling \in Task /\ [Polling EXCEPT !.pc = "report"] \in Task
  <1>1. 0 \in 0..(Attempts - 1) /\ 0 \in 0..MaxGen /\ 0 \in Nat BY OAuthAssumption
  <1>2. Free \in Task BY <1>1 DEF Free, Task, Kinds
  <1>3. Polling \in Task BY <1>2 DEF Polling, Task, Kinds
  <1>4. [Polling EXCEPT !.pc = "report"] \in Task BY <1>3 DEF Task
  <1> QED BY <1>2, <1>3, <1>4

LEMMA NotActive ==
    /\ ~Active(Free) /\ ~Active(Polling) /\ ~Active([Polling EXCEPT !.pc = "report"])
  BY DEF Free, Polling, Active

(* --------------------------- steps of a refresh --------------------------- *)

\* A refresh goes on with what it read, or drops it; what it holds in hand it
\* keeps, or it is lost, or the row is of another login.
LEMMA TaskStep ==
    ASSUME IInv, NEW t \in Tasks, NEW a \in Task,
           Set(t, a), UNCHANGED <<clock, rotates, issued, row, flow, started, saved>>,
           lost \subseteq lost', lost' \subseteq Logins,
           rotates /\ row.mode = "oauth" /\ row.login \in InHand(task[t]) =>
               row.login \in lost' \cup InHand(a),
           Active(a) => /\ a.pc = task[t].pc /\ a.login = task[t].login
                        /\ a.gen = task[t].gen /\ a.stamp = task[t].stamp
                        /\ a.seen = task[t].seen /\ a.new = task[t].new
    PROVE  IInv'
  <1>1. task' = [task EXCEPT ![t] = a] /\ task \in [Tasks -> Task]
    BY Types DEF Set
  <1>2. task'[t] = a /\ \A u \in Tasks \ {t} : task'[u] = task[u] BY <1>1
  <1> DEFINE Same(u) == /\ task'[u].pc = task[u].pc /\ task'[u].login = task[u].login
                        /\ task'[u].gen = task[u].gen /\ task'[u].stamp = task[u].stamp
                        /\ task'[u].seen = task[u].seen /\ task'[u].new = task[u].new
  <1>3. \A u \in Tasks : Active(task'[u]) => Same(u) /\ Active(task[u])
    BY <1>2 DEF Active
  <1>4. TypeOK' BY <1>1 DEF IInv, TypeOK
  <1>5. LoginsInOrder' /\ Known' /\ StampTells'
    <2>1. LoginsInOrder' BY DEF IInv, LoginsInOrder
    <2>2. Known' BY <1>3 DEF IInv, Known, Active
    <2>3. StampTells' BY <1>3 DEF IInv, StampTells, Active
    <2> QED BY <2>1, <2>2, <2>3
  <1>6. ASSUME rotates PROVE OneHolder' /\ RowIsNewest'
    <2>1. ASSUME NEW u \in Tasks, task'[u].pc = "persist"
          PROVE  /\ task'[u].new = issued[task'[u].login] /\ task'[u].gen + 1 = task'[u].new
                 /\ \A v \in Tasks : Active(task'[v]) /\ task'[v].login = task'[u].login =>
                      /\ task'[v].gen < issued[task'[u].login]
                      /\ v # u => task'[v].pc = "call"
                 /\ row.mode = "oauth" /\ row.login = task'[u].login =>
                      row.gen < issued[task'[u].login]
      <3>1. Same(u) /\ task[u].pc = "persist" BY <1>3, <2>1 DEF Active
      <3> QED BY <1>3, <1>6, <3>1 DEF IInv, OneHolder
    <2>2. OneHolder' BY <2>1 DEF OneHolder, Active
    <2>3. RowIsNewest' BY <1>3, <1>6 DEF IInv, RowIsNewest, Active
    <2> QED BY <2>2, <2>3
  <1>7. NewestTokenKept'
    <2>1. ASSUME rotates, row.mode = "oauth", row.gen # issued[row.login]
          PROVE  row.login \in lost' \cup UNION {InHand(task'[u]) : u \in Tasks}
      <3>1. row.login \in lost \cup UNION {InHand(task[u]) : u \in Tasks}
        BY <2>1 DEF IInv, NewestTokenKept
      <3>2. CASE row.login \in lost BY <3>2
      <3>3. CASE row.login \in InHand(task[t])
        <4>1. row.login \in lost' \cup InHand(task'[t]) BY <1>2, <2>1, <3>3
        <4> QED BY <4>1
      <3>4. ASSUME NEW u \in Tasks \ {t}, row.login \in InHand(task[u])
            PROVE  row.login \in InHand(task'[u])
        BY <1>2, <3>4
      <3> QED BY <3>1, <3>2, <3>3, <3>4
    <2> QED BY <2>1 DEF NewestTokenKept, InHand
  <1> QED BY <1>4, <1>5, <1>6, <1>7 DEF IInv

\* A refresh reads the row.
LEMMA DetailsStep ==
    ASSUME IInv, NEW t \in Tasks, NEW b \in Task,
           Set(t, Details(b)), UNCHANGED <<clock, rotates, issued, row, flow, started, saved, lost>>,
           row.mode = "oauth", ~Active(task[t])
    PROVE  IInv'
  <1> DEFINE a == Details(b)
  <1>1. /\ a \in Task /\ a.pc = "call" /\ a.login = row.login /\ a.gen = row.gen
        /\ a.stamp = row.stamp /\ a.seen = saved
    <2>1. 0 \in 0..(Attempts - 1) BY OAuthAssumption
    <2>2. row.login \in {0} \cup Logins /\ row.gen \in 0..MaxGen /\ row.stamp \in Nat
      BY Types DEF Row
    <2>3. saved \in {0} \cup Logins BY DEF IInv, TypeOK
    <2> QED BY <2>1, <2>2, <2>3 DEF Details, Task
  <1> HIDE DEF a
  <1>2. task' = [task EXCEPT ![t] = a] /\ task \in [Tasks -> Task]
    BY Types DEF Set, a
  <1>3. task'[t] = a /\ \A u \in Tasks \ {t} : task'[u] = task[u] BY <1>2
  <1>4. TypeOK' BY <1>1, <1>2 DEF IInv, TypeOK
  <1>5. LoginsInOrder' BY DEF IInv, LoginsInOrder
  <1>6. Known' BY <1>1, <1>3, Types DEF IInv, Known, Active
  <1>7. StampTells' BY <1>1, <1>3 DEF IInv, StampTells, Active
  <1>8. ASSUME rotates PROVE OneHolder' /\ RowIsNewest'
    <2>1. ASSUME NEW u \in Tasks, task'[u].pc = "persist"
          PROVE  /\ task'[u].new = issued[task'[u].login] /\ task'[u].gen + 1 = task'[u].new
                 /\ \A v \in Tasks : Active(task'[v]) /\ task'[v].login = task'[u].login =>
                      /\ task'[v].gen < issued[task'[u].login]
                      /\ v # u => task'[v].pc = "call"
                 /\ row.mode = "oauth" /\ row.login = task'[u].login =>
                      row.gen < issued[task'[u].login]
      <3>1. u # t /\ task'[u] = task[u] BY <1>1, <1>3, <2>1
      <3> QED BY <1>1, <1>3, <1>8, <2>1, <3>1 DEF IInv, OneHolder
    <2>2. OneHolder' BY <2>1 DEF OneHolder, Active
    <2>3. RowIsNewest' BY <1>1, <1>3, <1>8, Types DEF IInv, RowIsNewest, Active, Row
    <2> QED BY <2>2, <2>3
  <1>9. NewestTokenKept'
    <2>1. InHand(task[t]) = {} BY DEF InHand, Active
    <2>2. \A u \in Tasks : InHand(task[u]) \subseteq InHand(task'[u])
      BY <1>3, <2>1
    <2>3. UNION {InHand(task[u]) : u \in Tasks} \subseteq UNION {InHand(task'[u]) : u \in Tasks}
      BY <2>2
    <2> QED BY <2>3 DEF IInv, NewestTokenKept, InHand
  <1> QED BY <1>4, <1>5, <1>6, <1>7, <1>8, <1>9 DEF IInv

LEMMA AgainOrNot ==
    ASSUME NEW a \in Task, a.pc = "call"
    PROVE  /\ GiveUp(a) \in Task /\ ~Active(GiveUp(a))
           /\ Again(a) \in Task
           /\ \/ ~Active(Again(a))
              \/ Again(a) = [a EXCEPT !.tries = a.tries + 1]
  <1>1. GiveUp(a) \in Task /\ ~Active(GiveUp(a))
    BY FreeTasks, NotActive DEF GiveUp
  <1>2. CASE a.tries + 1 < Attempts
    <2>1. a.tries + 1 \in 0..(Attempts - 1) BY <1>2, OAuthAssumption DEF Task
    <2> QED BY <1>1, <1>2, <2>1 DEF Again, Task
  <1>3. CASE ~(a.tries + 1 < Attempts) BY <1>1, <1>3 DEF Again
  <1> QED BY <1>1, <1>2, <1>3

\* The server gives out another answer, which is received or not.
LEMMA AnswerStep ==
    ASSUME IInv, NEW t \in Tasks, Answer(t)
    PROVE  IInv'
  <1> DEFINE a == task[t]
             l == a.login
             n == issued[l] + 1
  <1>1. /\ a \in Task /\ a.pc = "call" /\ Accepts(a)
        /\ issued' = [issued EXCEPT ![l] = n]
        /\ UNCHANGED <<clock, rotates, row, flow, started, saved>>
        /\ task \in [Tasks -> Task]
    BY Types DEF Answer
  <1>2. /\ l \in Logins /\ l \in 1..saved /\ issued[l] \in 0..MaxGen /\ n \in 0..MaxGen
        /\ a.gen <= issued[l] /\ a.seen <= saved
    BY <1>1, Types DEF IInv, Known, Active, Accepts
  <1>3. issued' \in [Logins -> 0..MaxGen] /\ issued'[l] = n
        /\ \A k \in Logins \ {l} : issued'[k] = issued[k]
    BY <1>1, <1>2, Types
  <1>4. PICK b \in Task :
          /\ task' = [task EXCEPT ![t] = b]
          /\ \/ /\ b.pc = "persist" /\ b.new = n /\ lost' = lost \ {l}
                /\ b.login = l /\ b.gen = a.gen /\ b.stamp = a.stamp /\ b.seen = a.seen
             \/ /\ b.pc = "call" /\ Loses({l})
                /\ b.login = l /\ b.gen = a.gen /\ b.stamp = a.stamp /\ b.seen = a.seen
             \/ ~Active(b) /\ Loses({l})
    <2>1. CASE /\ Set(t, [a EXCEPT !.pc = "persist", !.tries = 0, !.new = n])
               /\ lost' = lost \ {l}
      <3> DEFINE c == [a EXCEPT !.pc = "persist", !.tries = 0, !.new = n]
      <3>0. 0 \in 0..(Attempts - 1) BY OAuthAssumption
      <3>1. /\ c \in Task /\ c.pc = "persist" /\ c.new = n /\ c.login = l
            /\ c.gen = a.gen /\ c.stamp = a.stamp /\ c.seen = a.seen
        BY <1>1, <1>2, <3>0 DEF Task
      <3>2. task' = [task EXCEPT ![t] = c] BY <2>1 DEF Set
      <3> HIDE DEF c
      <3> QED BY <2>1, <3>1, <3>2
    <2>2. CASE Set(t, Again(a)) /\ Loses({l})
      <3>1. CASE ~Active(Again(a)) BY <1>1, <2>2, <3>1, AgainOrNot DEF Set
      <3>2. CASE Again(a) = [a EXCEPT !.tries = a.tries + 1]
        <4>1. /\ Again(a) \in Task /\ Again(a).pc = "call" /\ Again(a).login = l
              /\ Again(a).gen = a.gen /\ Again(a).stamp = a.stamp /\ Again(a).seen = a.seen
          BY <1>1, <3>2, AgainOrNot DEF Task
        <4> QED BY <2>2, <4>1 DEF Set
      <3> QED BY <1>1, <3>1, <3>2, AgainOrNot
    <2>3. CASE Set(t, GiveUp(a)) /\ Loses({l})
      BY <1>1, <2>3, AgainOrNot DEF Set
    <2> QED BY <2>1, <2>2, <2>3 DEF Answer
  <1> HIDE DEF a, n
  <1>5. task'[t] = b /\ \A u \in Tasks \ {t} : task'[u] = task[u] BY <1>1, <1>4
  <1>6. n = issued[l] + 1 /\ l = task[t].login /\ a = task[t] BY DEF n, a
  <1> HIDE DEF l
  <1>7. TypeOK'
    <2>1. lost' \subseteq Logins BY <1>2, <1>4, Types DEF Loses
    <2> QED BY <1>1, <1>3, <1>4, <2>1 DEF IInv, TypeOK
  <1>8. LoginsInOrder'
    <2>1. \A k \in Logins : k > saved => issued'[k] = issued[k]
      BY <1>2, <1>3, Types
    <2> QED BY <1>1, <2>1 DEF IInv, LoginsInOrder
  <1>9. \A k \in Logins : issued[k] \in 0..MaxGen /\ issued[k] <= issued'[k]
    BY <1>2, <1>3, <1>6, Types
  <1>10. Known'
    <2>1. row.mode = "oauth" => row.login \in 1..saved /\ row.gen <= issued'[row.login]
      <3>1. row.gen \in 0..MaxGen BY Types DEF Row
      <3> QED BY <1>3, <1>9, <3>1, Types DEF IInv, Known
    <2>2. ASSUME NEW u \in Tasks, Active(task'[u])
          PROVE  /\ task'[u].login \in 1..saved /\ task'[u].seen <= saved
                 /\ task'[u].gen <= issued'[task'[u].login]
                 /\ task'[u].pc = "persist" => task'[u].new <= issued'[task'[u].login]
      <3>1. CASE u = t
        <4>1. /\ task'[u].login = l /\ task'[u].gen = a.gen /\ task'[u].seen = a.seen
              /\ task'[u].pc = "persist" => task'[u].new = n
          BY <1>4, <1>5, <2>2, <3>1
        <4>2. a.gen \in 0..MaxGen BY <1>1, <1>6 DEF Task
        <4> QED BY <1>2, <1>3, <1>9, <4>1, <4>2, Types
      <3>2. CASE u # t
        <4>1. task'[u] = task[u] /\ task[u].gen \in 0..MaxGen /\ task[u].new \in 0..MaxGen
          BY <1>1, <1>5, <3>2 DEF Task
        <4>2. /\ task[u].login \in 1..saved /\ task[u].seen <= saved
              /\ task[u].gen <= issued[task[u].login]
              /\ task[u].pc = "persist" => task[u].new <= issued[task[u].login]
          BY <2>2, <4>1 DEF IInv, Known
        <4>3. task[u].login \in Logins BY <4>2, Types
        <4>4. issued[task[u].login] <= issued'[task[u].login] BY <1>9, <4>3
        <4>5. issued[task[u].login] \in Nat /\ issued'[task[u].login] \in Nat
          BY <1>3, <4>3, Types
        <4> QED BY <1>1, <4>1, <4>2, <4>4, <4>5
      <3> QED BY <3>1, <3>2
    <2> QED BY <1>1, <2>1, <2>2 DEF IInv, Known
  <1>11. StampTells'
    <2>1. ASSUME NEW u \in Tasks, Active(task'[u])
          PROVE  /\ Active(task[u]) /\ task'[u].seen = task[u].seen
                 /\ task'[u].stamp = task[u].stamp /\ task'[u].gen = task[u].gen
                 /\ task'[u].login = task[u].login
      BY <1>1, <1>4, <1>5, <1>6, <2>1 DEF Active
    <2> QED BY <1>1, <2>1 DEF IInv, StampTells
  <1>12. ASSUME rotates PROVE OneHolder' /\ RowIsNewest'
    <2>1. a.gen = issued[l] BY <1>1, <1>6, <1>12 DEF Accepts
    <2>2. \A u \in Tasks : task[u].pc = "persist" => task[u].login # l
      <3>1. ASSUME NEW u \in Tasks, task[u].pc = "persist", task[u].login = l PROVE FALSE
        <4>1. a.gen < issued[l]
          BY <1>1, <1>6, <1>12, <3>1 DEF IInv, OneHolder, Active
        <4> QED BY <1>2, <2>1, <4>1
      <3> QED BY <3>1
    <2>3. ASSUME NEW u \in Tasks, task'[u].pc = "persist"
          PROVE  /\ task'[u].new = issued'[task'[u].login] /\ task'[u].gen + 1 = task'[u].new
                 /\ \A v \in Tasks : Active(task'[v]) /\ task'[v].login = task'[u].login =>
                      /\ task'[v].gen < issued'[task'[u].login]
                      /\ v # u => task'[v].pc = "call"
                 /\ row.mode = "oauth" /\ row.login = task'[u].login =>
                      row.gen < issued'[task'[u].login]
      <3>1. CASE u = t
        <4>1. b.pc = "persist" /\ b.login = l /\ b.gen = a.gen /\ b.new = n
          BY <1>4, <1>5, <2>3, <3>1 DEF Active
        <4>2. ASSUME NEW v \in Tasks, Active(task'[v]), task'[v].login = l
              PROVE  task'[v].gen < n /\ (v # u => task'[v].pc = "call")
          <5>1. CASE v = t BY <1>2, <1>5, <1>6, <2>1, <3>1, <4>1, <5>1
          <5>2. CASE v # t
            <6>1. task'[v] = task[v] /\ task[v].gen \in 0..MaxGen
              BY <1>1, <1>5, <5>2 DEF Task
            <6>2. task[v].gen <= issued[l] BY <4>2, <6>1 DEF IInv, Known
            <6> QED BY <1>2, <1>6, <2>2, <4>2, <6>1, <6>2 DEF Active
          <5> QED BY <5>1, <5>2
        <4>3. row.mode = "oauth" /\ row.login = l => row.gen < n
          <5>1. row.gen \in 0..MaxGen BY Types DEF Row
          <5> QED BY <1>2, <1>6, <5>1 DEF IInv, Known
        <4> QED BY <1>2, <1>3, <1>5, <1>6, <2>1, <3>1, <4>1, <4>2, <4>3
      <3>2. CASE u # t
        <4>1. task'[u] = task[u] /\ task[u].login # l /\ task[u].login \in Logins
          BY <1>5, <2>2, <2>3, <3>2, Types DEF IInv, Known, Active
        <4>2. issued'[task[u].login] = issued[task[u].login] BY <1>3, <4>1
        <4>3. ASSUME NEW v \in Tasks, Active(task'[v]), task'[v].login = task[u].login
              PROVE  task'[v].gen < issued[task[u].login] /\ (v # u => task'[v].pc = "call")
          <5>1. v # t BY <1>4, <1>5, <4>1, <4>3
          <5> QED BY <1>5, <1>12, <2>3, <4>1, <4>3, <5>1 DEF IInv, OneHolder
        <4> QED BY <1>12, <2>3, <4>1, <4>2, <4>3 DEF IInv, OneHolder
      <3> QED BY <3>1, <3>2
    <2>4. OneHolder' BY <1>1, <2>3 DEF OneHolder, Active
    <2>5. ASSUME NEW u \in Tasks, Active(task'[u])
          PROVE  /\ Active(task[u]) /\ task'[u].login = task[u].login
                 /\ task'[u].stamp = task[u].stamp /\ task'[u].gen = task[u].gen
      BY <1>1, <1>4, <1>5, <1>6, <2>5 DEF Active
    <2>6. RowIsNewest' BY <1>1, <1>12, <2>5 DEF IInv, RowIsNewest
    <2> QED BY <2>4, <2>6
  <1>13. NewestTokenKept'
    <2>1. ASSUME rotates, row.mode = "oauth", row.gen # issued'[row.login]
          PROVE  row.login \in lost' \cup UNION {InHand(task[u])' : u \in Tasks}
      <3>1. CASE row.login = l /\ l \in lost' BY <3>1
      <3>2. CASE row.login = l /\ l \notin lost'
        <4>1. b.pc = "persist" /\ b.new = n /\ b.login = l BY <1>4, <2>1, <3>2 DEF Loses
        <4>2. l \in InHand(task[t])' BY <1>3, <1>5, <4>1 DEF InHand
        <4> QED BY <3>2, <4>2
      <3>3. CASE row.login # l
        <4>1. row.login \in Logins BY <2>1, Types DEF IInv, Known
        <4>2. issued'[row.login] = issued[row.login] BY <1>3, <3>3, <4>1
        <4>3. row.login \in lost \cup UNION {InHand(task[u]) : u \in Tasks}
          BY <2>1, <4>2 DEF IInv, NewestTokenKept
        <4>4. CASE row.login \in lost BY <1>4, <3>3, <4>4 DEF Loses
        <4>5. ASSUME NEW u \in Tasks, row.login \in InHand(task[u])
              PROVE  row.login \in InHand(task[u])'
          <5>1. task[u].pc = "persist" /\ task[u].login = row.login
                /\ task[u].new = issued[row.login]
            BY <4>5 DEF InHand
          <5>2. u # t BY <1>1, <1>6, <5>1
          <5> QED BY <1>5, <4>2, <5>1, <5>2 DEF InHand
        <4> QED BY <4>3, <4>4, <4>5
      <3> QED BY <3>1, <3>2, <3>3
    <2> QED BY <1>1, <2>1 DEF NewestTokenKept
  <1> QED BY <1>1, <1>7, <1>8, <1>10, <1>11, <1>12, <1>13 DEF IInv

\* The write of an answer: whatever was there, the row has the last answer of a
\* login and a later stamp.
LEMMA PersistStep ==
    ASSUME IInv, NEW t \in Tasks, Persist(t)
    PROVE  IInv'
  <1> DEFINE a == task[t]
  <1>1. /\ a \in Task /\ a.pc = "persist" /\ row.mode = "oauth" /\ row.stamp = a.stamp
        /\ row' = Renewed(a) /\ task' = [task EXCEPT ![t] = Over(a)]
        /\ UNCHANGED <<clock, rotates, issued, flow, started, saved, lost>>
        /\ task \in [Tasks -> Task] /\ row \in Row
    BY Types DEF Persist, Matches, Set
  <1> HIDE DEF a
  <1>2. Over(a) \in Task /\ ~Active(Over(a)) BY FreeTasks, NotActive DEF Over
  <1>3. task'[t] = Over(a) /\ \A u \in Tasks \ {t} : task'[u] = task[u] BY <1>1
  <1>4. \A u \in Tasks : Active(task'[u]) => u # t /\ task'[u] = task[u] BY <1>2, <1>3
  <1>5. a.login \in 1..saved /\ a.login \in Logins /\ a.new \in 0..MaxGen
    BY <1>1, Types DEF IInv, Known, Active, Task, a
  <1>6. /\ row'.mode = "oauth" /\ row'.login = a.login /\ row'.gen = a.new
        /\ row'.stamp = Stamp(a.stamp) /\ row'.stamp \in Nat /\ row' \in Row
        /\ row'.stamp > row.stamp
    <2>1. a.stamp \in Nat /\ clock \in Nat BY <1>1, Types DEF Task
    <2>2. Stamp(a.stamp) \in Nat /\ Stamp(a.stamp) > a.stamp BY <2>1 DEF Stamp
    <2> QED BY <1>1, <1>5, <2>2 DEF Renewed, Row, Both
  <1>7. TypeOK' BY <1>1, <1>2, <1>6 DEF IInv, TypeOK
  <1>8. LoginsInOrder' BY <1>1 DEF IInv, LoginsInOrder
  <1>9. Known'
    <2>1. a.new <= issued[a.login] BY <1>1 DEF IInv, Known, Active, a
    <2> QED BY <1>1, <1>4, <1>5, <1>6, <2>1 DEF IInv, Known
  <1>10. StampTells'
    <2>1. ASSUME NEW u \in Tasks, Active(task[u]), task[u].seen = saved
          PROVE  task[u].stamp < row'.stamp
      <3>1. task[u].stamp \in Nat /\ row.stamp \in Nat BY <1>1 DEF Task, Row
      <3>2. task[u].stamp <= row.stamp BY <1>1, <2>1, <3>1 DEF IInv, StampTells
      <3> QED BY <1>6, <3>1, <3>2
    <2> QED BY <1>1, <1>4, <2>1 DEF StampTells
  <1>11. ASSUME rotates
         PROVE  OneHolder' /\ RowIsNewest' /\ a.new = issued[a.login]
    <2>1. a.new = issued[a.login] BY <1>1, <1>11 DEF IInv, OneHolder, a
    <2>2. \A u \in Tasks : Active(task'[u]) /\ task'[u].login = a.login =>
              task'[u].gen < issued[a.login] /\ task'[u].pc = "call"
      BY <1>1, <1>4, <1>11 DEF IInv, OneHolder, a
    <2>3. ASSUME NEW u \in Tasks, task'[u].pc = "persist"
          PROVE  /\ task'[u].new = issued[task'[u].login] /\ task'[u].gen + 1 = task'[u].new
                 /\ \A v \in Tasks : Active(task'[v]) /\ task'[v].login = task'[u].login =>
                      /\ task'[v].gen < issued[task'[u].login]
                      /\ v # u => task'[v].pc = "call"
                 /\ task'[u].login # a.login
      <3>1. Active(task'[u]) BY <2>3 DEF Active
      <3>2. u # t /\ task'[u] = task[u] BY <1>4, <3>1
      <3> QED BY <1>4, <1>11, <2>2, <2>3, <3>1, <3>2 DEF IInv, OneHolder
    <2>4. OneHolder' BY <1>1, <1>6, <2>3 DEF OneHolder, Active
    <2>5. RowIsNewest'
      <3>1. ASSUME NEW u \in Tasks, Active(task'[u]), task'[u].login = a.login
            PROVE  task'[u].gen <= a.new /\ task'[u].gen # a.new
        <4>1. task'[u].gen \in Nat /\ issued[a.login] \in Nat
          BY <1>1, <1>4, <1>5, <3>1, Types DEF Task
        <4> QED BY <2>1, <2>2, <3>1, <4>1
      <3> QED BY <1>6, <3>1 DEF RowIsNewest
    <2> QED BY <2>1, <2>4, <2>5
  <1>12. NewestTokenKept' BY <1>1, <1>6, <1>11 DEF NewestTokenKept
  <1> QED BY <1>1, <1>7, <1>8, <1>9, <1>10, <1>11, <1>12 DEF IInv

(* ------------------- the row, logins and the world ------------------------ *)

\* The row is marked, and a refresh that is over goes.
LEMMA MarkStep ==
    ASSUME IInv, row' \in Row, task' \in [Tasks -> Task],
           row'.mode = row.mode, row'.login = row.login,
           row'.gen = row.gen, row'.stamp = row.stamp,
           \A u \in Tasks : Active(task[u]) \/ Active(task'[u]) => task'[u] = task[u],
           UNCHANGED <<clock, rotates, issued, flow, started, saved, lost>>
    PROVE  IInv'
  <1>1. TypeOK' BY DEF IInv, TypeOK
  <1>2. LoginsInOrder' /\ Known' /\ StampTells'
    BY DEF IInv, LoginsInOrder, Known, StampTells, Active
  <1>3. ASSUME rotates PROVE OneHolder' /\ RowIsNewest'
    BY <1>3 DEF IInv, OneHolder, RowIsNewest, Active
  <1>4. ASSUME NEW u \in Tasks PROVE InHand(task[u]) = InHand(task[u])'
    BY DEF InHand, Active
  <1>5. UNION {InHand(task[u]) : u \in Tasks} = UNION {InHand(task[u])' : u \in Tasks}
    BY <1>4
  <1>6. NewestTokenKept'
    BY <1>5 DEF IInv, NewestTokenKept
  <1> QED BY <1>1, <1>2, <1>3, <1>6 DEF IInv

\* Nothing that a refresh has in hand changes.
LEMMA SameTasks ==
    ASSUME UNCHANGED <<task, issued, lost>>
    PROVE  UNION {InHand(task[u]) : u \in Tasks}' = UNION {InHand(task[u]) : u \in Tasks}
  BY DEF InHand

LEMMA LoginSteps ==
    ASSUME IInv,
           \/ BeginLogin \/ CancelLogin \/ (\E l \in Logins : FinishLogin(l))
           \/ Disconnect \/ SetClock
    PROVE  IInv' /\ (saved' # saved => saved' = started)
  <1>1. CASE BeginLogin
    <2>1. /\ started' = started + 1 /\ flow' = started + 1 /\ started < MaxLogins
          /\ UNCHANGED <<clock, rotates, issued, row, saved, task, lost>>
      BY <1>1 DEF BeginLogin
    <2>2. started' \in Logins BY <2>1, Types DEF Logins
    <2>3. TypeOK' BY <2>1, <2>2 DEF IInv, TypeOK
    <2>4. LoginsInOrder' BY <2>1, Types DEF IInv, LoginsInOrder
    <2>5. Known' /\ StampTells' /\ (rotates => OneHolder' /\ RowIsNewest') /\ NewestTokenKept'
      BY <2>1, SameTasks DEF IInv, Known, StampTells, OneHolder, RowIsNewest, NewestTokenKept, Active
    <2> QED BY <2>1, <2>3, <2>4, <2>5 DEF IInv
  <1>2. CASE CancelLogin
    <2>1. flow' = 0 /\ UNCHANGED <<clock, rotates, issued, row, started, saved, task, lost>>
      BY <1>2 DEF CancelLogin
    <2>2. TypeOK' /\ LoginsInOrder' BY <2>1 DEF IInv, TypeOK, LoginsInOrder
    <2>3. Known' /\ StampTells' /\ (rotates => OneHolder' /\ RowIsNewest') /\ NewestTokenKept'
      BY <2>1, SameTasks DEF IInv, Known, StampTells, OneHolder, RowIsNewest, NewestTokenKept, Active
    <2> QED BY <2>1, <2>2, <2>3 DEF IInv
  <1>3. ASSUME NEW l \in Logins, FinishLogin(l)
        PROVE  IInv' /\ (saved' # saved => saved' = started)
    <2>0. row' = [row EXCEPT !.mode = "oauth", !.login = l, !.gen = 0, !.stamp = clock,
                            !.has = Both, !.due = FALSE, !.error = FALSE]
      BY <1>3 DEF FinishLogin
    <2>1. /\ flow = l /\ flow' = 0 /\ saved' = l
          /\ UNCHANGED <<clock, rotates, issued, started, task, lost>>
      BY <1>3 DEF FinishLogin, Current
    <2>2. /\ l # 0 /\ l = started /\ saved < l /\ issued[l] = 0
          /\ l \in Nat /\ saved \in Nat /\ clock \in Nat
      BY <2>1, Types DEF IInv, LoginsInOrder, Logins
    <2>3. /\ row' \in Row /\ row'.mode = "oauth" /\ row'.login = l /\ row'.gen = 0
          /\ row'.stamp = clock
      BY <2>0, <2>2, Types DEF Row, Both
    <2>4. TypeOK' BY <2>1, <2>3 DEF IInv, TypeOK
    <2>5. LoginsInOrder' BY <2>1, <2>2, Types DEF IInv, LoginsInOrder
    <2>6. \A u \in Tasks : Active(task[u]) =>
              /\ task[u].login \in 1..saved /\ task[u].login # l
              /\ task[u].seen <= saved /\ task[u].seen # l /\ task[u].seen \in Nat
      BY <2>2, Types DEF IInv, Known, Task, Logins
    <2>7. Known'
      <3>1. 1..saved \subseteq 1..l /\ l \in 1..l BY <2>2, Types DEF Logins
      <3>2. \A u \in Tasks : Active(task[u]) => task[u].seen <= l BY <2>2, <2>6
      <3> QED BY <2>1, <2>2, <2>3, <2>6, <3>1, <3>2 DEF IInv, Known, Active
    <2>8. StampTells' BY <2>1, <2>6 DEF StampTells, Active
    <2>9. ASSUME rotates PROVE OneHolder' /\ RowIsNewest'
      BY <2>1, <2>3, <2>6, <2>9 DEF IInv, OneHolder, RowIsNewest, Active
    <2>10. NewestTokenKept' BY <2>1, <2>2, <2>3 DEF NewestTokenKept
    <2> QED BY <2>1, <2>2, <2>4, <2>5, <2>7, <2>8, <2>9, <2>10 DEF IInv
  <1>4. CASE Disconnect
    <2>0. row' = [NoTokens EXCEPT !.enabled = row.enabled] BY <1>4 DEF Disconnect
    <2>1. UNCHANGED <<clock, rotates, issued, flow, started, saved, task, lost>>
      BY <1>4 DEF Disconnect
    <2>2. row' \in Row /\ row'.mode = "api_key" /\ row'.login = 0
      <3>1. row.enabled \in BOOLEAN BY Types DEF Row
      <3>2. NoTokens \in Row BY NoTokensRow
      <3>3. row' \in Row BY <2>0, <3>1, <3>2 DEF Row
      <3> QED BY <2>0, <3>3 DEF NoTokens
    <2>3. TypeOK' /\ LoginsInOrder' BY <2>1, <2>2 DEF IInv, TypeOK, LoginsInOrder
    <2>4. Known' /\ StampTells' /\ (rotates => OneHolder' /\ RowIsNewest') /\ NewestTokenKept'
      BY <2>1, <2>2 DEF IInv, Known, StampTells, OneHolder, RowIsNewest, NewestTokenKept, Active
    <2> QED BY <2>1, <2>3, <2>4 DEF IInv
  <1>5. CASE SetClock
    <2>1. /\ clock' \in 1..MaxTime
          /\ UNCHANGED <<rotates, issued, row, flow, started, saved, task, lost>>
      BY <1>5 DEF SetClock
    <2>2. TypeOK' /\ LoginsInOrder' BY <2>1 DEF IInv, TypeOK, LoginsInOrder
    <2>3. Known' /\ StampTells' /\ (rotates => OneHolder' /\ RowIsNewest') /\ NewestTokenKept'
      BY <2>1, SameTasks DEF IInv, Known, StampTells, OneHolder, RowIsNewest, NewestTokenKept, Active
    <2> QED BY <2>1, <2>2, <2>3 DEF IInv
  <1> QED BY <1>1, <1>2, <1>3, <1>4, <1>5

LEMMA CrashStep ==
    ASSUME IInv, Crash
    PROVE  IInv'
  <1>1. /\ task' = [t \in Tasks |-> Free] /\ flow' = 0
        /\ lost' = IF rotates THEN lost \cup UNION {InHand(task[t]) : t \in Tasks} ELSE lost
        /\ UNCHANGED <<clock, rotates, issued, row, started, saved>>
    BY DEF Crash, Loses
  <1>2. \A t \in Tasks : ~Active(task'[t]) BY <1>1, NotActive
  <1>3. \A t \in Tasks : InHand(task[t]) \subseteq Logins
    BY Types DEF InHand, IInv, Known, Active
  <1>4. TypeOK' BY <1>1, <1>3, FreeTasks DEF IInv, TypeOK
  <1>5. LoginsInOrder' BY <1>1 DEF IInv, LoginsInOrder
  <1>6. Known' /\ StampTells' /\ OneHolder' /\ RowIsNewest'
    BY <1>1, <1>2 DEF IInv, Known, StampTells, OneHolder, RowIsNewest, Active
  <1>7. NewestTokenKept' BY <1>1 DEF IInv, NewestTokenKept
  <1> QED BY <1>4, <1>5, <1>6, <1>7 DEF IInv

LEMMA OverTask == \A a \in Task : Over(a) \in Task /\ ~Active(Over(a)) /\ InHand(Over(a)) = {}
  BY FreeTasks, NotActive DEF Over, InHand, Active

LEMMA InHandLogins ==
    ASSUME IInv, NEW t \in Tasks
    PROVE  InHand(task[t]) \subseteq Logins
  BY Types DEF InHand, IInv, Known, Active

LEMMA RefreshStep ==
    ASSUME IInv, NEW t \in Tasks, Refresh(t)
    PROVE  IInv'
  <1>0. task[t] \in Task /\ lost \subseteq Logins BY Types
  <1>1. CASE StartRefresh(t)
    <2> DEFINE b == [Free EXCEPT !.kind = "request"]
    <2>1. b \in Task BY FreeTasks DEF Task, Kinds
    <2>2. ~Active(task[t]) BY <1>1, NotActive DEF StartRefresh
    <2> QED BY <1>1, <2>1, <2>2, DetailsStep DEF StartRefresh
  <1>2. CASE StartLoop(t)
    <2>1. InHand(task[t]) = {} BY <1>2, NotActive DEF StartLoop, InHand, Active
    <2> QED BY <1>0, <1>2, <2>1, FreeTasks, NotActive, TaskStep DEF StartLoop
  <1>3. CASE ListDue(t)
    <2>1. ~Active(task[t]) BY <1>3, NotActive DEF ListDue
    <2> QED BY <1>0, <1>3, <2>1, DetailsStep DEF ListDue, Listed
  <1>13. CASE Unresolved(t)
    <2>1. InHand(task[t]) = {} BY <1>13, NotActive DEF Unresolved, InHand, Active
    <2> QED BY <1>0, <1>13, <2>1, FreeTasks, NotActive, TaskStep DEF Unresolved
  <1>4. CASE Answer(t) BY <1>4, AnswerStep
  <1>5. CASE Refused(t)
    <2>1. task[t].pc = "call" /\ InHand(task[t]) = {} BY <1>5 DEF Refused, InHand
    <2>2. PICK a \in {Again(task[t]), GiveUp(task[t])} : Set(t, a)
      BY <1>5 DEF Refused
    <2>3. /\ a \in Task
          /\ ~Active(a) \/ a = [task[t] EXCEPT !.tries = task[t].tries + 1]
      BY <1>0, <2>1, AgainOrNot
    <2>4. Active(a) => /\ a.pc = task[t].pc /\ a.login = task[t].login
                       /\ a.gen = task[t].gen /\ a.stamp = task[t].stamp
                       /\ a.seen = task[t].seen /\ a.new = task[t].new
      BY <1>0, <2>3 DEF Task
    <2>5. UNCHANGED <<clock, rotates, issued, row, flow, started, saved, lost>>
      BY <1>5 DEF Refused
    <2> QED BY <1>0, <2>1, <2>2, <2>3, <2>4, <2>5, TaskStep
  <1>6. CASE Persist(t) BY <1>6, PersistStep
  <1>7. CASE Conflict(t)
    <2>1. /\ task[t].pc = "persist" /\ ~(row.mode = "oauth" /\ row.stamp = task[t].stamp)
          /\ Set(t, Over(task[t]))
          /\ UNCHANGED <<clock, rotates, issued, row, flow, started, saved, lost>>
      BY <1>7 DEF Conflict, Matches
    <2>2. ASSUME rotates, row.mode = "oauth", row.login \in InHand(task[t]) PROVE FALSE
      <3>1. row.login = task[t].login BY <2>2 DEF InHand
      <3>2. /\ task[t].new = issued[task[t].login] /\ task[t].gen + 1 = task[t].new
            /\ row.gen < issued[task[t].login]
            /\ task[t].gen <= row.gen /\ (task[t].gen = row.gen => task[t].stamp = row.stamp)
        BY <2>1, <2>2, <3>1 DEF IInv, OneHolder, RowIsNewest, Active
      <3>3. task[t].gen \in Nat /\ row.gen \in Nat BY <1>0, Types DEF Task, Row
      <3> QED BY <2>1, <2>2, <3>2, <3>3
    <2> QED BY <1>0, <2>1, <2>2, OverTask, TaskStep
  <1>8. CASE PersistFails(t)
    BY <1>0, <1>8, OverTask, InHandLogins, TaskStep DEF PersistFails, Loses
  <1>9. CASE Report(t)
    <2>1. /\ task[t].pc = "report" /\ row' = [row EXCEPT !.error = TRUE]
          /\ task' = [task EXCEPT ![t] = Over(task[t])]
          /\ UNCHANGED <<clock, rotates, issued, flow, started, saved, lost>>
          /\ row \in Row /\ task \in [Tasks -> Task]
      BY <1>9, Types DEF Report, Set
    <2>2. /\ row' \in Row /\ row'.mode = row.mode /\ row'.login = row.login
          /\ row'.gen = row.gen /\ row'.stamp = row.stamp
      BY <2>1 DEF Row
    <2>3. task' \in [Tasks -> Task] BY <1>0, <2>1, OverTask
    <2>4. \A u \in Tasks : Active(task[u]) \/ Active(task'[u]) => task'[u] = task[u]
      <3>1. ~Active(task[t]) BY <2>1 DEF Active
      <3>2. task'[t] = Over(task[t]) /\ \A u \in Tasks \ {t} : task'[u] = task[u] BY <2>1
      <3> QED BY <1>0, <3>1, <3>2, OverTask
    <2> QED BY <2>1, <2>2, <2>3, <2>4, MarkStep
  <1>10. CASE ReportFails(t)
    <2>1. InHand(task[t]) = {} BY <1>10 DEF ReportFails, InHand
    <2> QED BY <1>0, <1>10, <2>1, OverTask, TaskStep DEF ReportFails
  <1>11. CASE LeaveRequest(t)
    BY <1>0, <1>11, FreeTasks, NotActive, InHandLogins, TaskStep DEF LeaveRequest, Loses
  <1>12. CASE StopLoop(t)
    <2>1. CASE Set(t, Free) /\ Loses(InHand(task[t]))
      BY <1>0, <1>12, <2>1, FreeTasks, NotActive, InHandLogins, TaskStep DEF StopLoop, Loses
    <2>2. CASE Set(t, [task[t] EXCEPT !.kind = "orphan"]) /\ lost' = lost
      <3> DEFINE a == [task[t] EXCEPT !.kind = "orphan"]
      <3>1. /\ a \in Task /\ a.pc = task[t].pc /\ a.login = task[t].login
            /\ a.gen = task[t].gen /\ a.stamp = task[t].stamp
            /\ a.seen = task[t].seen /\ a.new = task[t].new
        BY <1>0 DEF Task, Kinds
      <3>2. InHand(a) = InHand(task[t]) BY <3>1 DEF InHand
      <3>3. Set(t, a) BY <2>2
      <3>4. UNCHANGED <<clock, rotates, issued, row, flow, started, saved>>
        BY <1>12 DEF StopLoop
      <3> HIDE DEF a
      <3> QED BY <1>0, <2>2, <3>1, <3>2, <3>3, <3>4, TaskStep
    <2> QED BY <1>12, <2>1, <2>2 DEF StopLoop
  <1> QED BY <1>1, <1>2, <1>3, <1>4, <1>5, <1>6, <1>7, <1>8, <1>9, <1>10, <1>11,
             <1>12, <1>13 DEF Refresh

(* ----------------------------- theorems ----------------------------------- *)

RowStart(r) ==
    \/ r.mode = "api_key" /\ r.login = 0
    \/ r.mode = "oauth" /\ r.login = 1 /\ 1 \in Logins

\* The row of a provider without tokens, or with those of an import.
LEMMA FirstRow ==
    ASSUME NEW r \in {NoTokens} \cup Imported
    PROVE  r \in Row /\ r.gen = 0 /\ RowStart(r)
  <1>1. CASE r \in Imported
    <2>1. PICK h \in SUBSET Both :
            r = [NoTokens EXCEPT !.mode = "oauth", !.login = 1, !.has = h]
      BY <1>1 DEF Imported
    <2>0. 1 \in Logins BY OAuthAssumption DEF Logins
    <2>2. r \in Row
      <3>1. 0 \in 0..MaxGen /\ 0 \in Nat BY OAuthAssumption
      <3>2. r = [mode |-> "oauth", login |-> 1, gen |-> 0, stamp |-> 0, has |-> h,
                 enabled |-> TRUE, due |-> FALSE, error |-> FALSE]
        BY <2>1 DEF NoTokens
      <3> QED BY <2>0, <3>1, <3>2 DEF Row
    <2>3. r.mode = "oauth" /\ r.login = 1 /\ r.gen = 0 BY <2>1 DEF NoTokens
    <2> QED BY <2>0, <2>2, <2>3 DEF RowStart
  <1>2. CASE r = NoTokens BY <1>2, NoTokensRow DEF NoTokens, RowStart
  <1> QED BY <1>1, <1>2

LEMMA InitIInv == Init => IInv
  <1> SUFFICES ASSUME Init PROVE IInv OBVIOUS
  <1>1. /\ clock = 1 /\ rotates \in BOOLEAN /\ issued = [l \in Logins |-> 0]
        /\ row \in {NoTokens} \cup Imported
        /\ flow = 0 /\ started = row.login /\ saved = row.login
        /\ task = [t \in Tasks |-> Free] /\ lost = {}
    BY DEF Init
  <1>2. row \in Row /\ row.gen = 0 /\ RowStart(row) BY <1>1, FirstRow
  <1>3. RowStart(row) => row.login \in {0} \cup Logins BY DEF RowStart
  <1>7. TypeOK BY <1>1, <1>2, <1>3, FreeTasks, OAuthAssumption DEF TypeOK
  <1>4. LoginsInOrder BY <1>1, <1>2, <1>3 DEF LoginsInOrder, RowStart
  <1>5. \A t \in Tasks : ~Active(task[t]) BY <1>1, NotActive
  <1>6. Known /\ StampTells /\ OneHolder /\ RowIsNewest /\ NewestTokenKept
    BY <1>1, <1>2, <1>5 DEF Known, StampTells, OneHolder, RowIsNewest, NewestTokenKept,
                            Active, RowStart
  <1> QED BY <1>4, <1>6, <1>7 DEF IInv

LEMMA NextIInv == IInv /\ [Next]_vars => IInv'
  <1> SUFFICES ASSUME IInv, [Next]_vars PROVE IInv' OBVIOUS
  <1>1. CASE \E t \in Tasks : Refresh(t) BY <1>1, RefreshStep
  <1>2. CASE \/ BeginLogin \/ CancelLogin \/ (\E l \in Logins : FinishLogin(l))
             \/ Disconnect \/ SetClock
    BY <1>2, LoginSteps
  <1>3. CASE Age
    <2>1. /\ row' = [row EXCEPT !.due = TRUE]
          /\ UNCHANGED <<clock, rotates, issued, flow, started, saved, task, lost>>
      BY <1>3 DEF Age
    <2>2. /\ row' \in Row /\ row'.mode = row.mode /\ row'.login = row.login
          /\ row'.gen = row.gen /\ row'.stamp = row.stamp
      BY <2>1, Types DEF Row
    <2> QED BY <2>1, <2>2, Types, MarkStep
  <1>6. CASE SetEnabled
    <2>1. PICK enabled \in BOOLEAN : row' = [row EXCEPT !.enabled = enabled]
      BY <1>6 DEF SetEnabled
    <2>2. /\ row' \in Row /\ row'.mode = row.mode /\ row'.login = row.login
          /\ row'.gen = row.gen /\ row'.stamp = row.stamp
      BY <2>1, Types DEF Row
    <2> QED BY <1>6, <2>2, Types, MarkStep DEF SetEnabled
  <1>4. CASE Crash BY <1>4, CrashStep
  <1>5. CASE UNCHANGED vars
    <2>1. UNCHANGED <<clock, rotates, issued, row, flow, started, saved, task, lost>>
      BY <1>5 DEF vars
    <2> QED BY <2>1, Types, MarkStep
  <1> QED BY <1>1, <1>2, <1>3, <1>4, <1>5, <1>6 DEF Next

\* The inductive invariant holds for any number of refreshes, attempts and logins.
THEOREM Inductive == Spec => []IInv
  BY InitIInv, NextIInv, PTL DEF Spec

\* The types of the row, the refreshes and the login under way (OAuthRefresh!TypeOK).
THEOREM RefreshTypes == Spec => []TypeOK
  <1>1. IInv => TypeOK BY DEF IInv
  <1> QED BY <1>1, Inductive, PTL

\* A server that takes a refresh token once never has the last token it gave out
\* given up for a conflict of the compare-and-set: whoever holds the newest answer
\* finds the row it read (queries.rs, update_oauth_tokens_if_last_refreshed_matches).
THEOREM NewestNotGivenUp == Spec => []NewestTokenKept
  <1>1. IInv => NewestTokenKept BY DEF IInv
  <1> QED BY <1>1, Inductive, PTL

LEMMA PersistsIsPersist ==
    ASSUME IInv, [Next]_vars, NEW t \in Tasks, Persists(t)
    PROVE  Persist(t)
  <1>1. /\ task[t].pc = "persist" /\ row' # row /\ task'[t] # task[t]
        /\ task \in [Tasks -> Task]
    BY Types DEF Persists
  <1>2. ASSUME NEW u \in Tasks, Refresh(u) PROVE Persist(t)
    <2>1. Persist(u) \/ Report(u)
      BY <1>1, <1>2 DEF Refresh, StartRefresh, StartLoop, ListDue, Unresolved, Answer, Refused, Conflict,
                        PersistFails, ReportFails, LeaveRequest, StopLoop
    <2>2. \E a : task' = [task EXCEPT ![u] = a] BY <2>1 DEF Persist, Report, Set
    <2>3. u = t BY <1>1, <2>2
    <2>4. ~Report(t) BY <1>1 DEF Report
    <2> QED BY <2>1, <2>3, <2>4
  <1>3. ASSUME row' = row \/ task' = task PROVE FALSE BY <1>1, <1>3
  <1>4. \/ \E u \in Tasks : Refresh(u)
        \/ row' = row \/ task' = task
    BY DEF Next, vars, BeginLogin, CancelLogin, FinishLogin, Disconnect, SetEnabled, Age, SetClock, Crash
  <1> QED BY <1>2, <1>3, <1>4

\* A refresh replaces the tokens it refreshed: until the next login the stamps of
\* the row only grow, also for two writes of one second and a clock that is set
\* back, so the compare-and-set is not deceived.
THEOREM ReplacesItsOwn == Spec => RefreshReplacesItsOwn
  <1>1. ASSUME IInv, [Next]_vars, NEW t \in Tasks, Persists(t), saved = task[t].seen
        PROVE  row.gen = task[t].gen
    <2>1. task[t].pc = "persist" /\ row.mode = "oauth" /\ row.stamp = task[t].stamp
      BY <1>1, PersistsIsPersist DEF Persist, Matches
    <2>2. row.stamp \in Nat BY <1>1, Types DEF Row
    <2> QED BY <1>1, <2>1, <2>2 DEF IInv, StampTells, Active
  <1>2. IInv /\ [Next]_vars =>
            [\A t \in Tasks : Persists(t) /\ saved = task[t].seen => row.gen = task[t].gen]_vars
    BY <1>1
  <1> QED BY <1>2, Inductive, PTL DEF Spec, RefreshReplacesItsOwn

\* A login that a newer one cancelled writes nothing (complete_current_flow).
THEOREM NewestLoginWins == Spec => LastLoginWins
  <1>1. IInv /\ [Next]_vars => [saved' # saved => saved' = started]_vars
    <2> SUFFICES ASSUME IInv, [Next]_vars, saved' # saved PROVE saved' = started
      OBVIOUS
    <2>1. CASE \E t \in Tasks : Refresh(t)
      BY <2>1 DEF Refresh, StartRefresh, StartLoop, ListDue, Unresolved, Answer, Refused, Persist, Conflict,
                  PersistFails, Report, ReportFails, LeaveRequest, StopLoop
    <2>2. CASE \/ BeginLogin \/ CancelLogin \/ (\E l \in Logins : FinishLogin(l))
               \/ Disconnect \/ SetClock
      BY <2>2, LoginSteps
    <2>3. CASE SetEnabled \/ Age \/ Crash \/ UNCHANGED vars
      BY <2>3 DEF SetEnabled, Age, Crash, vars
    <2> QED BY <2>1, <2>2, <2>3 DEF Next
  <1> QED BY <1>1, Inductive, PTL DEF Spec, LastLoginWins
=============================================================================
