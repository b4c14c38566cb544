--------------------------- MODULE Failover_proofs ---------------------------
(* What the failover loop keeps for any providers, requests, candidates and     *)
(* configuration: its types and the attempts it makes, that an open circuit     *)
(* ends the calls, and that nobody is let in before the time it told a client.  *)
EXTENDS Failover, FiniteSetTheorems, TLAPS

(* ------------- what an operation makes of one health record --------------- *)

\* Pruning and pushing keep a finite set of failures (types.rs:143).
LEMMA PruneFailures ==
    ASSUME NEW F \in Failures, NEW t \in Nat
    PROVE  Prune(F, t) \in Failures /\ Prune(F, t) \subseteq Recent(F, t)
  <1>1. Prune(F, t) \subseteq F BY DEF Prune, Recent
  <1>2. IsFiniteSet(Prune(F, t)) BY <1>1, FS_Subset DEF Failures
  <1> QED BY <1>1, <1>2 DEF Failures, Prune

LEMMA NewFailureType ==
    ASSUME NEW F \in Failures, NEW t \in Nat
    PROVE  NewFailure(F, t) \in Failure
  <1> DEFINE S == {1 .. f.n : f \in F}
  <1>1. IsFiniteSet(F) /\ \A f \in F : f.n \in Nat BY DEF Failures, Failure
  <1>2. IsFiniteSet(S)
    <2> DEFINE I == [f \in F |-> 1 .. f.n]
    <2>1. I \in Surjection(F, S) BY DEF Surjection
    <2> HIDE DEF I, S
    <2> QED BY <1>1, <2>1, FS_Surjection
  <1>3. \A I \in S : IsFiniteSet(I) BY <1>1, FS_Interval
  <1>4. IsFiniteSet(UNION S) BY <1>2, <1>3, FS_UNION
  <1>5. Pushes(F) \in Nat BY <1>4, FS_CardinalityType DEF Pushes
  <1> QED BY <1>5 DEF NewFailure, Failure

LEMMA AddedFailures ==
    ASSUME NEW F \in Failures, NEW G \in Failures, NEW t \in Nat
    PROVE  G \cup {NewFailure(F, t)} \in Failures
  <1>1. NewFailure(F, t) \in Failure BY NewFailureType
  <1>2. IsFiniteSet(G \cup {NewFailure(F, t)}) BY FS_AddElement DEF Failures
  <1> QED BY <1>1, <1>2 DEF Failures

LEMMA PushFailures ==
    ASSUME NEW F \in Failures, NEW t \in Nat
    PROVE  /\ PushFailure(F, t) \in Failures
           /\ PushFailure(F, t) \subseteq F \cup {NewFailure(F, t)}
  <1> DEFINE G == F \cup {NewFailure(F, t)}
  <1>1. G \in Failures BY AddedFailures
  <1>2. Prune(G, t) \in Failures /\ Prune(G, t) \subseteq Recent(G, t)
    BY <1>1, PruneFailures
  <1> QED BY <1>2 DEF PushFailure, Recent

(* ------------------ how long a provider is kept waiting ------------------- *)

\* A health that lets nobody through before e, but for a success or a reset.
Bars(h, e) ==
    \/ h.cooldown_until # None /\ h.cooldown_until >= e
    \/ h.state = "Open" /\ h.open_until # None /\ h.open_until >= e

\* Until then no check lets a call through.
LEMMA BarsBars ==
    ASSUME NEW h \in Health, NEW e \in Nat, Bars(h, e), NEW t \in Nat, t < e
    PROVE  ~Allows(Checked(h, t), t)
  <1> DEFINE a == ClearCooldown(h, t)
             b == PruneClosed(a, t)
  <1>0. /\ h.cooldown_until = None \/ h.cooldown_until \in Nat
        /\ h.open_until = None \/ h.open_until \in Nat
    BY DEF Health, MaybeTime
  <1>1. /\ a \in Health /\ a.state = h.state /\ a.open_until = h.open_until
        /\ a.cooldown_until = h.cooldown_until
           \/ (h.cooldown_until # None /\ t >= h.cooldown_until)
    BY DEF ClearCooldown, Health, MaybeTime
  <1>p. Prune(a.failures, t) \in Failures
    BY <1>1, PruneFailures DEF Health
  <1>2. /\ b \in Health /\ b.state = h.state /\ b.open_until = h.open_until
        /\ b.cooldown_until = a.cooldown_until
    BY <1>1, <1>p DEF PruneClosed, Health
  <1>3. Checked(h, t) = ExpireOpen(b, t) BY DEF Checked
  <1> HIDE DEF a, b
  <1>4. CASE h.cooldown_until # None /\ h.cooldown_until >= e
    <2>1. b.cooldown_until # None /\ ~(t >= b.cooldown_until)
      BY <1>0, <1>1, <1>2, <1>4
    <2>2. ExpireOpen(b, t).cooldown_until = b.cooldown_until
      BY <1>2 DEF ExpireOpen, Health
    <2> QED BY <1>3, <2>1, <2>2 DEF Allows
  <1>5. CASE h.state = "Open" /\ h.open_until # None /\ h.open_until >= e
    <2>1. b.state = "Open" /\ b.open_until # None /\ ~(t >= b.open_until)
      BY <1>0, <1>2, <1>5
    <2>2. ExpireOpen(b, t) = b BY <2>1 DEF ExpireOpen, OpenExpired
    <2> QED BY <1>3, <2>1, <2>2 DEF Allows
  <1> QED BY <1>4, <1>5 DEF Bars

\* should_allow: whoever is denied is barred until the time it names, and who was
\* barred stays so until then.
LEMMA CheckedBars ==
    ASSUME NEW h \in Health, NEW t \in Nat
    PROVE  LET k == Checked(h, t)
               at == IF k.cooldown_until # None THEN k.cooldown_until ELSE k.open_until IN
           /\ k \in Health
           /\ ~Allows(k, t) => at \in Nat /\ Bars(k, at)
           /\ \A e \in Nat : Bars(h, e) => e <= t \/ Bars(k, e)
  <1> DEFINE a == ClearCooldown(h, t)
             b == PruneClosed(a, t)
             k == Checked(h, t)
  <1>0. /\ h.cooldown_until = None \/ h.cooldown_until \in Nat
        /\ h.open_until = None \/ h.open_until \in Nat
        /\ 0 \in Successes
    BY HalfOpenAssumption DEF Health, MaybeTime, Successes
  <1>1. /\ a \in Health /\ a.state = h.state /\ a.open_until = h.open_until
        /\ \/ a.cooldown_until = h.cooldown_until
           \/ a.cooldown_until = None /\ h.cooldown_until # None /\ t >= h.cooldown_until
    BY DEF ClearCooldown, Health, MaybeTime
  <1>2. Prune(a.failures, t) \in Failures
    BY <1>1, PruneFailures DEF Health
  <1>3. /\ b \in Health /\ b.state = h.state /\ b.open_until = h.open_until
        /\ b.cooldown_until = a.cooldown_until
    BY <1>1, <1>2 DEF PruneClosed, Health
  <1>4. k = ExpireOpen(b, t) BY DEF Checked
  <1> HIDE DEF a, b, k
  <1>5. CASE OpenExpired(b, t)
    <2>1. k = [b EXCEPT !.state = "HalfOpen", !.half_open_success_count = 0,
                        !.open_until = None, !.updated_at = t]
      BY <1>4, <1>5 DEF ExpireOpen
    <2>2. k \in Health /\ k.state = "HalfOpen" /\ k.cooldown_until = b.cooldown_until
      BY <1>0, <1>3, <2>1 DEF Health, MaybeTime, State
    <2>3. ~Allows(k, t) => k.cooldown_until # None BY <2>2 DEF Allows
    <2>4. k.cooldown_until # None => k.cooldown_until \in Nat
      BY <2>2 DEF Health, MaybeTime
    <2>5. ASSUME NEW e \in Nat, Bars(h, e) PROVE e <= t \/ Bars(k, e)
      BY <1>0, <1>1, <1>3, <1>5, <2>2, <2>5 DEF Bars, OpenExpired
    <2> QED BY <2>2, <2>3, <2>4, <2>5 DEF Bars, k
  <1>6. CASE ~OpenExpired(b, t)
    <2>1. k = b BY <1>4, <1>6 DEF ExpireOpen
    <2>2. ~Allows(k, t) => \/ k.cooldown_until # None
                           \/ k.state = "Open" /\ k.open_until # None
      BY <1>6, <2>1 DEF Allows, OpenExpired
    <2>3. /\ k.cooldown_until = None \/ k.cooldown_until \in Nat
          /\ k.open_until = None \/ k.open_until \in Nat
      BY <1>3, <2>1 DEF Health, MaybeTime
    <2>4. ASSUME NEW e \in Nat, Bars(h, e) PROVE e <= t \/ Bars(k, e)
      BY <1>0, <1>1, <1>3, <2>1, <2>4 DEF Bars
    <2> QED BY <1>3, <2>1, <2>2, <2>3, <2>4 DEF Bars, k
  <1> QED BY <1>5, <1>6

\* Nor is anybody let in sooner by a failure or by a cooldown; and both leave a health.
LEMMA FailedBars ==
    ASSUME NEW h \in Health, NEW t \in Nat, NEW cfg \in Config
    PROVE  /\ Failed(h, t, cfg) \in Health
           /\ \A e \in Nat : Bars(h, e) => Bars(Failed(h, t, cfg), e)
  <1> DEFINE f == PushFailure(h.failures, t)
  <1>1. f \in Failures BY PushFailures DEF Health
  <1>2. 0 \in Successes /\ t + cfg.open_duration_secs \in Nat
    BY HalfOpenAssumption DEF Successes, Config
  <1> HIDE DEF f
  <1>3. CASE h.state = "Open" BY <1>3 DEF Failed
  <1>4. CASE h.state # "Open" /\ FailureOpens(h, t, cfg)
    <2>1. Failed(h, t, cfg) =
            [h EXCEPT !.state = "Open", !.half_open_success_count = 0, !.failures = f,
                      !.open_until = t + cfg.open_duration_secs, !.updated_at = t]
      BY <1>4 DEF Failed, Opened, f
    <2>2. Failed(h, t, cfg) \in Health
      BY <1>1, <1>2, <2>1 DEF Health, MaybeTime, State
    <2>3. Failed(h, t, cfg).cooldown_until = h.cooldown_until BY <2>1 DEF Health
    <2> QED BY <1>4, <2>2, <2>3 DEF Bars
  <1>5. CASE h.state # "Open" /\ ~FailureOpens(h, t, cfg)
    <2>1. Failed(h, t, cfg) = [h EXCEPT !.failures = f, !.updated_at = t]
      BY <1>5 DEF Failed, f
    <2>2. Failed(h, t, cfg) \in Health
      BY <1>1, <2>1 DEF Health
    <2>3. Failed(h, t, cfg).cooldown_until = h.cooldown_until BY <2>1 DEF Health
    <2> QED BY <1>5, <2>2, <2>3 DEF Bars
  <1> QED BY <1>3, <1>4, <1>5

LEMMA CooledBars ==
    ASSUME NEW h \in Health, NEW t \in Nat, NEW secs \in Nat
    PROVE  /\ CooledDown(h, t, secs) \in Health
           /\ \A e \in Nat : Bars(h, e) => Bars(CooledDown(h, t, secs), e)
  <1> DEFINE k == CooledDown(h, t, secs)
             u == IF h.cooldown_until # None /\ h.cooldown_until > t + secs
                  THEN h.cooldown_until ELSE t + secs
  <1>1. h.cooldown_until = None \/ h.cooldown_until \in Nat
    BY DEF Health, MaybeTime
  <1>k. k = [h EXCEPT !.cooldown_until = u, !.updated_at = t] BY DEF CooledDown
  <1>u. u \in Nat BY <1>1
  <1> HIDE DEF k, u
  <1>m. u \in MaybeTime BY <1>u DEF MaybeTime
  <1>2. /\ k \in Health /\ k.state = h.state /\ k.open_until = h.open_until
        /\ k.cooldown_until = u
    BY <1>k, <1>m DEF Health
  <1>3. k.cooldown_until \in Nat /\ k.cooldown_until # None
    BY <1>2, <1>u, NoneAssumption
  <1>4. h.cooldown_until # None => k.cooldown_until >= h.cooldown_until
    BY <1>1, <1>2 DEF u
  <1>5. ASSUME NEW e \in Nat, Bars(h, e) PROVE Bars(k, e)
    BY <1>1, <1>2, <1>3, <1>4, <1>5 DEF Bars
  <1> QED BY <1>2, <1>5 DEF k

\* A success leaves a health.
LEMMA SucceededType ==
    ASSUME NEW h \in Health, NEW t \in Nat
    PROVE  Succeeded(h, t) \in Health
  <1>1. {} \in Failures BY FS_EmptySet DEF Failures
  <1>2. 0 \in Successes BY HalfOpenAssumption DEF Successes
  <1>3. h.state \in State /\ h.half_open_success_count \in Successes BY DEF Health
  <1>4. CASE h.state = "Closed" /\ h.failures = {}
    BY <1>4 DEF Succeeded, SuccessCloses, Health, MaybeTime
  <1>5. CASE h.state = "Closed" /\ h.failures # {}
    BY <1>1, <1>5 DEF Succeeded, SuccessCloses, Health, MaybeTime
  <1>6. CASE SuccessCloses(h)
    BY <1>1, <1>2, <1>6 DEF Succeeded, SuccessCloses, Health, MaybeTime, State
  <1>7. CASE h.state = "HalfOpen" /\ ~SuccessCloses(h)
    <2>1. h.half_open_success_count + 1 \in Successes
      BY <1>3, <1>7, HalfOpenAssumption DEF SuccessCloses, Successes
    <2> QED BY <1>7, <2>1 DEF Succeeded, SuccessCloses, Health, MaybeTime
  <1>8. CASE h.state = "Open"
    BY <1>8 DEF Succeeded, SuccessCloses
  <1> QED BY <1>3, <1>4, <1>5, <1>6, <1>7, <1>8 DEF State

(* -------------------------- the requests ---------------------------------- *)

Busy == {"prepare", "attempt", "wait", "cool", "stream"}

\* A request on a candidate has one; it knows what it may do there, has attempts
\* left, and goes on only where it saw no circuit open.
Sound(q) ==
    /\ q.pc \in Busy => q.rest # <<>>
    /\ q.pc \in Busy \cup {"next"} => q.kind \in Kind
    /\ q.pc \in {"attempt", "wait"} => q.retry <= Budget(q)
    /\ q.pc \in {"prepare", "next", "attempt", "wait"} => q.opened = {}
    /\ q.pc # "done" => q.until = None
    /\ q.until # None => q.until = q.earliest

\* Whoever was denied for a circuit is barred until the time q would name, but for
\* those that another request succeeded with.
Waits(q, C, hs, t) ==
    \A p \in Providers \ C :
        <<p, "circuit">> \in q.attempts =>
            /\ q.earliest \in Nat
            /\ q.earliest <= t \/ Bars(hs[p], q.earliest)

\* The inductive invariant.
IInv ==
    /\ TypeOK
    /\ \A r \in Requests : Sound(req[r]) /\ Waits(req[r], cleared[r], health, now)

\* A health may only become stricter, but for the provider of a success.
Stricter ==
    \A p \in Providers :
        \/ \A s \in Requests : p \in cleared'[s]
        \/ \A e \in Nat : Bars(health[p], e) => e <= now \/ Bars(health'[p], e)

\* What a step of r leaves to the others.
Apart(r) ==
    /\ now' = now /\ starts' \in Nat
    /\ health' \in [Providers -> Health]
    /\ cleared' \in [Requests -> SUBSET Providers]
    /\ \A s \in Requests \ {r} : req'[s] = req[s] /\ cleared[s] \subseteq cleared'[s]
    /\ req' = [req EXCEPT ![r] = req'[r]]
    /\ Stricter

\* q adds no provider denied for its circuit to those of o, and names no later time.
Follows(q, o) ==
    \A p \in Providers :
        <<p, "circuit">> \in q.attempts =>
            /\ <<p, "circuit">> \in o.attempts
            /\ o.earliest \in Nat => q.earliest \in Nat /\ q.earliest <= o.earliest

LEMMA BarsLess ==
    ASSUME NEW h \in Health, NEW e \in Nat, NEW f \in Nat, f <= e, Bars(h, e)
    PROVE  Bars(h, f)
  BY DEF Bars, Health, MaybeTime

\* The others wait as before, and so does r if it follows.
LEMMA OthersWait ==
    ASSUME IInv, NEW r \in Requests, Apart(r), NEW s \in Requests, s # r
    PROVE  Waits(req'[s], cleared'[s], health', now')
  <1> SUFFICES ASSUME NEW p \in Providers \ cleared'[s],
                      <<p, "circuit">> \in req'[s].attempts
               PROVE  /\ req'[s].earliest \in Nat
                      /\ req'[s].earliest <= now' \/ Bars(health'[p], req'[s].earliest)
    BY DEF Waits
  <1>1. req'[s] = req[s] /\ p \in Providers \ cleared[s] BY DEF Apart
  <1>2. /\ req[s].earliest \in Nat
        /\ req[s].earliest <= now \/ Bars(health[p], req[s].earliest)
    BY <1>1 DEF IInv, Waits
  <1>3. Bars(health[p], req[s].earliest) =>
            req[s].earliest <= now \/ Bars(health'[p], req[s].earliest)
    BY <1>2 DEF Apart, Stricter
  <1> QED BY <1>1, <1>2, <1>3 DEF Apart

LEMMA SelfWaits ==
    ASSUME IInv, NEW r \in Requests, Apart(r), Follows(req'[r], req[r]),
           cleared[r] \subseteq cleared'[r]
    PROVE  Waits(req'[r], cleared'[r], health', now')
  <1> SUFFICES ASSUME NEW p \in Providers \ cleared'[r],
                      <<p, "circuit">> \in req'[r].attempts
               PROVE  /\ req'[r].earliest \in Nat
                      /\ req'[r].earliest <= now' \/ Bars(health'[p], req'[r].earliest)
    BY DEF Waits
  <1> DEFINE e == req[r].earliest
             f == req'[r].earliest
  <1>1. <<p, "circuit">> \in req[r].attempts /\ p \in Providers \ cleared[r]
    BY DEF Follows
  <1>2. e \in Nat /\ (e <= now \/ Bars(health[p], e))
    BY <1>1 DEF IInv, Waits
  <1>3. f \in Nat /\ f <= e BY <1>1, <1>2 DEF Follows
  <1>4. Bars(health[p], e) => e <= now \/ Bars(health'[p], e)
    BY <1>2 DEF Apart, Stricter
  <1>5. health'[p] \in Health /\ now \in Nat /\ now' = now BY DEF Apart, IInv, TypeOK
  <1> HIDE DEF e, f
  <1>6. Bars(health'[p], e) => Bars(health'[p], f) BY <1>2, <1>3, <1>5, BarsLess
  <1> QED BY <1>2, <1>3, <1>4, <1>5, <1>6 DEF f

\* A step of one request keeps the invariant if it leaves that request sound.
LEMMA StepInv ==
    ASSUME IInv, NEW r \in Requests, Apart(r),
           req'[r] \in Request, Sound(req'[r]),
           Waits(req'[r], cleared'[r], health', now')
    PROVE  IInv'
  <1>1. req' \in [Requests -> Request]
    BY DEF Apart, IInv, TypeOK
  <1>2. ASSUME NEW s \in Requests
        PROVE  Sound(req'[s]) /\ Waits(req'[s], cleared'[s], health', now')
    <2>1. CASE s = r BY <2>1
    <2>2. CASE s # r BY <2>2, OthersWait DEF Apart, IInv
    <2> QED BY <2>1, <2>2
  <1>3. TypeOK'
    BY <1>1, <1>2 DEF Apart, IInv, TypeOK, Sound
  <1> QED BY <1>2, <1>3 DEF IInv

\* A step that touches neither a health nor the clock.
LEMMA QuietStep ==
    ASSUME IInv, NEW r \in Requests,
           req' = [req EXCEPT ![r] = req'[r]],
           now' = now, health' = health, starts' = starts, cleared' = cleared,
           req'[r] \in Request, Sound(req'[r]), Follows(req'[r], req[r])
    PROVE  IInv'
  <1>1. Apart(r)
    <2>1. \A s \in Requests \ {r} : req'[s] = req[s] BY DEF IInv, TypeOK
    <2> QED BY <2>1 DEF Apart, Stricter, IInv, TypeOK
  <1>2. Waits(req'[r], cleared'[r], health', now') BY <1>1, SelfWaits
  <1> QED BY <1>1, <1>2, StepInv

\* A step that makes the health of one provider stricter.
LEMMA StricterStep ==
    ASSUME IInv, NEW r \in Requests, NEW p \in Providers,
           req' = [req EXCEPT ![r] = req'[r]],
           health' = [health EXCEPT ![p] = health'[p]],
           health'[p] \in Health,
           \A e \in Nat : Bars(health[p], e) => e <= now \/ Bars(health'[p], e),
           now' = now, starts' = starts, cleared' = cleared
    PROVE  Apart(r)
  <1>1. \A s \in Requests \ {r} : req'[s] = req[s] BY DEF IInv, TypeOK
  <1>2. health' \in [Providers -> Health] BY DEF IInv, TypeOK
  <1>3. \A o \in Providers \ {p} : health'[o] = health[o] BY DEF IInv, TypeOK
  <1> QED BY <1>1, <1>2, <1>3 DEF Apart, Stricter, IInv, TypeOK

---------------------------------------------------------------------------
(* What the helpers of the loop return.                                       *)

LEMMA IdleRequest ==
    /\ Idle \in Request /\ Sound(Idle) /\ Idle.attempts = {}
    /\ \A a \in Answers : Ended(a) \in Request /\ Sound(Ended(a)) /\ Ended(a).attempts = {}
  <1>1. <<>> \in Seq(Providers) /\ None \in MaybeTime BY DEF MaybeTime
  <1>2. Idle \in Request BY <1>1 DEF Idle, Request
  <1>3. Idle.pc = "idle" /\ Idle.until = None /\ Idle.attempts = {} BY DEF Idle
  <1>4. ASSUME NEW a \in Answers
        PROVE  /\ Ended(a) \in Request /\ Ended(a).pc = "done"
               /\ Ended(a).until = None /\ Ended(a).attempts = {}
    BY <1>2, <1>3 DEF Ended, Request
  <1> QED BY <1>2, <1>3, <1>4 DEF Sound, Busy

LEMMA HeadTail ==
    ASSUME NEW l \in Seq(Providers), l # <<>>
    PROVE  Head(l) \in Providers /\ Tail(l) \in Seq(Providers)
  OBVIOUS

LEMMA BudgetType ==
    ASSUME NEW q \in Request, q.kind \in Kind
    PROVE  Budget(q) \in Nat /\ Budget(q) >= 1
  <1>1. Configured(q) \in Nat /\ Configured(q) >= 1
    BY BudgetAssumption DEF Configured, Max2, Kind
  <1>2. Cfg.failure_threshold \in Nat BY BudgetAssumption DEF Config
  <1>3. One(Current(q) \in OAuth) \in Nat /\ One("previous" \in q.kind.repairs) \in Nat
    BY DEF One
  <1> QED BY <1>1, <1>2, <1>3 DEF Budget, Max2

LEMMA AdvancedSound ==
    ASSUME NEW q \in Request, q.rest # <<>>, q.kind \in Kind,
           q.until = None
    PROVE  /\ Advanced(q) \in Request /\ Sound(Advanced(q))
           /\ Advanced(q).attempts = q.attempts /\ Advanced(q).earliest = q.earliest
           /\ Advanced(q).pc = "next" /\ Advanced(q).kind = q.kind
           /\ Advanced(q).until = q.until
  <1>1. Tail(q.rest) \in Seq(Providers) BY HeadTail DEF Request
  <1>2. Advanced(q) \in Request BY <1>1 DEF Advanced, Request, Repair
  <1>3. /\ Advanced(q).pc = "next" /\ Advanced(q).opened = {}
        /\ Advanced(q).attempts = q.attempts /\ Advanced(q).earliest = q.earliest
        /\ Advanced(q).until = q.until /\ Advanced(q).kind = q.kind
    BY DEF Advanced, Request
  <1> QED BY <1>2, <1>3 DEF Sound, Busy

LEMMA MarkedRequest ==
    ASSUME NEW q \in Request, q.rest # <<>>, NEW mark \in Marks
    PROVE  /\ Marked(q, mark) \in Request
           /\ \E as : /\ Marked(q, mark) = [q EXCEPT !.attempts = as]
                      /\ as \in SUBSET (Providers \X Marks)
                      /\ as = q.attempts \cup {<<Head(q.rest), mark>>}
  <1>1. Head(q.rest) \in Providers BY HeadTail DEF Request
  <1> DEFINE as == q.attempts \cup {<<Head(q.rest), mark>>}
  <1>2. as \in SUBSET (Providers \X Marks) BY <1>1 DEF Request
  <1>3. Marked(q, mark) = [q EXCEPT !.attempts = as] BY DEF Marked, Current
  <1> HIDE DEF as
  <1>4. Marked(q, mark) \in Request BY <1>2, <1>3 DEF Request
  <1> QED BY <1>2, <1>3, <1>4 DEF as

\* What a mark leaves alone; and one that is not for a circuit denies nobody.
LEMMA MarkedFields ==
    ASSUME NEW q \in Request, q.rest # <<>>, NEW mark \in Marks
    PROVE  LET m == Marked(q, mark) IN
           /\ m.rest = q.rest /\ m.kind = q.kind /\ m.pc = q.pc /\ m.earliest = q.earliest
           /\ m.until = q.until /\ m.retry = q.retry /\ m.opened = q.opened
           /\ m.tried = q.tried
           /\ m.attempts = q.attempts \cup {<<Head(q.rest), mark>>}
           /\ mark # "circuit" => Follows(m, q)
  <1> DEFINE m == Marked(q, mark)
  <1>1. PICK as : /\ m = [q EXCEPT !.attempts = as]
                  /\ as = q.attempts \cup {<<Head(q.rest), mark>>}
    BY MarkedRequest
  <1> HIDE DEF m
  <1>2. /\ m.rest = q.rest /\ m.kind = q.kind /\ m.pc = q.pc /\ m.earliest = q.earliest
        /\ m.until = q.until /\ m.retry = q.retry /\ m.opened = q.opened
        /\ m.tried = q.tried
        /\ m.attempts = as
    BY <1>1 DEF Request
  <1>3. mark # "circuit" => Follows(m, q) BY <1>1, <1>2 DEF Follows
  <1> QED BY <1>1, <1>2, <1>3 DEF m

\* The next attempt is within the budget, or the next candidate's turn.
LEMMA AgainSound ==
    ASSUME NEW q \in Request, q.rest # <<>>, q.kind \in Kind, q.opened = {},
           q.until = None
    PROVE  /\ Again(q) \in Request /\ Sound(Again(q))
           /\ Again(q).attempts = q.attempts /\ Again(q).earliest = q.earliest
  <1>1. CASE q.retry < Budget(q)
    <2> DEFINE a == [q EXCEPT !.pc = "attempt", !.retry = @ + 1]
    <2>1. Again(q) = a BY <1>1 DEF Again
    <2>n. q.retry + 1 \in Nat BY DEF Request
    <2>2. a \in Request
      <3> DEFINE n == q.retry + 1
      <3>1. n \in Nat BY <2>n
      <3>2. a = [q EXCEPT !.pc = "attempt", !.retry = n] OBVIOUS
      <3> HIDE DEF n, a
      <3> QED BY <3>1, <3>2 DEF Request
    <2>3. /\ a.pc = "attempt" /\ a.rest = q.rest /\ a.kind = q.kind /\ a.opened = q.opened
          /\ a.until = q.until /\ a.earliest = q.earliest /\ a.attempts = q.attempts
          /\ a.retry = q.retry + 1 /\ q.retry \in Nat
      BY DEF Request
    <2> HIDE DEF a
    <2>4. Budget(a) = Budget(q) BY <2>3 DEF Budget, Configured, Current
    <2>5. a.retry <= Budget(a) BY <1>1, <2>3, <2>4, BudgetType
    <2>6. Sound(a) BY <2>3, <2>5 DEF Sound
    <2> QED BY <2>1, <2>2, <2>3, <2>6
  <1>2. CASE ~(q.retry < Budget(q))
    BY <1>2, AdvancedSound DEF Again
  <1> QED BY <1>1, <1>2

---------------------------------------------------------------------------
(* What a step does to a health.                                              *)

LEMMA KeptBars ==
    ASSUME NEW h \in Health
    PROVE  Kept(h) \in Health /\ \A e : Bars(Kept(h), e) <=> Bars(h, e)
  BY DEF Kept, Health, Bars

LEMMA RecordedBars ==
    ASSUME NEW q \in Request, NEW h \in Health, now \in Nat
    PROVE  /\ Recorded(q, h) \in Health
           /\ \A e \in Nat : Bars(h, e) => Bars(Recorded(q, h), e)
  BY FailedBars, BudgetAssumption DEF Recorded

LEMMA CooledHealthBars ==
    ASSUME NEW q \in Request, NEW h \in Health, now \in Nat
    PROVE  /\ Cooled(q, h) \in Health
           /\ \A e \in Nat : Bars(h, e) => Bars(Cooled(q, h), e)
  BY CooledBars, BudgetAssumption DEF Cooled

LEMMA StartHealth == ClosedHealth(0) \in Health
  <1>1. {} \in Failures BY FS_EmptySet DEF Failures
  <1>2. 0 \in Successes BY HalfOpenAssumption DEF Successes
  <1> QED BY <1>1, <1>2 DEF ClosedHealth, Health, State, MaybeTime

---------------------------------------------------------------------------
(* One lemma per action: first those that touch no health.                    *)

\* What is known of a request on a candidate.
LEMMA Acting ==
    ASSUME IInv, NEW r \in Requests
    PROVE  /\ req[r] \in Request
           /\ req[r].pc \in Busy =>
                /\ req[r].rest # <<>> /\ req[r].kind \in Kind
                /\ Current(req[r]) \in Providers /\ Head(req[r].rest) = Current(req[r])
           /\ req[r].pc = "next" => req[r].kind \in Kind
           /\ req[r].pc \in {"prepare", "next", "attempt", "wait"} => req[r].opened = {}
           /\ req[r].pc \in {"attempt", "wait"} => req[r].retry <= Budget(req[r])
           /\ req[r].pc # "done" => req[r].until = None
           /\ now \in Nat
           /\ \A q : Set(r, q) => req'[r] = q /\ req' = [req EXCEPT ![r] = req'[r]]
  <1>1. req[r] \in Request /\ req \in [Requests -> Request] /\ now \in Nat
        /\ Sound(req[r])
    BY DEF IInv, TypeOK
  <1>2. req[r].rest # <<>> => Current(req[r]) \in Providers
    BY <1>1, HeadTail DEF Request, Current
  <1>3. \A q : Set(r, q) => req'[r] = q /\ req' = [req EXCEPT ![r] = req'[r]]
    BY <1>1 DEF Set
  <1> QED BY <1>1, <1>2, <1>3 DEF Sound, Current, Busy

\* Whoever ends without an answer of its own names no provider.
LEMMA EndsInv ==
    ASSUME IInv, NEW r \in Requests, NEW a \in Answers,
           Set(r, Ended(a)), UNCHANGED <<now, health, starts, cleared>>
    PROVE  IInv'
  <1>1. req'[r] = Ended(a) /\ req' = [req EXCEPT ![r] = req'[r]] BY Acting
  <1>2. /\ req'[r] \in Request /\ Sound(req'[r])
        /\ Follows(req'[r], req[r])
    BY <1>1, IdleRequest DEF Follows
  <1> QED BY <1>1, <1>2, QuietStep

LEMMA LeaveInv ==
    ASSUME IInv, NEW r \in Requests, Leave(r)
    PROVE  IInv'
  <1>1. req'[r] = Idle /\ req' = [req EXCEPT ![r] = req'[r]] BY Acting DEF Leave
  <1>2. /\ req'[r] \in Request /\ Sound(req'[r])
        /\ Follows(req'[r], req[r])
    BY <1>1, IdleRequest DEF Follows
  <1> QED BY <1>1, <1>2, QuietStep DEF Leave

LEMMA StartInv ==
    ASSUME IInv, NEW r \in Requests, Start(r)
    PROVE  IInv'
  <1>1. PICK list \in Lists, kind \in Kinds :
           Set(r, [Idle EXCEPT !.pc = "next", !.kind = kind, !.list = list, !.rest = list])
    BY DEF Start
  <1> DEFINE q == [Idle EXCEPT !.pc = "next", !.kind = kind, !.list = list, !.rest = list]
  <1>2. req'[r] = q /\ req' = [req EXCEPT ![r] = req'[r]] BY <1>1, Acting
  <1>3. kind \in Kind /\ list \in Seq(Providers) BY RequestAssumption
  <1>4. q \in Request BY <1>3, IdleRequest DEF Request
  <1>5. /\ q.pc = "next" /\ q.kind = kind /\ q.opened = {} /\ q.until = None
        /\ q.attempts = {}
    BY DEF Idle
  <1> HIDE DEF q
  <1>6. Sound(q) BY <1>3, <1>5 DEF Sound, Busy
  <1>7. Apart(r)
    <2>1. starts' \in Nat /\ now' = now /\ health' = health BY DEF Start, IInv, TypeOK
    <2>2. /\ cleared' \in [Requests -> SUBSET Providers]
          /\ \A s \in Requests \ {r} : req'[s] = req[s] /\ cleared'[s] = cleared[s]
      BY <1>2 DEF Start, IInv, TypeOK
    <2> QED BY <1>2, <2>1, <2>2 DEF Apart, Stricter, IInv, TypeOK
  <1>8. Waits(req'[r], cleared'[r], health', now') BY <1>2, <1>5 DEF Waits
  <1> QED BY <1>2, <1>4, <1>6, <1>7, <1>8, StepInv

LEMMA LimitedInv ==
    ASSUME IInv, NEW r \in Requests, Limited(r)
    PROVE  IInv'
  <1> DEFINE q == req[r]
             m == Marked(q, "limit")
             a == Advanced(m)
  <1>1. PICK reset \in LimitResets :
           Set(r, [a EXCEPT !.earliest = IF reset = 0 THEN @ ELSE Sooner(@, now + reset)])
    BY DEF Limited
  <1> DEFINE e == IF reset = 0 THEN a.earliest ELSE Sooner(a.earliest, now + reset)
  <1>2. /\ q \in Request /\ q.rest # <<>> /\ q.kind \in Kind /\ now \in Nat
        /\ q.until = None
    BY Acting DEF Limited, Busy
  <1>3. /\ m \in Request /\ m.rest # <<>> /\ m.kind \in Kind /\ m.until = None
        /\ m.earliest = q.earliest /\ Follows(m, q)
    BY <1>2, MarkedRequest, MarkedFields DEF Marks, GateMarks
  <1>5. /\ a \in Request /\ Sound(a) /\ a.attempts = m.attempts /\ a.earliest = q.earliest
        /\ a.pc = "next" /\ a.kind = m.kind /\ a.until = None
    BY <1>2, <1>3, AdvancedSound
  <1>6. req'[r] = [a EXCEPT !.earliest = e] /\ req' = [req EXCEPT ![r] = req'[r]]
    BY <1>1, Acting
  <1>7. /\ e \in MaybeTime
        /\ q.earliest \in Nat => e \in Nat /\ e <= q.earliest
    <2>1. reset \in Nat BY RequestAssumption
    <2>2. q.earliest = None \/ q.earliest \in Nat BY <1>2 DEF Request, MaybeTime
    <2>3. now + reset \in Nat BY <1>2, <2>1
    <2>4. e = IF reset = 0 THEN q.earliest
              ELSE IF q.earliest # None /\ q.earliest <= now + reset
                   THEN q.earliest ELSE now + reset
      BY <1>5 DEF Sooner, Min2
    <2> HIDE DEF a, e, q, m
    <2> QED BY <2>1, <2>2, <2>3, <2>4, NoneAssumption DEF MaybeTime
  <1> HIDE DEF a, e, q, m
  <1>8. /\ req'[r] \in Request /\ req'[r].pc = a.pc /\ req'[r].kind = a.kind
        /\ req'[r].opened = a.opened /\ req'[r].until = None
        /\ req'[r].attempts = a.attempts /\ req'[r].earliest = e
    BY <1>5, <1>6, <1>7 DEF Request
  <1>9. Sound(req'[r])
    BY <1>5, <1>8 DEF Sound, Busy
  <1>10. Follows(req'[r], q)
    BY <1>3, <1>5, <1>7, <1>8 DEF Follows
  <1> QED BY <1>6, <1>8, <1>9, <1>10, QuietStep DEF Limited, q

LEMMA SkipInv ==
    ASSUME IInv, NEW r \in Requests, Skip(r)
    PROVE  IInv'
  <1> DEFINE q == req[r]
             m == Marked(q, "skip")
  <1>1. /\ q \in Request /\ q.rest # <<>> /\ q.kind \in Kind /\ q.until = None
        /\ req'[r] = Skipped(q) /\ req' = [req EXCEPT ![r] = req'[r]]
    BY Acting DEF Skip, Busy
  <1>2. /\ m \in Request /\ m.rest # <<>> /\ m.kind \in Kind /\ m.until = None
        /\ m.earliest = q.earliest /\ Follows(m, q)
    BY <1>1, MarkedRequest, MarkedFields DEF Marks, GateMarks
  <1>3. /\ Skipped(q) \in Request /\ Sound(Skipped(q))
        /\ Skipped(q).attempts = m.attempts /\ Skipped(q).earliest = m.earliest
    BY <1>2, AdvancedSound DEF Skipped
  <1>4. Follows(Skipped(q), q) BY <1>2, <1>3 DEF Follows
  <1> QED BY <1>1, <1>3, <1>4, QuietStep DEF Skip

LEMMA AuthFailsInv ==
    ASSUME IInv, NEW r \in Requests, AuthFails(r)
    PROVE  IInv'
  <1> DEFINE q == req[r]
             m == Marked(q, "failed")
  <1>1. /\ q \in Request /\ q.rest # <<>> /\ q.kind \in Kind /\ q.until = None
        /\ req'[r] = Advanced(m) /\ req' = [req EXCEPT ![r] = req'[r]]
    BY Acting DEF AuthFails, Busy
  <1>2. /\ m \in Request /\ m.rest # <<>> /\ m.kind \in Kind /\ m.until = None
        /\ m.earliest = q.earliest /\ Follows(m, q)
    BY <1>1, MarkedRequest, MarkedFields DEF Marks
  <1>3. /\ Advanced(m) \in Request /\ Sound(Advanced(m))
        /\ Advanced(m).attempts = m.attempts /\ Advanced(m).earliest = m.earliest
    BY <1>2, AdvancedSound
  <1>4. Follows(Advanced(m), q) BY <1>2, <1>3 DEF Follows
  <1> QED BY <1>1, <1>3, <1>4, QuietStep DEF AuthFails

LEMMA PrepareInv ==
    ASSUME IInv, NEW r \in Requests, Prepare(r)
    PROVE  IInv'
  <1> DEFINE q == req[r]
             n == q.tried + 1
             a == [q EXCEPT !.pc = "attempt", !.tried = n, !.retry = 1, !.used = {}]
  <1>1. /\ q \in Request /\ q.rest # <<>> /\ q.kind \in Kind /\ q.until = None
        /\ q.opened = {}
        /\ req'[r] = a /\ req' = [req EXCEPT ![r] = req'[r]]
    BY Acting DEF Prepare, Busy
  <1>2. n \in Nat BY <1>1 DEF Request
  <1> HIDE DEF n, q
  <1>3. /\ a \in Request /\ a.pc = "attempt" /\ a.rest = q.rest /\ a.kind = q.kind
        /\ a.until = None /\ a.opened = {} /\ a.retry = 1
        /\ a.attempts = q.attempts /\ a.earliest = q.earliest
    BY <1>1, <1>2 DEF Request, Repair
  <1> HIDE DEF a
  <1>4. Budget(a) >= 1 BY <1>1, <1>3, BudgetType
  <1>5. Sound(a) /\ Follows(a, q) BY <1>1, <1>3, <1>4 DEF Sound, Follows, Request, MaybeTime
  <1> QED BY <1>1, <1>3, <1>5, QuietStep DEF Prepare, q

LEMMA SendInv ==
    ASSUME IInv, NEW r \in Requests, Send(r)
    PROVE  IInv'
  <1> DEFINE q == req[r]
             c == q.called \cup {Current(q)}
             a == [q EXCEPT !.pc = "wait", !.called = c]
  <1>1. /\ q \in Request /\ q.rest # <<>> /\ q.kind \in Kind /\ q.until = None
        /\ q.opened = {} /\ q.retry <= Budget(q) /\ Current(q) \in Providers
        /\ req'[r] = a /\ req' = [req EXCEPT ![r] = req'[r]]
    BY Acting DEF Send, Busy
  <1>2. c \in SUBSET Providers BY <1>1 DEF Request
  <1> HIDE DEF c, q
  <1>3. /\ a \in Request /\ a.pc = "wait" /\ a.rest = q.rest /\ a.kind = q.kind
        /\ a.until = None /\ a.opened = {} /\ a.retry = q.retry
        /\ a.attempts = q.attempts /\ a.earliest = q.earliest
    BY <1>1, <1>2 DEF Request
  <1> HIDE DEF a
  <1>4. Budget(a) = Budget(q) BY <1>3 DEF Budget, Configured, Current
  <1>5. Sound(a) /\ Follows(a, q) BY <1>1, <1>3, <1>4 DEF Sound, Follows
  <1> QED BY <1>1, <1>3, <1>5, QuietStep DEF Send, q

LEMMA RepairInv ==
    ASSUME IInv, NEW r \in Requests, RepairAndRetry(r)
    PROVE  IInv'
  <1> DEFINE q == req[r]
  <1>1. PICK repair \in Repairs(q) \ q.used :
           Set(r, [Again(q) EXCEPT !.used = @ \cup {repair}])
    BY DEF RepairAndRetry
  <1> DEFINE g == Again(q)
             u == g.used \cup {repair}
             a == [g EXCEPT !.used = u]
  <1>2. /\ q \in Request /\ q.rest # <<>> /\ q.kind \in Kind /\ q.until = None
        /\ q.opened = {}
        /\ req'[r] = a /\ req' = [req EXCEPT ![r] = req'[r]]
    BY <1>1, Acting DEF RepairAndRetry, Busy
  <1>3. /\ g \in Request /\ Sound(g) /\ g.attempts = q.attempts /\ g.earliest = q.earliest
    BY <1>2, AgainSound
  <1>4. u \in SUBSET Repair
    BY <1>3 DEF Request, Repairs, Repair
  <1> HIDE DEF g, u, q
  <1>5. /\ a \in Request /\ a.pc = g.pc /\ a.rest = g.rest /\ a.kind = g.kind
        /\ a.until = g.until /\ a.opened = g.opened /\ a.retry = g.retry
        /\ a.attempts = q.attempts /\ a.earliest = q.earliest
    BY <1>3, <1>4 DEF Request
  <1> HIDE DEF a
  <1>6. Budget(a) = Budget(g) BY <1>5 DEF Budget, Configured, Current
  <1>7. Sound(a) BY <1>3, <1>5, <1>6 DEF Sound
  <1>8. Follows(a, q) BY <1>2, <1>5 DEF Follows
  <1> QED BY <1>2, <1>5, <1>7, <1>8, QuietStep DEF RepairAndRetry, q

LEMMA StartStreamInv ==
    ASSUME IInv, NEW r \in Requests, StartStream(r)
    PROVE  IInv'
  <1> DEFINE q == req[r]
             a == [q EXCEPT !.pc = "stream"]
  <1>1. /\ q \in Request /\ q.rest # <<>> /\ q.kind \in Kind /\ q.until = None
        /\ req'[r] = a /\ req' = [req EXCEPT ![r] = req'[r]]
    BY Acting DEF StartStream, Busy
  <1> HIDE DEF q
  <1>2. /\ a \in Request /\ a.pc = "stream" /\ a.rest = q.rest /\ a.kind = q.kind
        /\ a.until = None /\ a.attempts = q.attempts /\ a.earliest = q.earliest
    BY <1>1 DEF Request
  <1>3. Sound(a) /\ Follows(a, q) BY <1>1, <1>2 DEF Sound, Follows
  <1> QED BY <1>1, <1>2, <1>3, QuietStep DEF StartStream, q

LEMMA FinishInv ==
    ASSUME IInv, NEW r \in Requests, Finish(r)
    PROVE  IInv'
  <1> DEFINE q == req[r]
             e == IF q.earliest # None /\ q.earliest > now THEN q.earliest ELSE None
             a == [q EXCEPT !.pc = "done", !.answer = "unavailable", !.until = e]
             b == [q EXCEPT !.pc = "done", !.answer = "all_failed"]
  <1>1. /\ q \in Request /\ q.until = None
        /\ req'[r] = a \/ req'[r] = b
        /\ req' = [req EXCEPT ![r] = req'[r]]
    BY Acting DEF Finish, Concluded
  <1>2. e \in MaybeTime /\ (e # None => e = q.earliest) BY <1>1 DEF Request, MaybeTime
  <1> HIDE DEF e, q
  <1>3. /\ a \in Request /\ a.pc = "done" /\ a.until = e /\ a.earliest = q.earliest
        /\ a.attempts = q.attempts
        /\ b \in Request /\ b.pc = "done" /\ b.until = None /\ b.earliest = q.earliest
        /\ b.attempts = q.attempts
    BY <1>1, <1>2 DEF Request, Answers
  <1> HIDE DEF a, b
  <1>4. Sound(a) /\ Follows(a, q) /\ Sound(b) /\ Follows(b, q)
    BY <1>2, <1>3 DEF Sound, Follows, Busy
  <1> QED BY <1>1, <1>3, <1>4, QuietStep DEF Finish, q

---------------------------------------------------------------------------
(* The actions that touch a health.                                           *)

LEMMA GateInv ==
    ASSUME IInv, NEW r \in Requests, Gate(r)
    PROVE  IInv'
  <1> DEFINE q == req[r]
             p == Current(q)
             h == Checked(health[p], now)
             m == Marked(q, "circuit")
             a == Advanced(m)
  <1>1. /\ q \in Request /\ q.kind \in Kind /\ q.until = None /\ q.opened = {}
        /\ q.pc = "next" /\ q.rest # <<>> /\ now \in Nat
    BY Acting DEF Gate, Exhausted
  <1>2. p \in Providers /\ Head(q.rest) = p
    BY <1>1, HeadTail DEF Request, Current
  <1>3. health \in [Providers -> Health] /\ health[p] \in Health
    BY <1>2 DEF IInv, TypeOK
  <1>4. /\ h \in Health
        /\ ~Allows(h, now) => RecoverAt(h) \in Nat /\ Bars(h, RecoverAt(h))
        /\ \A e \in Nat : Bars(health[p], e) => e <= now \/ Bars(h, e)
    BY <1>1, <1>3, CheckedBars DEF RecoverAt
  <1>5. /\ health' = [health EXCEPT ![p] = health'[p]]
        /\ health'[p] = Kept(h)
    BY <1>2, <1>3 DEF Gate
  <1>6. /\ health'[p] \in Health
        /\ \A e : Bars(health'[p], e) <=> Bars(h, e)
    BY <1>4, <1>5, KeptBars
  <1>7. /\ now' = now /\ starts' = starts /\ cleared' = cleared
        /\ Set(r, IF Allows(h, now) THEN [q EXCEPT !.pc = "prepare"]
                  ELSE [a EXCEPT !.earliest = Sooner(@, RecoverAt(h))])
    BY DEF Gate
  <1>8. req' = [req EXCEPT ![r] = req'[r]] BY <1>7, Acting
  <1>9. Apart(r) BY <1>2, <1>4, <1>5, <1>6, <1>7, <1>8, StricterStep
  <1>10. CASE Allows(h, now)
    <2> DEFINE b == [q EXCEPT !.pc = "prepare"]
    <2>1. req'[r] = b BY <1>7, <1>10, Acting
    <2> HIDE DEF q, p, h
    <2>2. /\ b \in Request /\ b.pc = "prepare" /\ b.rest = q.rest /\ b.kind = q.kind
          /\ b.opened = q.opened /\ b.until = None
          /\ b.attempts = q.attempts /\ b.earliest = q.earliest
      BY <1>1 DEF Request
    <2>3. Sound(b) /\ Follows(b, q) BY <1>1, <2>2 DEF Sound, Follows
    <2>4. Waits(req'[r], cleared'[r], health', now')
      BY <1>7, <1>9, <2>1, <2>3, SelfWaits DEF q
    <2> QED BY <1>9, <2>1, <2>2, <2>3, <2>4, StepInv
  <1>11. CASE ~Allows(h, now)
    <2> DEFINE e == Sooner(a.earliest, RecoverAt(h))
               b == [a EXCEPT !.earliest = e]
    <2>1. req'[r] = b BY <1>7, <1>11, Acting
    <2>2. /\ m \in Request /\ m.rest # <<>> /\ m.kind \in Kind /\ m.until = None
          /\ m.earliest = q.earliest /\ m.attempts = q.attempts \cup {<<p, "circuit">>}
      BY <1>1, <1>2, MarkedRequest, MarkedFields DEF Marks, GateMarks
    <2>3. /\ a \in Request /\ Sound(a) /\ a.attempts = m.attempts
          /\ a.earliest = q.earliest /\ a.pc = "next" /\ a.until = None
      BY <2>2, AdvancedSound
    <2>4. q.earliest = None \/ q.earliest \in Nat BY <1>1 DEF Request, MaybeTime
    <2> DEFINE at == RecoverAt(h)
    <2>5. at \in Nat /\ Bars(health'[p], at) BY <1>4, <1>6, <1>11
    <2>6. e = IF q.earliest # None /\ q.earliest <= at THEN q.earliest ELSE at
      BY <2>3 DEF Sooner, Min2
    <2>w. Waits(q, cleared[r], health, now) BY DEF IInv
    <2> HIDE DEF q, p, h, m, a, e, at
    <2>7. e \in Nat /\ e <= at /\ (q.earliest \in Nat => e <= q.earliest)
      BY <2>4, <2>5, <2>6, NoneAssumption
    <2>8. /\ b \in Request /\ b.pc = "next" /\ b.kind = a.kind
          /\ b.opened = a.opened /\ b.until = None
          /\ b.attempts = q.attempts \cup {<<p, "circuit">>} /\ b.earliest = e
      BY <2>2, <2>3, <2>7 DEF Request, MaybeTime
    <2> HIDE DEF b
    <2>9. Sound(b) BY <2>3, <2>8 DEF Sound, Busy
    <2>10. Waits(b, cleared'[r], health', now')
      <3> SUFFICES ASSUME NEW o \in Providers \ cleared'[r], <<o, "circuit">> \in b.attempts
                   PROVE  e <= now' \/ Bars(health'[o], e)
        BY <2>7, <2>8 DEF Waits
      <3>1. CASE o = p
        BY <1>6, <2>5, <2>7, <3>1, BarsLess
      <3>2. CASE o # p
        <4>1. <<o, "circuit">> \in q.attempts BY <2>8, <3>2
        <4>2. /\ q.earliest \in Nat
              /\ q.earliest <= now \/ Bars(health[o], q.earliest)
          BY <1>7, <2>w, <4>1 DEF Waits
        <4>3. health'[o] = health[o] /\ health[o] \in Health
          BY <1>3, <1>5, <3>2
        <4> QED BY <1>1, <1>7, <2>7, <4>2, <4>3, BarsLess
      <3> QED BY <3>1, <3>2
    <2> QED BY <1>9, <2>1, <2>8, <2>9, <2>10, StepInv
  <1> QED BY <1>10, <1>11

\* A step of r after which its request is q and a provider's health h is stricter.
LEMMA StricterInv ==
    ASSUME IInv, NEW r \in Requests, NEW p \in Providers,
           req' = [req EXCEPT ![r] = req'[r]],
           health' = [health EXCEPT ![p] = health'[p]],
           health'[p] \in Health,
           \A e \in Nat : Bars(health[p], e) => e <= now \/ Bars(health'[p], e),
           UNCHANGED <<now, starts, cleared>>,
           req'[r] \in Request, Sound(req'[r]), Follows(req'[r], req[r])
    PROVE  IInv'
  <1>1. Apart(r) BY StricterStep
  <1>2. Waits(req'[r], cleared'[r], health', now') BY <1>1, SelfWaits
  <1> QED BY <1>1, <1>2, StepInv

\* What a failed call makes of the request.
LEMMA ResumedSound ==
    ASSUME IInv, NEW r \in Requests, req[r].pc \in {"attempt", "wait"},
           NEW opened \in BOOLEAN, NEW fault,
           NEW decision, opened => decision # "retry"
    PROVE  LET q == req[r]
               seen == [Marked(q, "failed") EXCEPT !.coded = TRUE,
                          !.opened = IF opened THEN @ \cup {Current(q)} ELSE @]
               cool == [seen EXCEPT !.pc = "cool"]
               back == Resumed(seen, fault, decision) IN
           /\ cool \in Request /\ Sound(cool) /\ Follows(cool, q)
           /\ back \in Request /\ Sound(back) /\ Follows(back, q)
  <1> DEFINE q == req[r]
             m == Marked(q, "failed")
             os == IF opened THEN m.opened \cup {Current(q)} ELSE m.opened
             seen == [m EXCEPT !.coded = TRUE, !.opened = os]
             cool == [seen EXCEPT !.pc = "cool"]
             back == Resumed(seen, fault, decision)
  <1>1. /\ q \in Request /\ q.rest # <<>> /\ q.kind \in Kind /\ q.until = None
        /\ q.opened = {} /\ Current(q) \in Providers /\ q.pc \in {"attempt", "wait"}
    BY Acting DEF Busy
  <1>2. /\ m \in Request /\ m.rest = q.rest /\ m.kind = q.kind /\ m.until = None
        /\ m.earliest = q.earliest /\ m.opened = {} /\ Follows(m, q)
    BY <1>1, MarkedRequest, MarkedFields DEF Marks
  <1>3. os \in SUBSET Providers /\ (decision = "retry" => os = {})
    BY <1>1, <1>2
  <1> HIDE DEF q, m, os
  <1>4. /\ seen \in Request /\ seen.rest = q.rest /\ seen.kind = q.kind
        /\ seen.until = None /\ seen.earliest = q.earliest /\ seen.opened = os
        /\ seen.attempts = m.attempts
    BY <1>2, <1>3 DEF Request
  <1> HIDE DEF seen
  <1>5. /\ cool \in Request /\ cool.pc = "cool" /\ cool.rest = q.rest
        /\ cool.kind = q.kind /\ cool.until = None /\ cool.earliest = q.earliest
        /\ cool.attempts = m.attempts
    BY <1>4 DEF Request
  <1>6. Sound(cool) /\ Follows(cool, q)
    BY <1>1, <1>2, <1>5 DEF Sound, Follows, Busy
  <1>7. back \in Request /\ Sound(back) /\ Follows(back, q)
    <2>1. CASE decision = "retry"
      <3>1. back = Again(seen) BY <2>1 DEF Resumed
      <3>2. /\ back \in Request /\ Sound(back)
            /\ back.attempts = seen.attempts /\ back.earliest = seen.earliest
        BY <1>1, <1>3, <1>4, <2>1, <3>1, AgainSound
      <3> QED BY <1>2, <1>4, <3>2 DEF Follows
    <2>2. CASE back = Ended("rejected")
      BY <2>2, IdleRequest DEF Answers, Follows
    <2>3. CASE back = Advanced(seen)
      <3>1. /\ back \in Request /\ Sound(back)
            /\ back.attempts = seen.attempts /\ back.earliest = seen.earliest
        BY <1>1, <1>4, <2>3, AdvancedSound
      <3> QED BY <1>2, <1>4, <3>1 DEF Follows
    <2> QED BY <2>1, <2>2, <2>3 DEF Resumed
  <1> QED BY <1>5, <1>6, <1>7 DEF q, m, os, seen

LEMMA FailWithInv ==
    ASSUME IInv, NEW r \in Requests, req[r].pc \in {"attempt", "wait"},
           NEW fault \in Faults \cup {Unbuilt}, FailWith(r, fault)
    PROVE  IInv'
  <1> DEFINE q == req[r]
             p == Current(q)
             blames == fault.records /\ ~q.kind.count
             h == IF blames THEN Recorded(q, health[p]) ELSE health[p]
             opened == blames /\ h.state = "Open"
             decision == Decided(q, fault, opened)
             cools == fault.cools /\ ~q.kind.count /\ decision # "retry"
             seen == [Marked(q, "failed") EXCEPT
                        !.coded = TRUE, !.opened = IF opened THEN @ \cup {p} ELSE @]
             k == IF cools /\ fault.at = "status" THEN Cooled(q, h) ELSE h
             o == IF cools /\ fault.at # "status" THEN [seen EXCEPT !.pc = "cool"]
                  ELSE Resumed(seen, fault, decision)
  <1>1. /\ q \in Request /\ q.kind \in Kind /\ p \in Providers /\ now \in Nat
    BY Acting DEF Busy
  <1>2. health \in [Providers -> Health] /\ health[p] \in Health
    BY <1>1 DEF IInv, TypeOK
  <1>3. /\ health' = [health EXCEPT ![p] = Kept(k)] /\ Set(r, o)
        /\ UNCHANGED <<now, starts, cleared>>
    BY DEF FailWith
  <1>4. req'[r] = o /\ req' = [req EXCEPT ![r] = req'[r]] BY <1>3, Acting
  <1>5. /\ h \in Health
        /\ \A e \in Nat : Bars(health[p], e) => Bars(h, e)
    BY <1>1, <1>2, RecordedBars
  <1>o. opened \in BOOLEAN OBVIOUS
  <1>d. opened => decision # "retry"
    <2> SUFFICES ASSUME opened PROVE decision # "retry" OBVIOUS
    <2>1. ~q.kind.count OBVIOUS
    <2> QED BY <2>1 DEF Decided
  <1>6. o \in Request /\ Sound(o) /\ Follows(o, q)
    <2>1. /\ [seen EXCEPT !.pc = "cool"] \in Request
          /\ Sound([seen EXCEPT !.pc = "cool"]) /\ Follows([seen EXCEPT !.pc = "cool"], q)
          /\ Resumed(seen, fault, decision) \in Request
          /\ Sound(Resumed(seen, fault, decision))
          /\ Follows(Resumed(seen, fault, decision), q)
      <3> HIDE DEF opened, decision
      <3> QED BY <1>o, <1>d, ResumedSound
    <2> QED BY <2>1
  <1> HIDE DEF h, o
  <1>7. /\ k \in Health
        /\ \A e \in Nat : Bars(health[p], e) => Bars(k, e)
    BY <1>1, <1>5, CooledHealthBars
  <1> HIDE DEF k
  <1>8. /\ health' = [health EXCEPT ![p] = health'[p]] /\ health'[p] = Kept(k)
    BY <1>1, <1>2, <1>3
  <1>9. /\ health'[p] \in Health
        /\ \A e \in Nat : Bars(health[p], e) => Bars(health'[p], e)
    BY <1>7, <1>8, KeptBars
  <1> HIDE DEF p
  <1> QED BY <1>1, <1>3, <1>4, <1>6, <1>8, <1>9, StricterInv

LEMMA CoolDownInv ==
    ASSUME IInv, NEW r \in Requests, CoolDown(r)
    PROVE  IInv'
  <1> DEFINE q == req[r]
             p == Current(q)
             k == Cooled(q, health[p])
  <1>1. /\ q \in Request /\ q.rest # <<>> /\ q.kind \in Kind /\ q.until = None
        /\ p \in Providers /\ now \in Nat
    BY Acting DEF CoolDown, Busy
  <1>2. health \in [Providers -> Health] /\ health[p] \in Health
    BY <1>1 DEF IInv, TypeOK
  <1>3. /\ req'[r] = Advanced(q) /\ req' = [req EXCEPT ![r] = req'[r]]
        /\ UNCHANGED <<now, starts, cleared>>
    BY Acting DEF CoolDown
  <1>4. Advanced(q) \in Request /\ Sound(Advanced(q)) /\ Follows(Advanced(q), q)
    BY <1>1, AdvancedSound DEF Follows, Request, MaybeTime
  <1>5. k \in Health /\ \A e \in Nat : Bars(health[p], e) => Bars(k, e)
    BY <1>1, <1>2, CooledHealthBars
  <1>6. health' = [health EXCEPT ![p] = health'[p]] /\ health'[p] = Kept(k)
    BY <1>1, <1>2 DEF CoolDown
  <1>7. /\ health'[p] \in Health
        /\ \A e \in Nat : Bars(health[p], e) => Bars(health'[p], e)
    BY <1>5, <1>6, KeptBars
  <1> HIDE DEF p, k
  <1> QED BY <1>1, <1>3, <1>4, <1>6, <1>7, StricterInv

LEMMA Fake200Inv ==
    ASSUME IInv, NEW r \in Requests, Fake200(r)
    PROVE  IInv'
  <1> DEFINE q == req[r]
             p == Current(q)
             h == Recorded(q, health[p])
             k == Cooled(q, h)
             m == Marked(q, "failed")
             o == [Advanced(m) EXCEPT !.coded = TRUE]
  <1>1. /\ q \in Request /\ q.rest # <<>> /\ q.kind \in Kind /\ q.until = None
        /\ p \in Providers /\ now \in Nat
    BY Acting DEF Fake200, Busy
  <1>2. health \in [Providers -> Health] /\ health[p] \in Health
    BY <1>1 DEF IInv, TypeOK
  <1>3. /\ h \in Health /\ \A e \in Nat : Bars(health[p], e) => Bars(h, e)
    BY <1>1, <1>2, RecordedBars
  <1>4. /\ k \in Health /\ \A e \in Nat : Bars(h, e) => Bars(k, e)
    BY <1>1, <1>3, CooledHealthBars
  <1>5. /\ m \in Request /\ m.rest # <<>> /\ m.kind \in Kind /\ m.until = None
        /\ m.earliest = q.earliest /\ Follows(m, q)
    BY <1>1, MarkedRequest, MarkedFields DEF Marks
  <1>6. /\ Advanced(m) \in Request /\ Sound(Advanced(m))
        /\ Advanced(m).attempts = m.attempts /\ Advanced(m).earliest = m.earliest
        /\ Advanced(m).pc = "next" /\ Advanced(m).kind = m.kind
        /\ Advanced(m).until = None
    BY <1>5, AdvancedSound
  <1>7. o \in Request /\ Sound(o) /\ Follows(o, q)
    <2> DEFINE d == Advanced(m)
    <2>1. d.opened = {} BY <1>6 DEF Sound
    <2> HIDE DEF q, m, d
    <2>2. /\ o \in Request /\ o.pc = "next" /\ o.kind = d.kind /\ o.until = None
          /\ o.opened = {} /\ o.attempts = d.attempts /\ o.earliest = d.earliest
      BY <1>6, <2>1 DEF Request, d
    <2> QED BY <1>5, <1>6, <2>2 DEF d, Sound, Follows, Busy
  <1>8. \E g \in {h, k, health[p]} : health' = [health EXCEPT ![p] = g]
                                      \/ health' = [health EXCEPT ![p] = Kept(g)]
    BY DEF Fake200
  <1>9. /\ health' = [health EXCEPT ![p] = health'[p]]
        /\ health'[p] \in Health
        /\ \A e \in Nat : Bars(health[p], e) => Bars(health'[p], e)
    <2> HIDE DEF q, p, h, k
    <2>1. PICK g \in {h, k, health[p]} : health' = [health EXCEPT ![p] = g]
                                      \/ health' = [health EXCEPT ![p] = Kept(g)]
      BY <1>8
    <2>2. g \in Health /\ \A e \in Nat : Bars(health[p], e) => Bars(g, e)
      BY <1>2, <1>3, <1>4
    <2>3. Kept(g) \in Health /\ \A e : Bars(Kept(g), e) <=> Bars(g, e)
      BY <2>2, KeptBars
    <2>4. health'[p] = g \/ health'[p] = Kept(g) BY <1>1, <1>2, <2>1
    <2>5. health' = [health EXCEPT ![p] = health'[p]] BY <1>1, <1>2, <2>1
    <2> QED BY <2>2, <2>3, <2>4, <2>5
  <1>10. /\ req'[r] = o \/ req'[r] = Ended("rejected")
         /\ req' = [req EXCEPT ![r] = req'[r]]
         /\ UNCHANGED <<now, starts, cleared>>
    BY Acting DEF Fake200
  <1>11. req'[r] \in Request /\ Sound(req'[r]) /\ Follows(req'[r], q)
    BY <1>7, <1>10, IdleRequest DEF Answers, Follows
  <1> HIDE DEF p
  <1> QED BY <1>1, <1>9, <1>10, <1>11, StricterInv

\* A success frees its provider for every request.
LEMMA CreditInv ==
    ASSUME IInv, NEW r \in Requests, req[r].pc \in Busy, Credit(req[r], Current(req[r])),
           Set(r, Ended("served")), UNCHANGED <<now, starts>>
    PROVE  IInv'
  <1> DEFINE q == req[r]
             p == Current(q)
             k == Succeeded(health[p], now)
  <1>1. /\ req'[r] = Ended("served") /\ req' = [req EXCEPT ![r] = req'[r]]
        /\ p \in Providers /\ now \in Nat
    BY Acting
  <1>2. /\ req'[r] \in Request /\ Sound(req'[r])
        /\ Waits(req'[r], cleared'[r], health', now')
    BY <1>1, IdleRequest DEF Answers, Waits
  <1>3. CASE q.kind.neutral
    <2>1. UNCHANGED <<health, cleared>> BY <1>3 DEF Credit
    <2> QED BY <2>1, EndsInv DEF Answers
  <1>4. CASE ~q.kind.neutral
    <2>1. /\ health' = [health EXCEPT ![p] = Kept(k)]
          /\ cleared' = [s \in Requests |-> cleared[s] \cup {p}]
      BY <1>4 DEF Credit
    <2>2. health \in [Providers -> Health] /\ cleared \in [Requests -> SUBSET Providers]
      BY DEF IInv, TypeOK
    <2>3. Kept(k) \in Health BY <1>1, <2>2, SucceededType, KeptBars
    <2> HIDE DEF p, k
    <2>4. health' \in [Providers -> Health] /\ cleared' \in [Requests -> SUBSET Providers]
      BY <1>1, <2>1, <2>2, <2>3
    <2>5. \A s \in Requests : cleared[s] \subseteq cleared'[s] /\ p \in cleared'[s]
      BY <2>1, <2>2
    <2>6. \A o \in Providers \ {p} : health'[o] = health[o] BY <2>1, <2>2
    <2>7. Stricter BY <2>5, <2>6 DEF Stricter
    <2>8. \A s \in Requests \ {r} : req'[s] = req[s] BY <1>1 DEF IInv, TypeOK
    <2>9. Apart(r)
      BY <1>1, <2>4, <2>5, <2>7, <2>8 DEF Apart, IInv, TypeOK
    <2> QED BY <1>2, <2>9, StepInv
  <1> QED BY <1>3, <1>4

LEMMA EndStreamInv ==
    ASSUME IInv, NEW r \in Requests, EndStream(r)
    PROVE  IInv'
  <1> DEFINE q == req[r]
             p == Current(q)
             k == Cooled(q, health[p])
  <1>1. CASE Credit(q, p) BY <1>1, CreditInv DEF EndStream, Busy
  <1>2. CASE UNCHANGED <<health, cleared>>
    BY <1>2, EndsInv DEF EndStream, Answers
  <1>3. CASE /\ \E h \in {k, Recorded(q, k)} : health' = [health EXCEPT ![p] = Kept(h)]
             /\ UNCHANGED cleared
    <2>1. PICK h \in {k, Recorded(q, k)} : health' = [health EXCEPT ![p] = Kept(h)]
      BY <1>3
    <2>2. /\ q \in Request /\ p \in Providers /\ now \in Nat
          /\ req'[r] = Ended("served") /\ req' = [req EXCEPT ![r] = req'[r]]
      BY Acting DEF EndStream, Busy
    <2>3. health \in [Providers -> Health] /\ health[p] \in Health
      BY <2>2 DEF IInv, TypeOK
    <2>4. /\ k \in Health /\ \A e \in Nat : Bars(health[p], e) => Bars(k, e)
      BY <2>2, <2>3, CooledHealthBars
    <2>5. /\ Recorded(q, k) \in Health
          /\ \A e \in Nat : Bars(k, e) => Bars(Recorded(q, k), e)
      BY <2>2, <2>4, RecordedBars
    <2>6. h \in Health /\ \A e \in Nat : Bars(health[p], e) => Bars(h, e)
      BY <2>4, <2>5
    <2>7. Kept(h) \in Health /\ \A e : Bars(Kept(h), e) <=> Bars(h, e)
      BY <2>6, KeptBars
    <2>8. health' = [health EXCEPT ![p] = health'[p]] /\ health'[p] = Kept(h)
      BY <2>1, <2>2, <2>3
    <2>9. /\ health'[p] \in Health
          /\ \A e \in Nat : Bars(health[p], e) => Bars(health'[p], e)
      BY <2>6, <2>7, <2>8
    <2>10. req'[r] \in Request /\ Sound(req'[r]) /\ Follows(req'[r], q)
      BY <2>2, IdleRequest DEF Answers, Follows
    <2>11. UNCHANGED <<now, starts, cleared>> BY <1>3 DEF EndStream
    <2> HIDE DEF p, k
    <2> QED BY <2>2, <2>8, <2>9, <2>10, <2>11, StricterInv
  <1> QED BY <1>1, <1>2, <1>3 DEF EndStream

LEMMA SucceedInv ==
    ASSUME IInv, NEW r \in Requests, Succeed(r)
    PROVE  IInv'
  BY CreditInv DEF Succeed, Busy

LEMMA TickInv ==
    ASSUME IInv, Tick
    PROVE  IInv'
  <1>1. /\ now' \in Nat /\ now <= now' /\ now \in Nat
        /\ health' = health /\ req' = req /\ starts' = starts /\ cleared' = cleared
    BY DEF Tick, IInv, TypeOK
  <1>2. TypeOK' BY <1>1 DEF IInv, TypeOK
  <1>3. ASSUME NEW r \in Requests
        PROVE  Sound(req'[r]) /\ Waits(req'[r], cleared'[r], health', now')
    <2>1. Sound(req[r]) /\ Waits(req[r], cleared[r], health, now) BY DEF IInv
    <2> QED BY <1>1, <2>1 DEF Waits
  <1> QED BY <1>2, <1>3 DEF IInv

---------------------------------------------------------------------------

LEMMA InitInv == Init => IInv
  <1> SUFFICES ASSUME Init PROVE IInv OBVIOUS
  <1>1. now \in Nat /\ starts \in Nat BY WindowAssumption DEF Init
  <1>2. health \in [Providers -> Health] BY StartHealth DEF Init
  <1>3. req \in [Requests -> Request] /\ \A r \in Requests : req[r] = Idle
    BY IdleRequest DEF Init
  <1>4. cleared \in [Requests -> SUBSET Providers] BY DEF Init
  <1>5. \A r \in Requests : Sound(req[r]) /\ Waits(req[r], cleared[r], health, now)
    BY <1>3, IdleRequest DEF Waits
  <1>6. TypeOK BY <1>1, <1>2, <1>3, <1>4, <1>5 DEF TypeOK, Sound
  <1> QED BY <1>5, <1>6 DEF IInv

LEMMA NextInv == IInv /\ [Next]_vars => IInv'
  <1> SUFFICES ASSUME IInv, [Next]_vars PROVE IInv' OBVIOUS
  <1>1. CASE UNCHANGED vars
    BY <1>1 DEF vars, IInv, TypeOK
  <1>2. CASE Tick BY <1>2, TickInv
  <1>3. ASSUME NEW r \in Requests, Start(r) PROVE IInv' BY <1>3, StartInv
  <1>4. ASSUME NEW r \in Requests, Gate(r) PROVE IInv' BY <1>4, GateInv
  <1>5. ASSUME NEW r \in Requests, Limited(r) \/ Skip(r) \/ Prepare(r) \/ AuthFails(r)
        PROVE  IInv'
    BY <1>5, LimitedInv, SkipInv, PrepareInv, AuthFailsInv
  <1>6. ASSUME NEW r \in Requests, Send(r) \/ RepairAndRetry(r) \/ StartStream(r)
                                     \/ Finish(r) \/ Leave(r)
        PROVE  IInv'
    BY <1>6, SendInv, RepairInv, StartStreamInv, FinishInv, LeaveInv
  <1>7. ASSUME NEW r \in Requests, Blocked(r) \/ ClientLeaves(r) PROVE IInv'
    BY <1>7, EndsInv DEF Blocked, ClientLeaves, Answers
  <1>8. ASSUME NEW r \in Requests, UrlFails(r) \/ Fail(r) PROVE IInv'
    BY <1>8, FailWithInv DEF UrlFails, Fail
  <1>9. ASSUME NEW r \in Requests, CoolDown(r) \/ Fake200(r) \/ Succeed(r) \/ EndStream(r)
        PROVE  IInv'
    BY <1>9, CoolDownInv, Fake200Inv, SucceedInv, EndStreamInv
  <1> QED BY <1>1, <1>2, <1>3, <1>4, <1>5, <1>6, <1>7, <1>8, <1>9 DEF Next

\* The invariant that the properties follow from is kept by every step of the loop.
THEOREM Inductive == Spec => []IInv
  BY InitInv, NextInv, PTL DEF Spec

\* Every variable keeps its type, and no request makes more attempts on a provider than
\* its budget, however many requests there are (provider_iterator.rs:380-396).
THEOREM LoopTypes == Spec => []TypeOK
  <1>1. IInv => TypeOK BY DEF IInv
  <1> QED BY <1>1, Inductive, PTL

\* A request that saw its failure leave a circuit open does not call that provider again
\* (attempt_record.rs:196-212, upstream_error.rs:492-494).
THEOREM OpenEndsCalls == Spec => []NoCallAfterOpen
  <1>1. IInv => NoCallAfterOpen BY DEF IInv, NoCallAfterOpen, Sound
  <1> QED BY <1>1, Inductive, PTL

\* Nobody that was denied for a circuit is let through before the time an unavailable
\* answer names, whatever the other requests record meanwhile, but for a success
\* (provider_router.rs:71-81, response/finalize.rs:83-86).
THEOREM NamedTimeHolds == Spec => []RetryAfterNotLate
  <1>1. ASSUME IInv PROVE RetryAfterNotLate
    <2> SUFFICES ASSUME NEW r \in Requests, req[r].answer = "unavailable",
                        req[r].until # None,
                        NEW p \in Providers \ cleared[r], NEW t \in now .. req[r].until - 1,
                        <<p, "circuit">> \in req[r].attempts
                 PROVE  ~Allows(Checked(health[p], t), t)
      BY DEF RetryAfterNotLate
    <2> DEFINE e == req[r].earliest
    <2>1. /\ req[r].until = e /\ now \in Nat /\ health[p] \in Health
          /\ e \in Nat /\ (e <= now \/ Bars(health[p], e))
      BY <1>1 DEF IInv, TypeOK, Sound, Waits
    <2>2. t \in Nat /\ t < e /\ now <= t BY <2>1
    <2> HIDE DEF e
    <2>3. Bars(health[p], e) BY <2>1, <2>2
    <2> QED BY <2>1, <2>2, <2>3, BarsBars
  <1> QED BY <1>1, Inductive, PTL

---------------------------------------------------------------------------
(* The answer: what the loop knows of its candidates.                         *)

FailedBy(q) == {p \in Providers : <<p, "failed">> \in q.attempts}
TriedBy(q)  == q.called \cup FailedBy(q)
SeenBy(q)   == {a[1] : a \in q.attempts}

\* Every candidate was tried, was skipped or is left, and none is left twice.
Listed(q) ==
    /\ IsInjective(q.rest)
    /\ Range(q.list) = TriedBy(q) \cup SeenBy(q) \cup Range(q.rest)
    /\ IsFiniteSet(TriedBy(q))

\* Before the first failure each retry is one of the repairs that a provider is
\* open to, and the budget has one attempt for each.
Repaired(q) ==
    \/ Current(q) \in FailedBy(q)
    \/ /\ q.retry <= 1 + One("refresh" \in q.used) + One("previous" \in q.used)
                       + One("bearer" \in q.used)
       /\ "refresh" \in q.used => Current(q) \in OAuth
       /\ "previous" \in q.used => "previous" \in q.kind.repairs
       /\ "bearer" \in q.used => "bearer" \in q.kind.repairs /\ Current(q) \notin OAuth

\* AnswerFitsCalls of one request.
AnswerFits(q) ==
    /\ q.answer = "unavailable" /\ ~q.kind.strict => q.called \subseteq Bridged
    /\ q.answer \in {"unavailable", "all_failed"} =>
        \/ Range(q.list) = TriedBy(q) \cup SeenBy(q)
        \/ Cardinality(TriedBy(q)) >= Max2(q.kind.places, 1)

\* Between two candidates the places that are used up are providers that were
\* tried, and a provider that was called has failed on the record.
Between(q) ==
    /\ Listed(q) /\ TriedBy(q) \cap Range(q.rest) = {}
    /\ q.tried <= Cardinality(TriedBy(q))
    /\ q.kind.strict \/ q.called \subseteq Bridged \cup FailedBy(q)

\* The same on a candidate, which may be called and have no failure yet.
Within(q) ==
    /\ Listed(q) /\ TriedBy(q) \cap Range(Tail(q.rest)) = {}
    /\ q.tried <= Cardinality(TriedBy(q) \cup {Current(q)})
    /\ q.kind.strict \/ q.called \subseteq Bridged \cup FailedBy(q) \cup {Current(q)}
    /\ q.pc = "wait" => Current(q) \in q.called
    /\ q.pc = "cool" => Current(q) \in FailedBy(q)
    /\ q.pc \in {"attempt", "wait"} /\ ~q.kind.strict /\ Current(q) \notin Bridged => Repaired(q)

Account(q) ==
    /\ q.pc \in {"next", "prepare"} => Between(q)
    /\ q.pc \in {"attempt", "wait", "cool"} => Within(q)
    /\ q.pc # "done" => q.answer = None
    /\ AnswerFits(q)

\* Between two candidates the retries are forgotten.
LEMMA SameBetween ==
    ASSUME NEW q, NEW o, Account(q), q.pc = "next",
           o.pc = q.pc, o.kind = q.kind, o.list = q.list, o.rest = q.rest, o.tried = q.tried,
           o.attempts = q.attempts, o.called = q.called, o.answer = q.answer
    PROVE  Account(o)
  <1>1. FailedBy(o) = FailedBy(q) /\ TriedBy(o) = TriedBy(q) /\ SeenBy(o) = SeenBy(q)
    BY DEF FailedBy, TriedBy, SeenBy
  <1> QED BY <1>1 DEF Account, Between, Listed, AnswerFits

LEMMA SplitList ==
    ASSUME NEW l \in Seq(Providers), l # <<>>, IsInjective(l)
    PROVE  /\ Range(l) = {Head(l)} \cup Range(Tail(l))
           /\ Head(l) \notin Range(Tail(l)) /\ IsInjective(Tail(l))
  <1>1. /\ Len(l) \in Nat \ {0} /\ DOMAIN l = 1..Len(l) /\ Head(l) = l[1]
        /\ Tail(l) \in Seq(Providers) /\ Len(Tail(l)) = Len(l) - 1
        /\ DOMAIN Tail(l) = 1..(Len(l) - 1)
        /\ \A i \in 1..(Len(l) - 1) : Tail(l)[i] = l[i + 1]
    OBVIOUS
  <1>2. Range(l) \subseteq {Head(l)} \cup Range(Tail(l))
    <2> SUFFICES ASSUME NEW i \in 1..Len(l), i # 1 PROVE l[i] \in Range(Tail(l))
      BY <1>1 DEF Range
    <2>1. i - 1 \in 1..(Len(l) - 1) /\ (i - 1) + 1 = i BY <1>1
    <2> QED BY <1>1, <2>1 DEF Range
  <1>3. \A i \in 1..(Len(l) - 1) : i + 1 \in 1..Len(l) /\ i + 1 # 1 BY <1>1
  <1>4. {Head(l)} \cup Range(Tail(l)) \subseteq Range(l) BY <1>1, <1>3 DEF Range
  <1>5. Head(l) \notin Range(Tail(l)) BY <1>1, <1>3 DEF Range, IsInjective
  <1>6. IsInjective(Tail(l)) BY <1>1, <1>3 DEF IsInjective
  <1> QED BY <1>2, <1>4, <1>5, <1>6

\* The turn of the next candidate comes when this one was tried or skipped.
LEMMA AdvancedAccount ==
    ASSUME NEW q \in Request, q.rest # <<>>, Listed(q), q.answer = None,
           Current(q) \in TriedBy(q) \cup SeenBy(q),
           TriedBy(q) \cap Range(Tail(q.rest)) = {},
           q.tried <= Cardinality(TriedBy(q)),
           q.kind.strict \/ q.called \subseteq Bridged \cup FailedBy(q)
    PROVE  Account(Advanced(q))
  <1> DEFINE a == Advanced(q)
  <1>1. /\ a.pc = "next" /\ a.rest = Tail(q.rest) /\ a.list = q.list /\ a.tried = q.tried
        /\ a.kind = q.kind /\ a.called = q.called /\ a.attempts = q.attempts
        /\ a.answer = None
    BY DEF Advanced, Request
  <1> HIDE DEF a
  <1>2. FailedBy(a) = FailedBy(q) /\ TriedBy(a) = TriedBy(q) /\ SeenBy(a) = SeenBy(q)
    BY <1>1 DEF FailedBy, TriedBy, SeenBy
  <1>3. /\ Range(q.rest) = {Current(q)} \cup Range(Tail(q.rest))
        /\ IsInjective(Tail(q.rest))
    BY SplitList DEF Request, Listed, Current
  <1>4. Listed(a) BY <1>1, <1>2, <1>3 DEF Listed
  <1>5. Between(a) BY <1>1, <1>2, <1>4 DEF Between
  <1>6. AnswerFits(a) BY <1>1, AnswerAssumption DEF AnswerFits, Answers
  <1> QED BY <1>1, <1>5, <1>6 DEF Account, a

LEMMA MarkedAccount ==
    ASSUME NEW q \in Request, q.rest # <<>>, NEW mark \in Marks
    PROVE  LET m == Marked(q, mark) IN
           /\ m \in Request /\ m.rest = q.rest /\ m.list = q.list /\ m.tried = q.tried
           /\ m.kind = q.kind /\ m.called = q.called /\ m.answer = q.answer
           /\ m.retry = q.retry /\ m.used = q.used
           /\ Current(m) = Current(q)
           /\ SeenBy(m) = SeenBy(q) \cup {Current(q)}
           /\ mark # "failed" => FailedBy(m) = FailedBy(q) /\ TriedBy(m) = TriedBy(q)
           /\ mark = "failed" => /\ FailedBy(m) = FailedBy(q) \cup {Current(q)}
                                 /\ TriedBy(m) = TriedBy(q) \cup {Current(q)}
  <1> DEFINE m == Marked(q, mark)
  <1>1. PICK as : /\ m = [q EXCEPT !.attempts = as]
                  /\ as = q.attempts \cup {<<Head(q.rest), mark>>}
                  /\ m \in Request
    BY MarkedRequest
  <1>2. Head(q.rest) \in Providers BY HeadTail DEF Request
  <1> HIDE DEF m
  <1>3. /\ m.rest = q.rest /\ m.list = q.list /\ m.tried = q.tried
        /\ m.kind = q.kind /\ m.called = q.called /\ m.answer = q.answer
        /\ m.retry = q.retry /\ m.used = q.used
        /\ m.attempts = q.attempts \cup {<<Head(q.rest), mark>>}
    BY <1>1 DEF Request
  <1>4. Current(m) = Current(q) /\ Current(q) = Head(q.rest) BY <1>3 DEF Current
  <1>5. SeenBy(m) = SeenBy(q) \cup {Current(q)}
    <2>1. \A a : a \in m.attempts <=> a \in q.attempts \/ a = <<Head(q.rest), mark>>
      BY <1>3
    <2>2. <<Head(q.rest), mark>>[1] = Current(q) BY <1>4
    <2> QED BY <2>1, <2>2 DEF SeenBy
  <1>6. mark # "failed" => FailedBy(m) = FailedBy(q)
    BY <1>3 DEF FailedBy
  <1>7. mark = "failed" => FailedBy(m) = FailedBy(q) \cup {Current(q)}
    BY <1>2, <1>3, <1>4 DEF FailedBy
  <1> QED BY <1>1, <1>3, <1>4, <1>5, <1>6, <1>7 DEF TriedBy, m

\* A candidate that is passed over takes no other's place.
LEMMA SkippedAccount ==
    ASSUME NEW q \in Request, q.rest # <<>>, q.pc \in {"next", "prepare"}, Account(q),
           NEW mark \in Marks, mark # "failed"
    PROVE  Account(Advanced(Marked(q, mark)))
  <1> DEFINE m == Marked(q, mark)
  <1>1. /\ m \in Request /\ m.rest = q.rest /\ m.list = q.list /\ m.tried = q.tried
        /\ m.kind = q.kind /\ m.called = q.called /\ m.answer = q.answer
        /\ Current(m) = Current(q)
        /\ SeenBy(m) = SeenBy(q) \cup {Current(q)}
        /\ FailedBy(m) = FailedBy(q) /\ TriedBy(m) = TriedBy(q)
    BY MarkedAccount
  <1>2. Between(q) /\ q.answer = None BY DEF Account
  <1> HIDE DEF m
  <1>3. /\ Range(q.rest) = {Current(q)} \cup Range(Tail(q.rest))
    BY <1>2, SplitList DEF Request, Between, Listed, Current
  <1>4. Listed(m) BY <1>1, <1>2, <1>3 DEF Between, Listed
  <1>5. TriedBy(m) \cap Range(Tail(m.rest)) = {} BY <1>1, <1>2, <1>3 DEF Between
  <1> QED BY <1>1, <1>2, <1>4, <1>5, AdvancedAccount DEF Between, m

\* What is known of a candidate once it has failed on the record.
LEMMA FailedWithin ==
    ASSUME NEW q \in Request, q.rest # <<>>, q.pc \in {"attempt", "wait"}, Account(q)
    PROVE  LET m == Marked(q, "failed") IN
           /\ Listed(m) /\ TriedBy(m) \cap Range(Tail(m.rest)) = {}
           /\ m.tried <= Cardinality(TriedBy(m)) /\ TriedBy(m) \cup {Current(m)} = TriedBy(m)
           /\ m.kind.strict \/ m.called \subseteq Bridged \cup FailedBy(m)
           /\ Current(m) \in FailedBy(m) /\ m.answer = None
  <1> DEFINE m == Marked(q, "failed")
  <1>1. /\ m \in Request /\ m.rest = q.rest /\ m.list = q.list /\ m.tried = q.tried
        /\ m.kind = q.kind /\ m.called = q.called /\ m.answer = q.answer
        /\ Current(m) = Current(q)
        /\ SeenBy(m) = SeenBy(q) \cup {Current(q)}
        /\ FailedBy(m) = FailedBy(q) \cup {Current(q)}
        /\ TriedBy(m) = TriedBy(q) \cup {Current(q)}
    BY MarkedAccount DEF Marks
  <1>2. Within(q) /\ q.answer = None BY DEF Account
  <1> HIDE DEF m
  <1>3. /\ Range(q.rest) = {Current(q)} \cup Range(Tail(q.rest))
        /\ Current(q) \notin Range(Tail(q.rest))
    BY <1>2, SplitList DEF Request, Within, Listed, Current
  <1>4. IsFiniteSet(TriedBy(m)) BY <1>1, <1>2, FS_AddElement DEF Within, Listed
  <1>5. Listed(m) BY <1>1, <1>2, <1>3, <1>4 DEF Within, Listed
  <1>6. TriedBy(m) \cap Range(Tail(m.rest)) = {} BY <1>1, <1>2, <1>3 DEF Within
  <1>7. m.tried <= Cardinality(TriedBy(m)) BY <1>1, <1>2 DEF Within
  <1>8. m.kind.strict \/ m.called \subseteq Bridged \cup FailedBy(m)
    BY <1>1, <1>2 DEF Within
  <1> QED BY <1>1, <1>2, <1>5, <1>6, <1>7, <1>8 DEF m

\* Whoever has failed on the record waits to cool down, is retried, or is left.
LEMMA FailedAccount ==
    ASSUME NEW q \in Request, q.rest # <<>>, q.pc \in {"attempt", "wait"}, Account(q),
           NEW coded \in BOOLEAN, NEW opened \in SUBSET Providers
    PROVE  LET o == [Marked(q, "failed") EXCEPT !.coded = coded, !.opened = opened] IN
           /\ Account(Advanced(o)) /\ Account(Again(o)) /\ Account([o EXCEPT !.pc = "cool"])
  <1> DEFINE m == Marked(q, "failed")
             o == [m EXCEPT !.coded = coded, !.opened = opened]
  <1>1. /\ m \in Request /\ m.rest = q.rest /\ m.kind = q.kind
    BY MarkedAccount DEF Marks
  <1>2. /\ Listed(m) /\ TriedBy(m) \cap Range(Tail(m.rest)) = {}
        /\ m.tried <= Cardinality(TriedBy(m)) /\ TriedBy(m) \cup {Current(m)} = TriedBy(m)
        /\ m.kind.strict \/ m.called \subseteq Bridged \cup FailedBy(m)
        /\ Current(m) \in FailedBy(m) /\ m.answer = None
    BY FailedWithin
  <1> HIDE DEF m
  <1>3. /\ o \in Request /\ o.rest = m.rest /\ o.list = m.list /\ o.tried = m.tried
        /\ o.kind = m.kind /\ o.called = m.called /\ o.attempts = m.attempts
        /\ o.answer = m.answer
    BY <1>1 DEF Request
  <1> HIDE DEF o
  <1>4. /\ FailedBy(o) = FailedBy(m) /\ TriedBy(o) = TriedBy(m) /\ SeenBy(o) = SeenBy(m)
        /\ Current(o) = Current(m)
    BY <1>3 DEF FailedBy, TriedBy, SeenBy, Current
  <1>5. /\ Listed(o) /\ TriedBy(o) \cap Range(Tail(o.rest)) = {}
        /\ o.tried <= Cardinality(TriedBy(o)) /\ TriedBy(o) \cup {Current(o)} = TriedBy(o)
        /\ o.kind.strict \/ o.called \subseteq Bridged \cup FailedBy(o)
        /\ Current(o) \in FailedBy(o) /\ o.answer = None
    BY <1>2, <1>3, <1>4 DEF Listed
  <1>6. Account(Advanced(o))
    BY <1>1, <1>3, <1>5, AdvancedAccount DEF TriedBy
  <1>7. ASSUME NEW n \in Request, n.pc \in {"attempt", "cool"},
               n.rest = o.rest, n.list = o.list, n.tried = o.tried, n.kind = o.kind,
               n.called = o.called, n.attempts = o.attempts, n.answer = o.answer
        PROVE  Account(n)
    <2>1. /\ FailedBy(n) = FailedBy(o) /\ TriedBy(n) = TriedBy(o) /\ SeenBy(n) = SeenBy(o)
          /\ Current(n) = Current(o)
      BY <1>7 DEF FailedBy, TriedBy, SeenBy, Current
    <2>2. Listed(n) BY <1>5, <1>7, <2>1 DEF Listed
    <2>3. Within(n) BY <1>5, <1>7, <2>1, <2>2 DEF Within, Repaired
    <2>4. AnswerFits(n) BY <1>5, <1>7, AnswerAssumption DEF AnswerFits, Answers
    <2> QED BY <1>5, <1>7, <2>3, <2>4 DEF Account
  <1>8. Account([o EXCEPT !.pc = "cool"])
    <2> DEFINE n == [o EXCEPT !.pc = "cool"]
    <2>1. /\ n \in Request /\ n.pc = "cool" /\ n.rest = o.rest /\ n.list = o.list
          /\ n.tried = o.tried /\ n.kind = o.kind /\ n.called = o.called
          /\ n.attempts = o.attempts /\ n.answer = o.answer
      BY <1>3 DEF Request
    <2> HIDE DEF n
    <2>2. Account(n) BY <1>7, <2>1
    <2> QED BY <2>2 DEF n
  <1>9. Account(Again(o))
    <2>1. CASE o.retry < Budget(o)
      <3> DEFINE k == o.retry + 1
                 n == [o EXCEPT !.pc = "attempt", !.retry = k]
      <3>1. k \in Nat /\ Again(o) = n BY <1>3, <2>1 DEF Request, Again
      <3> HIDE DEF k
      <3>2. /\ n \in Request /\ n.pc = "attempt" /\ n.rest = o.rest /\ n.list = o.list
            /\ n.tried = o.tried /\ n.kind = o.kind /\ n.called = o.called
            /\ n.attempts = o.attempts /\ n.answer = o.answer
        BY <1>3, <3>1 DEF Request
      <3> HIDE DEF n
      <3>3. Account(n) BY <1>7, <3>2
      <3> QED BY <3>1, <3>3
    <2>2. CASE ~(o.retry < Budget(o)) BY <1>6, <2>2 DEF Again
    <2> QED BY <2>1, <2>2
  <1> QED BY <1>6, <1>8, <1>9 DEF o, m

\* The repair that is left has its attempt, until a failure is on the record.
LEMMA RepairHasAttempt ==
    ASSUME NEW q \in Request, q.kind \in Kind, q.pc = "wait", ~q.kind.strict,
           Current(q) \notin Bridged, Within(q), Current(q) \notin FailedBy(q),
           NEW repair \in Repairs(q) \ q.used
    PROVE  q.retry < Budget(q)
  <1>1. Repaired(q) BY DEF Within
  <1>2. /\ q.retry <= 1 + One("refresh" \in q.used) + One("previous" \in q.used)
                        + One("bearer" \in q.used)
        /\ "refresh" \in q.used => Current(q) \in OAuth
        /\ "previous" \in q.used => "previous" \in q.kind.repairs
        /\ "bearer" \in q.used => "bearer" \in q.kind.repairs /\ Current(q) \notin OAuth
    BY <1>1 DEF Repaired
  <1>3. /\ Configured(q) \in Nat /\ Configured(q) >= 1 /\ Cfg.failure_threshold \in Nat
        /\ q.retry \in Nat
    BY BudgetAssumption DEF Configured, Max2, Kind, Config, Request
  <1>4. Budget(q) >= 1 + One(Current(q) \in OAuth) + One("previous" \in q.kind.repairs)
    BY <1>3 DEF Budget, Max2, One
  <1>5. Budget(q) \in Nat BY BudgetType
  <1>6. q.kind.repairs \in {{}, {"previous"}, {"bearer"}} BY DEF Kind
  <1>7. CASE repair = "bearer"
    BY <1>7 DEF Repairs
  <1>8. CASE repair = "refresh"
    <2>1. Current(q) \in OAuth /\ "refresh" \notin q.used /\ "bearer" \notin q.used
      BY <1>2, <1>8 DEF Repairs
    <2> QED BY <1>2, <1>3, <1>4, <1>5, <2>1 DEF One
  <1>9. CASE repair = "previous"
    <2>1. "previous" \in q.kind.repairs /\ "previous" \notin q.used
          /\ "bearer" \notin q.used
      BY <1>2, <1>6, <1>9 DEF Repairs
    <2> QED BY <1>2, <1>3, <1>4, <1>5, <2>1 DEF One
  <1> QED BY <1>7, <1>8, <1>9 DEF Repairs

LEMMA RepairAccount ==
    ASSUME IInv, NEW r \in Requests, Account(req[r]), RepairAndRetry(r)
    PROVE  Account(req'[r])
  <1> DEFINE q == req[r]
  <1>1. PICK repair \in Repairs(q) \ q.used :
           Set(r, [Again(q) EXCEPT !.used = @ \cup {repair}])
    BY DEF RepairAndRetry
  <1>2. /\ q \in Request /\ q.rest # <<>> /\ q.kind \in Kind /\ q.pc = "wait"
        /\ req'[r] = [Again(q) EXCEPT !.used = @ \cup {repair}]
    BY <1>1, Acting DEF RepairAndRetry, Busy
  <1>3. Within(q) /\ q.answer = None BY <1>2 DEF Account
  <1>r. repair \in Repair BY DEF Repairs, Repair
  <1> HIDE DEF q
  <1>4. CASE q.retry < Budget(q)
    <2> DEFINE k == q.retry + 1
               u == q.used \cup {repair}
               n == [q EXCEPT !.pc = "attempt", !.retry = k, !.used = u]
    <2>1. k \in Nat /\ u \in SUBSET Repair BY <1>2, <1>r DEF Request
    <2>2. req'[r] = n
      <3> DEFINE a == [q EXCEPT !.pc = "attempt", !.retry = @ + 1]
      <3>1. Again(q) = a BY <1>4 DEF Again
      <3>2. a.used = q.used BY <1>2 DEF Request
      <3> QED BY <1>2, <3>1, <3>2
    <2>3. k = q.retry + 1 /\ u = q.used \cup {repair} OBVIOUS
    <2> HIDE DEF k, u
    <2>4. /\ n.pc = "attempt" /\ n.rest = q.rest /\ n.list = q.list
          /\ n.tried = q.tried /\ n.kind = q.kind /\ n.called = q.called
          /\ n.attempts = q.attempts /\ n.answer = q.answer /\ n.retry = k /\ n.used = u
      BY <1>2, <2>1 DEF Request
    <2> HIDE DEF n
    <2>5. /\ FailedBy(n) = FailedBy(q) /\ TriedBy(n) = TriedBy(q) /\ SeenBy(n) = SeenBy(q)
          /\ Current(n) = Current(q)
      BY <2>4 DEF FailedBy, TriedBy, SeenBy, Current
    <2>6. Listed(n) BY <1>3, <2>4, <2>5 DEF Listed, Within
    <2>7. Current(q) \notin Bridged /\ Repaired(q) => Repaired(n)
      <3> SUFFICES ASSUME Current(q) \notin Bridged, Repaired(q), Current(q) \notin FailedBy(q)
                   PROVE  Repaired(n)
        BY <2>5 DEF Repaired
      <3>1. /\ repair = "refresh" => Current(q) \in OAuth
            /\ repair = "previous" => "previous" \in q.kind.repairs
            /\ repair = "bearer" => "bearer" \in q.kind.repairs /\ Current(q) \notin OAuth
        BY DEF Repairs
      <3>2. q.retry \in Nat BY <1>2 DEF Request
      <3>3. k <= 1 + One("refresh" \in u) + One("previous" \in u) + One("bearer" \in u)
        <4>1. q.retry <= 1 + One("refresh" \in q.used) + One("previous" \in q.used)
                           + One("bearer" \in q.used)
          BY DEF Repaired
        <4>2. repair \notin q.used /\ repair \in {"refresh", "previous", "bearer"}
          BY <1>r DEF Repair
        <4>3. CASE repair = "refresh"
          <5>1. /\ "refresh" \in u /\ "refresh" \notin q.used
                /\ ("previous" \in u) = ("previous" \in q.used)
                /\ ("bearer" \in u) = ("bearer" \in q.used)
            BY <2>3, <4>2, <4>3
          <5> QED BY <2>3, <3>2, <4>1, <5>1 DEF One
        <4>4. CASE repair = "previous"
          <5>1. /\ "previous" \in u /\ "previous" \notin q.used
                /\ ("refresh" \in u) = ("refresh" \in q.used)
                /\ ("bearer" \in u) = ("bearer" \in q.used)
            BY <2>3, <4>2, <4>4
          <5> QED BY <2>3, <3>2, <4>1, <5>1 DEF One
        <4>5. CASE repair = "bearer"
          <5>1. /\ "bearer" \in u /\ "bearer" \notin q.used
                /\ ("refresh" \in u) = ("refresh" \in q.used)
                /\ ("previous" \in u) = ("previous" \in q.used)
            BY <2>3, <4>2, <4>5
          <5> QED BY <2>3, <3>2, <4>1, <5>1 DEF One
        <4> QED BY <4>2, <4>3, <4>4, <4>5
      <3> QED BY <2>3, <2>4, <2>5, <3>1, <3>3 DEF Repaired
    <2>8. Within(n) BY <1>2, <1>3, <2>4, <2>5, <2>6, <2>7 DEF Within
    <2>9. AnswerFits(n) BY <1>3, <2>4, AnswerAssumption DEF AnswerFits, Answers
    <2> QED BY <1>3, <2>2, <2>4, <2>8, <2>9 DEF Account
  <1>5. CASE ~(q.retry < Budget(q))
    <2> DEFINE a == Advanced(q)
    <2>1. Again(q) = a BY <1>5 DEF Again
    <2>2. q.kind.strict \/ q.called \subseteq Bridged \cup FailedBy(q)
      BY <1>2, <1>3, <1>5, RepairHasAttempt DEF Within
    <2>3. Current(q) \in TriedBy(q) BY <1>2, <1>3 DEF Within, TriedBy
    <2>4. TriedBy(q) \cup {Current(q)} = TriedBy(q) BY <2>3
    <2>5. Account(a) BY <1>2, <1>3, <2>2, <2>3, <2>4, AdvancedAccount DEF Within
    <2>6. a.pc = "next" BY <1>2 DEF Advanced, Request
    <2>7. req'[r] = [a EXCEPT !.used = @ \cup {repair}] BY <1>2, <2>1
    <2>8. a = [q EXCEPT !.pc = "next", !.rest = Tail(q.rest), !.retry = 0, !.used = {},
                        !.opened = {}]
      BY DEF Advanced
    <2>9. /\ req'[r].pc = a.pc /\ req'[r].kind = a.kind /\ req'[r].list = a.list
          /\ req'[r].rest = a.rest /\ req'[r].tried = a.tried
          /\ req'[r].attempts = a.attempts /\ req'[r].called = a.called
          /\ req'[r].answer = a.answer
      BY <1>2, <2>7, <2>8 DEF Request
    <2> HIDE DEF a
    <2> QED BY <2>5, <2>6, <2>9, SameBetween
  <1> QED BY <1>4, <1>5

\* An answer that is not the loop's own says nothing of the candidates.
LEMMA EndedAccount ==
    /\ Account(Idle)
    /\ \A a \in {"served", "rejected", "gone"} : Account(Ended(a))
  <1>1. Idle.pc = "idle" /\ Idle.answer = None BY DEF Idle
  <1>2. None # "unavailable" /\ None # "all_failed" BY AnswerAssumption DEF Answers
  <1>3. \A a : Ended(a).pc = "done" /\ Ended(a).answer = a BY DEF Ended, Idle
  <1> QED BY <1>1, <1>2, <1>3 DEF Account, AnswerFits

LEMMA StartAccount ==
    ASSUME IInv, NEW r \in Requests, Start(r)
    PROVE  Account(req'[r])
  <1>1. PICK list \in Lists, kind \in Kinds :
           Set(r, [Idle EXCEPT !.pc = "next", !.kind = kind, !.list = list, !.rest = list])
    BY DEF Start
  <1> DEFINE n == [Idle EXCEPT !.pc = "next", !.kind = kind, !.list = list, !.rest = list]
  <1>2. req'[r] = n BY <1>1, Acting
  <1>3. /\ n.pc = "next" /\ n.list = list /\ n.rest = list /\ n.tried = 0
        /\ n.called = {} /\ n.attempts = {} /\ n.answer = None
    BY DEF Idle
  <1> HIDE DEF n
  <1>4. IsInjective(list) BY RequestAssumption
  <1>5. FailedBy(n) = {} /\ TriedBy(n) = {} /\ SeenBy(n) = {}
    BY <1>3 DEF FailedBy, TriedBy, SeenBy
  <1>6. IsFiniteSet({}) /\ Cardinality({}) = 0 BY FS_EmptySet
  <1>7. Listed(n) BY <1>3, <1>4, <1>5, <1>6 DEF Listed
  <1>8. Between(n) BY <1>3, <1>5, <1>6, <1>7 DEF Between
  <1>9. AnswerFits(n) BY <1>3, AnswerAssumption DEF AnswerFits, Answers
  <1> QED BY <1>2, <1>3, <1>8, <1>9 DEF Account

LEMMA GateAccount ==
    ASSUME IInv, NEW r \in Requests, Account(req[r]), Gate(r)
    PROVE  Account(req'[r])
  <1> DEFINE q == req[r]
             a == Advanced(Marked(q, "circuit"))
  <1>1. /\ q \in Request /\ q.pc = "next" /\ q.rest # <<>>
        /\ \/ req'[r] = [q EXCEPT !.pc = "prepare"]
           \/ \E e : req'[r] = [a EXCEPT !.earliest = e]
    BY Acting DEF Gate, Exhausted
  <1>b. Between(q) /\ q.answer = None BY <1>1 DEF Account
  <1>2. CASE req'[r] = [q EXCEPT !.pc = "prepare"]
    <2> DEFINE n == [q EXCEPT !.pc = "prepare"]
    <2>1. /\ n.pc = "prepare" /\ n.rest = q.rest /\ n.list = q.list /\ n.tried = q.tried
          /\ n.kind = q.kind /\ n.called = q.called /\ n.attempts = q.attempts
          /\ n.answer = q.answer
      BY <1>1 DEF Request
    <2> HIDE DEF n, q
    <2>2. FailedBy(n) = FailedBy(q) /\ TriedBy(n) = TriedBy(q) /\ SeenBy(n) = SeenBy(q)
      BY <2>1 DEF FailedBy, TriedBy, SeenBy
    <2>3. Between(n) BY <1>b, <2>1, <2>2 DEF Between, Listed
    <2>4. AnswerFits(n) BY <1>b, <2>1, AnswerAssumption DEF AnswerFits, Answers
    <2>5. Account(n) BY <1>b, <2>1, <2>3, <2>4 DEF Account
    <2> QED BY <1>2, <2>5 DEF n
  <1>3. ASSUME NEW e, req'[r] = [a EXCEPT !.earliest = e]
        PROVE  Account(req'[r])
    <2>1. Account(a) BY <1>1, SkippedAccount DEF Marks, GateMarks
    <2>2. Marked(q, "circuit") \in Request BY <1>1, MarkedAccount DEF Marks, GateMarks
    <2>3. /\ a.pc = "next"
          /\ LET n == [a EXCEPT !.earliest = e] IN
             /\ n.pc = a.pc /\ n.kind = a.kind /\ n.list = a.list /\ n.rest = a.rest
             /\ n.tried = a.tried /\ n.attempts = a.attempts /\ n.called = a.called
             /\ n.answer = a.answer
      BY <2>2 DEF Advanced, Request
    <2> HIDE DEF a
    <2> QED BY <1>3, <2>1, <2>3, SameBetween
  <1> QED BY <1>1, <1>2, <1>3

LEMMA SkipAccount ==
    ASSUME IInv, NEW r \in Requests, Account(req[r]), Limited(r) \/ Skip(r)
    PROVE  Account(req'[r])
  <1> DEFINE q == req[r]
             a == Advanced(Marked(q, "limit"))
  <1>1. q \in Request /\ q.pc = "prepare" /\ q.rest # <<>>
    BY Acting DEF Limited, Skip, Busy
  <1>2. CASE Skip(r)
    <2>1. req'[r] = Advanced(Marked(q, "skip")) BY <1>2, Acting DEF Skip, Skipped
    <2> QED BY <1>1, <2>1, SkippedAccount DEF Marks
  <1>3. CASE Limited(r)
    <2>1. \E e : req'[r] = [a EXCEPT !.earliest = e] BY <1>3, Acting DEF Limited
    <2>2. PICK e : req'[r] = [a EXCEPT !.earliest = e] BY <2>1
    <2>3. Account(a) BY <1>1, SkippedAccount DEF Marks, GateMarks
    <2>4. Marked(q, "limit") \in Request BY <1>1, MarkedAccount DEF Marks, GateMarks
    <2>5. /\ a.pc = "next"
          /\ LET n == [a EXCEPT !.earliest = e] IN
             /\ n.pc = a.pc /\ n.kind = a.kind /\ n.list = a.list /\ n.rest = a.rest
             /\ n.tried = a.tried /\ n.attempts = a.attempts /\ n.called = a.called
             /\ n.answer = a.answer
      BY <2>4 DEF Advanced, Request
    <2> HIDE DEF a
    <2> QED BY <2>2, <2>3, <2>5, SameBetween
  <1> QED BY <1>2, <1>3

\* The place that a candidate takes is its own.
LEMMA PrepareAccount ==
    ASSUME IInv, NEW r \in Requests, Account(req[r]), Prepare(r)
    PROVE  Account(req'[r])
  <1> DEFINE q == req[r]
             k == q.tried + 1
             n == [q EXCEPT !.pc = "attempt", !.tried = k, !.retry = 1, !.used = {}]
  <1>1. /\ q \in Request /\ q.pc = "prepare" /\ q.rest # <<>> /\ req'[r] = n
    BY Acting DEF Prepare, Busy
  <1>2. k \in Nat /\ k = q.tried + 1 /\ q.tried \in Nat BY <1>1 DEF Request
  <1>3. Between(q) /\ q.answer = None BY <1>1 DEF Account
  <1> HIDE DEF q, k
  <1>4. /\ n.pc = "attempt" /\ n.rest = q.rest /\ n.list = q.list /\ n.tried = k
        /\ n.kind = q.kind /\ n.called = q.called /\ n.attempts = q.attempts
        /\ n.answer = q.answer /\ n.retry = 1 /\ n.used = {}
    BY <1>1 DEF Request
  <1> HIDE DEF n
  <1>5. /\ FailedBy(n) = FailedBy(q) /\ TriedBy(n) = TriedBy(q) /\ SeenBy(n) = SeenBy(q)
        /\ Current(n) = Current(q)
    BY <1>4 DEF FailedBy, TriedBy, SeenBy, Current
  <1>6. Listed(n) BY <1>3, <1>4, <1>5 DEF Between, Listed
  <1>7. Range(q.rest) = {Current(q)} \cup Range(Tail(q.rest))
    BY <1>1, <1>3, SplitList DEF Request, Between, Listed, Current
  <1>8. n.tried <= Cardinality(TriedBy(n) \cup {Current(n)})
    <2>1. IsFiniteSet(TriedBy(q)) /\ Current(q) \notin TriedBy(q)
      BY <1>3, <1>7 DEF Between, Listed
    <2>2. Cardinality(TriedBy(q) \cup {Current(q)}) = Cardinality(TriedBy(q)) + 1
      BY <2>1, FS_AddElement
    <2>3. Cardinality(TriedBy(q)) \in Nat BY <2>1, FS_CardinalityType
    <2> QED BY <1>2, <1>3, <1>4, <1>5, <2>2, <2>3 DEF Between
  <1>9. Repaired(n) BY <1>4 DEF Repaired, One
  <1>10. Within(n) BY <1>3, <1>4, <1>5, <1>6, <1>7, <1>8, <1>9 DEF Between, Within
  <1>11. AnswerFits(n) BY <1>3, <1>4, AnswerAssumption DEF AnswerFits, Answers
  <1> QED BY <1>1, <1>3, <1>4, <1>10, <1>11 DEF Account

LEMMA SendAccount ==
    ASSUME IInv, NEW r \in Requests, Account(req[r]), Send(r)
    PROVE  Account(req'[r])
  <1> DEFINE q == req[r]
             c == q.called \cup {Current(q)}
             n == [q EXCEPT !.pc = "wait", !.called = c]
  <1>1. q \in Request /\ q.pc = "attempt" /\ q.rest # <<>> /\ req'[r] = n
    BY Acting DEF Send, Busy
  <1>2. Within(q) /\ q.answer = None BY <1>1 DEF Account
  <1>3. c = q.called \cup {Current(q)} OBVIOUS
  <1> HIDE DEF q, c
  <1>4. /\ n.pc = "wait" /\ n.rest = q.rest /\ n.list = q.list /\ n.tried = q.tried
        /\ n.kind = q.kind /\ n.called = c /\ n.attempts = q.attempts
        /\ n.answer = q.answer /\ n.retry = q.retry /\ n.used = q.used
    BY <1>1 DEF Request
  <1> HIDE DEF n
  <1>5. /\ FailedBy(n) = FailedBy(q) /\ SeenBy(n) = SeenBy(q) /\ Current(n) = Current(q)
        /\ TriedBy(n) = TriedBy(q) \cup {Current(q)}
    BY <1>3, <1>4 DEF FailedBy, TriedBy, SeenBy, Current
  <1>6. /\ Range(q.rest) = {Current(q)} \cup Range(Tail(q.rest))
        /\ Current(q) \notin Range(Tail(q.rest))
    BY <1>1, <1>2, SplitList DEF Request, Within, Listed, Current
  <1>7. IsFiniteSet(TriedBy(n)) BY <1>2, <1>5, FS_AddElement DEF Within, Listed
  <1>8. Listed(n) BY <1>2, <1>4, <1>5, <1>6, <1>7 DEF Within, Listed
  <1>9. TriedBy(n) \cap Range(Tail(n.rest)) = {} BY <1>2, <1>4, <1>5, <1>6 DEF Within
  <1>10. TriedBy(n) \cup {Current(n)} = TriedBy(q) \cup {Current(q)} BY <1>5
  <1>11. n.kind.strict \/ n.called \subseteq Bridged \cup FailedBy(n) \cup {Current(n)}
    BY <1>2, <1>3, <1>4, <1>5 DEF Within
  <1>12. ~n.kind.strict /\ Current(n) \notin Bridged => Repaired(n)
    BY <1>1, <1>2, <1>4, <1>5 DEF Within, Repaired
  <1>13. Within(n)
    BY <1>2, <1>3, <1>4, <1>5, <1>8, <1>9, <1>10, <1>11, <1>12 DEF Within
  <1>14. AnswerFits(n) BY <1>2, <1>4, AnswerAssumption DEF AnswerFits, Answers
  <1> QED BY <1>1, <1>2, <1>4, <1>13, <1>14 DEF Account

LEMMA AuthFailsAccount ==
    ASSUME IInv, NEW r \in Requests, Account(req[r]), AuthFails(r)
    PROVE  Account(req'[r])
  <1> DEFINE m == Marked(req[r], "failed")
  <1>1. /\ req[r] \in Request /\ req[r].pc \in {"attempt", "wait"} /\ req[r].rest # <<>>
        /\ req'[r] = Advanced(m)
    BY Acting DEF AuthFails, Busy
  <1>2. m \in Request /\ m.rest = req[r].rest BY <1>1, MarkedAccount DEF Marks
  <1>3. /\ Listed(m) /\ TriedBy(m) \cap Range(Tail(m.rest)) = {}
        /\ m.tried <= Cardinality(TriedBy(m)) /\ Current(m) \in TriedBy(m)
        /\ m.kind.strict \/ m.called \subseteq Bridged \cup FailedBy(m)
        /\ m.answer = None
    BY <1>1, FailedWithin
  <1> HIDE DEF m
  <1> QED BY <1>1, <1>2, <1>3, AdvancedAccount

\* Whatever follows a failure, it is on the record.
LEMMA FailWithAccount ==
    ASSUME IInv, NEW r \in Requests, Account(req[r]), req[r].pc \in {"attempt", "wait"},
           NEW fault, FailWith(r, fault)
    PROVE  Account(req'[r])
  <1> DEFINE q == req[r]
             m == Marked(q, "failed")
  <1>1. q \in Request /\ q.rest # <<>> /\ Current(q) \in Providers
    BY Acting DEF Busy
  <1>2. m \in Request BY <1>1, MarkedAccount DEF Marks
  <1>3. \E opened \in {m.opened, m.opened \cup {Current(q)}} : \E decision :
           LET o == [m EXCEPT !.coded = TRUE, !.opened = opened] IN
           \/ Set(r, [o EXCEPT !.pc = "cool"])
           \/ Set(r, Resumed(o, fault, decision))
    BY DEF FailWith
  <1>4. PICK opened \in {m.opened, m.opened \cup {Current(q)}} : \E decision :
           LET o == [m EXCEPT !.coded = TRUE, !.opened = opened] IN
           \/ Set(r, [o EXCEPT !.pc = "cool"])
           \/ Set(r, Resumed(o, fault, decision))
    BY <1>3
  <1> DEFINE o == [m EXCEPT !.coded = TRUE, !.opened = opened]
  <1>5. opened \in SUBSET Providers BY <1>1, <1>2, <1>4 DEF Request
  <1>6. Account(Advanced(o)) /\ Account(Again(o)) /\ Account([o EXCEPT !.pc = "cool"])
    BY <1>1, <1>5, FailedAccount
  <1>7. PICK decision : req'[r] = [o EXCEPT !.pc = "cool"]
                         \/ req'[r] = Resumed(o, fault, decision)
    BY <1>4, Acting
  <1> HIDE DEF o
  <1>8. Resumed(o, fault, decision) \in {Again(o), Advanced(o), Ended("rejected")}
    BY DEF Resumed
  <1> QED BY <1>6, <1>7, <1>8, EndedAccount

LEMMA CoolDownAccount ==
    ASSUME IInv, NEW r \in Requests, Account(req[r]), CoolDown(r)
    PROVE  Account(req'[r])
  <1> DEFINE q == req[r]
  <1>1. /\ q \in Request /\ q.pc = "cool" /\ q.rest # <<>> /\ req'[r] = Advanced(q)
    BY Acting DEF CoolDown, Busy
  <1>2. Within(q) /\ q.answer = None BY <1>1 DEF Account
  <1> HIDE DEF q
  <1>3. Current(q) \in FailedBy(q) BY <1>1, <1>2 DEF Within
  <1>4. Current(q) \in TriedBy(q) /\ TriedBy(q) \cup {Current(q)} = TriedBy(q)
        /\ FailedBy(q) \cup {Current(q)} = FailedBy(q)
    BY <1>3 DEF TriedBy
  <1>5. q.kind.strict \/ q.called \subseteq Bridged \cup FailedBy(q)
    BY <1>2, <1>4 DEF Within
  <1> QED BY <1>1, <1>2, <1>4, <1>5, AdvancedAccount DEF Within

LEMMA Fake200Account ==
    ASSUME IInv, NEW r \in Requests, Account(req[r]), Fake200(r)
    PROVE  Account(req'[r])
  <1> DEFINE q == req[r]
             m == Marked(q, "failed")
             a == Advanced(m)
             o == [a EXCEPT !.coded = TRUE]
  <1>1. /\ q \in Request /\ q.pc \in {"attempt", "wait"} /\ q.rest # <<>>
        /\ req'[r] = o \/ req'[r] = Ended("rejected")
    BY Acting DEF Fake200, Busy
  <1>2. m \in Request /\ m.rest = q.rest BY <1>1, MarkedAccount DEF Marks
  <1>3. /\ Listed(m) /\ TriedBy(m) \cap Range(Tail(m.rest)) = {}
        /\ m.tried <= Cardinality(TriedBy(m)) /\ Current(m) \in TriedBy(m)
        /\ m.kind.strict \/ m.called \subseteq Bridged \cup FailedBy(m)
        /\ m.answer = None
    BY <1>1, FailedWithin
  <1> HIDE DEF q, m
  <1>4. Account(a) BY <1>1, <1>2, <1>3, AdvancedAccount
  <1>5. /\ a.pc = "next" /\ o.pc = a.pc /\ o.kind = a.kind /\ o.list = a.list
        /\ o.rest = a.rest /\ o.tried = a.tried /\ o.attempts = a.attempts
        /\ o.called = a.called /\ o.answer = a.answer
    BY <1>2 DEF Advanced, Request
  <1> HIDE DEF a, o
  <1>6. Account(o) BY <1>4, <1>5, SameBetween
  <1>7. req'[r] = o \/ req'[r] = Ended("rejected") BY <1>1 DEF o, a, m, q
  <1> QED BY <1>6, <1>7, EndedAccount

LEMMA StartStreamAccount ==
    ASSUME IInv, NEW r \in Requests, Account(req[r]), StartStream(r)
    PROVE  Account(req'[r])
  <1> DEFINE q == req[r]
             n == [q EXCEPT !.pc = "stream"]
  <1>1. q \in Request /\ q.pc = "wait" /\ req'[r] = n BY Acting DEF StartStream
  <1>2. n.pc = "stream" /\ n.answer = None BY <1>1 DEF Request, Account
  <1> HIDE DEF n
  <1>3. AnswerFits(n) BY <1>2, AnswerAssumption DEF AnswerFits, Answers
  <1> QED BY <1>1, <1>2, <1>3 DEF Account

\* The loop's own answer is about every candidate, or about as many as may be tried.
LEMMA FinishAccount ==
    ASSUME IInv, NEW r \in Requests, Account(req[r]), Finish(r)
    PROVE  Account(req'[r])
  <1> DEFINE q == req[r]
             n == req'[r]
  <1>1. /\ q \in Request /\ q.kind \in Kind /\ q.pc = "next" /\ Exhausted(q)
        /\ \/ \E t : Unavailable(q) /\ n = [Concluded(q, "unavailable") EXCEPT !.until = t]
           \/ n = Concluded(q, "all_failed")
    BY Acting DEF Finish
  <1>2. Between(q) BY <1>1 DEF Account
  <1>3. /\ n.pc = "done" /\ n.kind = q.kind /\ n.list = q.list
        /\ n.called = q.called /\ n.attempts = q.attempts
        /\ n.answer = "unavailable" => Unavailable(q)
    BY <1>1 DEF Concluded, Request
  <1> HIDE DEF q, n
  <1>4. FailedBy(n) = FailedBy(q) /\ TriedBy(n) = TriedBy(q) /\ SeenBy(n) = SeenBy(q)
    BY <1>3 DEF FailedBy, TriedBy, SeenBy
  <1>5. Unavailable(q) => FailedBy(q) = {}
    <2> SUFFICES ASSUME Unavailable(q), NEW p \in FailedBy(q) PROVE FALSE
      OBVIOUS
    <2>1. <<p, "failed">> \in q.attempts BY DEF FailedBy
    <2>2. <<p, "failed">>[2] = "failed" OBVIOUS
    <2> QED BY <2>1, <2>2 DEF Unavailable, GateMarks
  <1>6. n.answer = "unavailable" /\ ~n.kind.strict => n.called \subseteq Bridged
    BY <1>2, <1>3, <1>5 DEF Between
  <1>7. ASSUME q.rest = <<>> PROVE Account(n)
    <2>1. Range(q.rest) = {} BY <1>7 DEF Range
    <2>2. Range(n.list) = TriedBy(n) \cup SeenBy(n)
      BY <1>2, <1>3, <1>4, <2>1 DEF Between, Listed
    <2> QED BY <1>3, <1>6, <2>2 DEF Account, AnswerFits
  <1>8. ASSUME q.tried >= Max2(q.kind.places, 1) PROVE Account(n)
    <2>1. Max2(q.kind.places, 1) \in Nat /\ q.tried \in Nat
      BY <1>1 DEF Max2, Kind, Request
    <2>2. Cardinality(TriedBy(q)) \in Nat
      BY <1>2, FS_CardinalityType DEF Between, Listed
    <2>3. Cardinality(TriedBy(n)) >= Max2(n.kind.places, 1)
      BY <1>2, <1>3, <1>4, <1>8, <2>1, <2>2 DEF Between
    <2> QED BY <1>3, <1>6, <2>3 DEF Account, AnswerFits
  <1>9. Account(n) BY <1>1, <1>7, <1>8 DEF Exhausted
  <1> QED BY <1>9 DEF n

LEMMA EndsAccount ==
    ASSUME IInv, NEW r \in Requests,
           Blocked(r) \/ Succeed(r) \/ EndStream(r) \/ ClientLeaves(r) \/ Leave(r)
    PROVE  Account(req'[r])
  <1>1. \/ Set(r, Idle) \/ \E a \in {"served", "rejected", "gone"} : Set(r, Ended(a))
    BY DEF Blocked, Succeed, EndStream, ClientLeaves, Leave
  <1> QED BY <1>1, Acting, EndedAccount

---------------------------------------------------------------------------
\* The inductive invariant with the account that each request keeps.
AInv == IInv /\ \A r \in Requests : Account(req[r])

LEMMA InitAccount == Init => AInv
  BY InitInv, EndedAccount DEF Init, AInv

\* A step of one request, of which the others know nothing.
LEMMA OwnAccount ==
    ASSUME AInv, NEW r \in Requests, NEW q, Set(r, q), Account(req'[r])
    PROVE  \A s \in Requests : Account(req'[s])
  <1>1. req \in [Requests -> Request] BY DEF AInv, IInv, TypeOK
  <1>2. \A s \in Requests \ {r} : req'[s] = req[s] BY <1>1 DEF Set
  <1> QED BY <1>2 DEF AInv

LEMMA NextAccount == AInv /\ [Next]_vars => AInv'
  <1> SUFFICES ASSUME AInv, [Next]_vars PROVE AInv' OBVIOUS
  <1>i. IInv' BY NextInv DEF AInv
  <1>h. IInv /\ \A r \in Requests : Account(req[r]) BY DEF AInv
  <1>1. CASE UNCHANGED vars \/ Tick
    <2>1. req' = req BY <1>1 DEF vars, Tick
    <2> QED BY <1>i, <2>1 DEF AInv
  <1>2. ASSUME NEW r \in Requests, NEW q, Set(r, q), Account(req'[r]) PROVE AInv'
    BY <1>i, <1>2, OwnAccount DEF AInv
  <1>3. ASSUME NEW r \in Requests, Start(r) \/ Gate(r) PROVE AInv'
    <2>1. Account(req'[r]) BY <1>h, <1>3, StartAccount, GateAccount
    <2>2. \E q : Set(r, q) BY <1>3 DEF Start, Gate
    <2> QED BY <1>2, <2>1, <2>2
  <1>4. ASSUME NEW r \in Requests, Limited(r) \/ Skip(r) \/ Prepare(r) PROVE AInv'
    <2>1. Account(req'[r]) BY <1>h, <1>4, SkipAccount, PrepareAccount
    <2>2. \E q : Set(r, q) BY <1>4 DEF Limited, Skip, Prepare
    <2> QED BY <1>2, <2>1, <2>2
  <1>5. ASSUME NEW r \in Requests, Send(r) \/ AuthFails(r) \/ RepairAndRetry(r)
        PROVE  AInv'
    <2>1. Account(req'[r]) BY <1>h, <1>5, SendAccount, AuthFailsAccount, RepairAccount
    <2>2. \E q : Set(r, q) BY <1>5 DEF Send, AuthFails, RepairAndRetry
    <2> QED BY <1>2, <2>1, <2>2
  <1>6. ASSUME NEW r \in Requests, UrlFails(r) \/ Fail(r) PROVE AInv'
    <2>1. \E fault : FailWith(r, fault) /\ req[r].pc \in {"attempt", "wait"}
      BY <1>6 DEF UrlFails, Fail
    <2>2. Account(req'[r]) BY <1>h, <2>1, FailWithAccount
    <2>3. \E q : Set(r, q) BY <2>1 DEF FailWith
    <2> QED BY <1>2, <2>2, <2>3
  <1>7. ASSUME NEW r \in Requests, CoolDown(r) \/ Fake200(r) \/ StartStream(r) \/ Finish(r)
        PROVE  AInv'
    <2>1. Account(req'[r])
      BY <1>h, <1>7, CoolDownAccount, Fake200Account, StartStreamAccount, FinishAccount
    <2>2. \E q : Set(r, q) BY <1>7 DEF CoolDown, Fake200, StartStream, Finish
    <2> QED BY <1>2, <2>1, <2>2
  <1>8. ASSUME NEW r \in Requests,
               Blocked(r) \/ Succeed(r) \/ EndStream(r) \/ ClientLeaves(r) \/ Leave(r)
        PROVE  AInv'
    <2>1. Account(req'[r]) BY <1>h, <1>8, EndsAccount
    <2>2. \E q : Set(r, q) BY <1>8 DEF Blocked, Succeed, EndStream, ClientLeaves, Leave
    <2> QED BY <1>2, <2>1, <2>2
  <1> QED BY <1>1, <1>3, <1>4, <1>5, <1>6, <1>7, <1>8 DEF Next

\* The answer fits the calls, for any providers, requests, lists and settings: whoever
\* called a provider is not told that none was available, but for model discovery and
\* the bridged providers; and the loop gives up only after every candidate was tried or
\* skipped, or as many were tried as may be (provider_iterator.rs:380-396,
\* loop_helpers.rs:97-99, mod.rs:206-237).
THEOREM AnswerFitsTheCalls == Spec => []AnswerFitsCalls
  <1>1. AInv => AnswerFitsCalls
    BY DEF AInv, Account, AnswerFits, AnswerFitsCalls, TriedBy, FailedBy, SeenBy
  <1> QED BY <1>1, InitAccount, NextAccount, PTL DEF Spec

=============================================================================
