---------------------------- MODULE OAuthRefresh ----------------------------
(* The OAuth tokens of one provider: the refresh loop of a running gateway     *)
(* (gateway/oauth/refresh_loop.rs), the refreshes of requests, before a call   *)
(* and after a 401 (prepare/oauth.rs), those of commands, logins and the       *)
(* disconnect (commands/providers/oauth.rs), and the row they all write        *)
(* (domain/providers/queries.rs).                                              *)
(*                                                                             *)
(* The authorization server numbers the answers of a login. One that rotates   *)
(* takes a refresh token once, one that does not takes it as often as it comes.*)
(* Limit snapshots, tokens without a refresh token and edits that switch how a *)
(* provider authenticates are left out.                                        *)
EXTENDS Integers, FiniteSets

CONSTANTS
    Tasks,      \* whoever may refresh at once
    Attempts,   \* REFRESH_LINEAR_RETRY_MAX_ATTEMPTS
    MaxTime,    \* bound: the seconds of the wall clock
    MaxLogins,  \* bound: logins that are started
    MaxGen      \* bound: answers of the server for one login

ASSUME OAuthAssumption ==
    /\ Attempts \in Nat \ {0} /\ MaxTime \in Nat \ {0}
    /\ MaxLogins \in Nat \ {0} /\ MaxGen \in Nat

VARIABLES
    clock,    \* the wall clock, which can be set back
    rotates,  \* whether the server takes a refresh token only once
    issued,   \* the server: its last answer for each login
    row,      \* the provider's row
    flow,     \* ACTIVE_FLOW: the login under way, its code not yet spent, or 0
    started,  \* the newest login that was started
    saved,    \* history: the last login that was written
    task,     \* the refreshes under way
    lost      \* history: the logins whose last answer, that rotates, nobody received or kept

vars == <<clock, rotates, issued, row, flow, started, saved, task, lost>>

Logins == 1..MaxLogins

\* What a refresh needs beside the token: token_uri and client_id.
Both == {"uri", "client"}

\* A stamp is a second of the clock, or 0 for NULL.
Row ==
    [mode : {"api_key", "oauth"}, login : {0} \cup Logins, gen : 0..MaxGen, stamp : Nat,
     has : SUBSET Both, enabled : BOOLEAN, due : BOOLEAN, error : BOOLEAN]

NoTokens ==
    [mode |-> "api_key", login |-> 0, gen |-> 0, stamp |-> 0, has |-> {},
     enabled |-> TRUE, due |-> FALSE, error |-> FALSE]

\* The row an import wrote: the tokens of a login elsewhere, with what the file had.
Imported ==
    {[NoTokens EXCEPT !.mode = "oauth", !.login = 1, !.has = h] : h \in SUBSET Both}

\* "loop" is the refresh loop, "orphan" its write after the loop is gone.
Kinds == {"none", "loop", "orphan", "request"}

Task ==
    [kind : Kinds, pc : {"idle", "poll", "call", "persist", "report"},
     login : {0} \cup Logins, gen : 0..MaxGen, stamp : Nat, seen : {0} \cup Logins,
     tries : 0..(Attempts - 1), new : 0..MaxGen]

Free == [kind |-> "none", pc |-> "idle", login |-> 0, gen |-> 0, stamp |-> 0, seen |-> 0, tries |-> 0, new |-> 0]
Polling == [Free EXCEPT !.kind = "loop", !.pc = "poll"]

TypeOK ==
    /\ clock \in 1..MaxTime /\ rotates \in BOOLEAN
    /\ issued \in [Logins -> 0..MaxGen]
    /\ row \in Row
    /\ flow \in {0} \cup Logins /\ started \in {0} \cup Logins /\ saved \in {0} \cup Logins
    /\ task \in [Tasks -> Task]
    /\ lost \subseteq Logins

Init ==
    /\ clock = 1 /\ rotates \in BOOLEAN
    /\ issued = [l \in Logins |-> 0]
    /\ row \in {NoTokens} \cup Imported
    /\ flow = 0 /\ started = row.login /\ saved = row.login
    /\ task = [t \in Tasks |-> Free] /\ lost = {}

Set(t, a) == task' = [task EXCEPT ![t] = a]

\* Back to the poll or to the caller.
Over(a) == IF a.kind = "loop" THEN Polling ELSE Free

\* The login whose last answer it holds.
InHand(a) == IF a.pc = "persist" /\ a.new = issued[a.login] THEN {a.login} ELSE {}

Loses(logins) == lost' = IF rotates THEN lost \cup logins ELSE lost

---------------------------------------------------------------------------
(* A refresh.                                                                *)

\* What everybody reads before a refresh.
Details(a) ==
    [a EXCEPT !.pc = "call", !.login = row.login, !.gen = row.gen, !.stamp = row.stamp,
              !.seen = saved, !.tries = 0]

\* A request refreshes before its call when the token is due, and after a 401. A
\* command refreshes as well, and what it does is among what a request does. Neither
\* minds a provider that is disabled by now, a request not even a missing client_id.
StartRefresh(t) ==
    /\ task[t] = Free /\ row.mode = "oauth" /\ "uri" \in row.has
    /\ Set(t, Details([Free EXCEPT !.kind = "request"]))
    /\ UNCHANGED <<clock, rotates, issued, row, flow, started, saved, lost>>

\* The gateway starts; the loop of the one before has ended or was aborted.
StartLoop(t) ==
    /\ task[t] = Free /\ \A u \in Tasks : task[u].kind # "loop"
    /\ Set(t, Polling)
    /\ UNCHANGED <<clock, rotates, issued, row, flow, started, saved, lost>>

\* list_oauth_providers_needing_refresh; an unknown expiry is due.
Listed == row.mode = "oauth" /\ row.enabled /\ row.due

\* A list that fails, and a token without its uri or client, leave the loop polling.
ListDue(t) ==
    /\ task[t] = Polling /\ Listed /\ row.has = Both
    /\ Set(t, Details(task[t]))
    /\ UNCHANGED <<clock, rotates, issued, row, flow, started, saved, lost>>

\* No adapter takes the provider's type: the loop writes that down.
Unresolved(t) ==
    /\ task[t] = Polling /\ Listed
    /\ Set(t, [Polling EXCEPT !.pc = "report"])
    /\ UNCHANGED <<clock, rotates, issued, row, flow, started, saved, lost>>

\* mutant: the loop does not write down why a refresh failed
GiveUp_Silent(a) == IF a.kind = "loop" THEN Polling ELSE Free

\* After a failed attempt comes the next, with the same token. Only the loop
\* writes the error down; a request goes on with its token while that is valid.
GiveUp(a) == IF a.kind = "loop" THEN [Polling EXCEPT !.pc = "report"] ELSE Free

\* mutant: one attempt too many
Again_OneMore(a) == IF a.tries < Attempts THEN [a EXCEPT !.tries = @ + 1] ELSE GiveUp(a)

Again(a) == IF a.tries + 1 < Attempts THEN [a EXCEPT !.tries = @ + 1] ELSE GiveUp(a)

Accepts(a) == (rotates => a.gen = issued[a.login]) /\ issued[a.login] < MaxGen

\* The server answers, and the answer arrives, or is lost on its way, or has an
\* empty access token and is not written.
Answer(t) ==
    LET a == task[t]
        n == issued[a.login] + 1
    IN
    /\ a.pc = "call" /\ Accepts(a)
    /\ issued' = [issued EXCEPT ![a.login] = n]
    /\ \/ Set(t, [a EXCEPT !.pc = "persist", !.tries = 0, !.new = n]) /\ lost' = lost \ {a.login}
       \/ (Set(t, Again(a)) \/ Set(t, GiveUp(a))) /\ Loses({a.login})
    /\ UNCHANGED <<clock, rotates, row, flow, started, saved>>

\* The server is not reached, or refuses the token: a clear refusal is final.
Refused(t) ==
    LET a == task[t] IN
    /\ a.pc = "call"
    /\ Set(t, Again(a)) \/ (~Accepts(a) /\ Set(t, GiveUp(a)))
    /\ UNCHANGED <<clock, rotates, issued, row, flow, started, saved, lost>>

\* mutant: the second of the write, whatever was expected
Stamp_Now(expected) == clock

Stamp(expected) == IF expected >= clock THEN expected + 1 ELSE clock

\* mutant: the old refresh token goes before the new one
Renewed_KeepsOld(a) ==
    [row EXCEPT !.mode = "oauth", !.login = a.login, !.gen = a.gen, !.stamp = Stamp(a.stamp),
                !.has = Both, !.due = FALSE, !.error = FALSE]

Renewed(a) ==
    [row EXCEPT !.mode = "oauth", !.login = a.login, !.gen = a.new, !.stamp = Stamp(a.stamp),
                !.has = Both, !.due = FALSE, !.error = FALSE]

Matches(a) == row.mode = "oauth" /\ row.stamp = a.stamp

\* update_oauth_tokens_if_last_refreshed_matches
Persist(t) ==
    /\ task[t].pc = "persist" /\ Matches(task[t])
    /\ row' = Renewed(task[t])
    /\ Set(t, Over(task[t]))
    /\ UNCHANGED <<clock, rotates, issued, flow, started, saved, lost>>

\* Nobody minds a conflict: a request uses its new token all the same.
Conflict(t) ==
    /\ task[t].pc = "persist" /\ ~Matches(task[t])
    /\ Set(t, Over(task[t]))
    /\ UNCHANGED <<clock, rotates, issued, row, flow, started, saved, lost>>

PersistFails(t) ==
    /\ task[t].pc = "persist"
    /\ Set(t, Over(task[t]))
    /\ Loses(InHand(task[t]))
    /\ UNCHANGED <<clock, rotates, issued, row, flow, started, saved>>

\* set_oauth_last_error, on whatever the row holds by now.
Report(t) ==
    /\ task[t].pc = "report"
    /\ row' = [row EXCEPT !.error = TRUE]
    /\ Set(t, Over(task[t]))
    /\ UNCHANGED <<clock, rotates, issued, flow, started, saved, lost>>

ReportFails(t) ==
    /\ task[t].pc = "report"
    /\ Set(t, Over(task[t]))
    /\ UNCHANGED <<clock, rotates, issued, row, flow, started, saved, lost>>

\* The client of a request leaves: its refresh is dropped where it waits.
LeaveRequest(t) ==
    /\ task[t].kind = "request"
    /\ Set(t, Free) /\ Loses(InHand(task[t]))
    /\ UNCHANGED <<clock, rotates, issued, row, flow, started, saved>>

\* The gateway stops. A refresh is dropped, a write that has begun goes on.
StopLoop(t) ==
    /\ task[t].kind = "loop"
    /\ \/ Set(t, Free) /\ Loses(InHand(task[t]))
       \/ /\ task[t].pc \in {"persist", "report"}
          /\ Set(t, [task[t] EXCEPT !.kind = "orphan"]) /\ UNCHANGED lost
    /\ UNCHANGED <<clock, rotates, issued, row, flow, started, saved>>

---------------------------------------------------------------------------
(* Logins, the disconnect, and the world.                                    *)

\* begin_flow_lifecycle: the login before it is cancelled.
BeginLogin ==
    /\ started < MaxLogins
    /\ started' = started + 1 /\ flow' = started + 1
    /\ UNCHANGED <<clock, rotates, issued, row, saved, task, lost>>

CancelLogin ==
    /\ flow # 0 /\ flow' = 0
    /\ UNCHANGED <<clock, rotates, issued, row, started, saved, task, lost>>

\* mutant: whether the login is current is not looked at again before the write
Current_Any(l) == l <= started

Current(l) == flow = l

\* The code is exchanged, once, and complete_current_flow writes under the flow's lock.
\* When the limits cannot be cleared after that, the login fails with its row written,
\* and stays current with its code spent: it has no more to do than one that is over.
FinishLogin(l) ==
    /\ Current(l)
    /\ row' = [row EXCEPT !.mode = "oauth", !.login = l, !.gen = 0, !.stamp = clock,
                          !.has = Both, !.due = FALSE, !.error = FALSE]
    /\ flow' = 0 /\ saved' = l
    /\ UNCHANGED <<clock, rotates, issued, started, task, lost>>

Disconnect ==
    /\ row' = [NoTokens EXCEPT !.enabled = row.enabled]
    /\ UNCHANGED <<clock, rotates, issued, flow, started, saved, task, lost>>

SetEnabled ==
    /\ \E enabled \in BOOLEAN : row' = [row EXCEPT !.enabled = enabled]
    /\ UNCHANGED <<clock, rotates, issued, flow, started, saved, task, lost>>

Age ==
    /\ row.mode = "oauth" /\ row' = [row EXCEPT !.due = TRUE]
    /\ UNCHANGED <<clock, rotates, issued, flow, started, saved, task, lost>>

SetClock ==
    /\ clock' \in 1..MaxTime
    /\ UNCHANGED <<rotates, issued, row, flow, started, saved, task, lost>>

Crash ==
    /\ task' = [t \in Tasks |-> Free] /\ flow' = 0
    /\ Loses(UNION {InHand(task[t]) : t \in Tasks})
    /\ UNCHANGED <<clock, rotates, issued, row, started, saved>>

Refresh(t) ==
    \/ StartRefresh(t) \/ StartLoop(t) \/ ListDue(t) \/ Unresolved(t) \/ Answer(t) \/ Refused(t)
    \/ Persist(t) \/ Conflict(t) \/ PersistFails(t) \/ Report(t) \/ ReportFails(t)
    \/ LeaveRequest(t) \/ StopLoop(t)

Next ==
    \/ \E t \in Tasks : Refresh(t)
    \/ BeginLogin \/ CancelLogin \/ (\E l \in Logins : FinishLogin(l))
    \/ Disconnect \/ SetEnabled \/ Age \/ SetClock \/ Crash

\* The loop polls, every call has a timeout, and the database is not always out
\* of order.
Fairness ==
    \A t \in Tasks :
        /\ WF_vars(ListDue(t) \/ Answer(t) \/ Refused(t) \/ Conflict(t))
        /\ SF_vars(Persist(t) \/ Report(t))

Spec == Init /\ [][Next]_vars /\ Fairness

---------------------------------------------------------------------------
(* Properties.                                                               *)

Persists(t) == task[t].pc = "persist" /\ row' # row /\ task' # task /\ task'[t] # task[t]

\* A refresh replaces the tokens it refreshed and never those of another refresh,
\* as long as nobody has logged in since: two writes in one second, or a clock set
\* back, do not deceive the compare-and-set on the time of the last refresh.
RefreshReplacesItsOwn ==
    [][\A t \in Tasks : Persists(t) /\ saved = task[t].seen => row.gen = task[t].gen]_vars

\* With a server that takes a refresh token once, the row has the last one it gave
\* out, or a refresh holds it and will write it, or it was lost on its way or to a
\* leaving client, a stopped loop, a crash or the database. It is never given up for
\* a conflict between refreshes of one login.
NewestTokenKept ==
    rotates /\ row.mode = "oauth" /\ row.gen # issued[row.login] =>
        row.login \in lost \cup UNION {InHand(task[t]) : t \in Tasks}

\* A login that a newer one cancelled writes nothing, wherever it was.
LastLoginWins == [][saved' # saved => saved' = started]_vars

Due == Listed /\ row.has = Both /\ ~row.error
LoopRuns == \E t \in Tasks : task[t].kind = "loop"

\* While its gateway runs, tokens of an enabled provider that are due, and have the uri
\* and the client of their server, are refreshed or the reason why not is written down.
\* Imported tokens without one of the two are neither, in every round
\* (refresh_loop.rs:142-158): they are left out here.
DueIsHandled == []<>(~Due \/ ~LoopRuns)
=============================================================================
