---------------------------- MODULE RequestLedger ----------------------------
(* What the ends of requests and the table request_logs promise together,      *)
(* whatever the guards, tasks, queues and writers do: an end is published      *)
(* before it is written, and a row that has it is never touched again.         *)
EXTENDS Sequences, SequencesExt

CONSTANTS Requests, Outcomes

VARIABLES
    ended,   \* the ends that were published, in order
    rows     \* "none", "pending", "interrupted" or an outcome

Init ==
    /\ ended = [r \in Requests |-> <<>>]
    /\ rows = [r \in Requests |-> "none"]

\* A request ends once. Until that is in the table its client may still leave.
Publish(r, o) ==
    /\ rows[r] \notin Outcomes
    /\ ended[r] = <<>> \/ (Len(ended[r]) = 1 /\ o = "aborted")
    /\ ended' = [ended EXCEPT ![r] = Append(@, o)]
    /\ UNCHANGED rows

\* What a write may make of a row.
Writes(r, row) ==
    \/ row = rows[r]
    \/ row = "pending" /\ rows[r] = "none"
    \/ row = "interrupted" /\ rows[r] = "pending"
    \/ row \in Outcomes /\ rows[r] \notin Outcomes /\ ended[r] # <<>> /\ row = Last(ended[r])

Write ==
    /\ \E written \in [Requests -> Outcomes \cup {"none", "pending", "interrupted"}] :
         /\ \A r \in Requests : Writes(r, written[r])
         /\ rows' = written
    /\ UNCHANGED ended

Next == Write \/ \E r \in Requests, o \in Outcomes : Publish(r, o)

Spec == Init /\ [][Next]_<<ended, rows>>
=============================================================================
