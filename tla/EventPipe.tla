------------------------------ MODULE EventPipe ------------------------------
(* What the queue of the rule engine promises to the services that dispatch    *)
(* into it: a lossy first-in first-out pipe with one consumer.  An event may   *)
(* be lost, when the backlog is full or the server stops; one that is not is   *)
(* handled once, in its turn, and not before the one ahead of it is finished.  *)
EXTENDS Naturals, Sequences

CONSTANTS Cap, None

VARIABLES backlog,  \* the events accepted and not yet taken
          current   \* the event being handled, or None

vars == <<backlog, current>>

Init == backlog = <<>> /\ current = None

\* An event joins the end of a backlog that has room.
Accept ==
    /\ Len(backlog) < Cap
    /\ Len(backlog') = Len(backlog) + 1
    /\ SubSeq(backlog', 1, Len(backlog)) = backlog
    /\ UNCHANGED current

\* The consumer is free and takes the oldest event; one that interests nobody
\* is done with at once.
Start ==
    /\ current = None /\ backlog # <<>>
    /\ current' \in {Head(backlog), None}
    /\ backlog' = Tail(backlog)

Done == current # None /\ current' = None /\ UNCHANGED backlog

Stop == backlog' = <<>> /\ current' = None

Next == Accept \/ Start \/ Done \/ Stop

Spec == Init /\ [][Next]_vars
=============================================================================
