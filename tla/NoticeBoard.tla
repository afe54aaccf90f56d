----------------------------- MODULE NoticeBoard -----------------------------
(* What the notification dispatcher and the hub promise to the services that   *)
(* hand notices over, and to the browsers: a notice gets one row at most, and  *)
(* then one toast at most on each screen; the row comes first; a screen shows  *)
(* what reached it in that order, and skips nothing that did.  A notice may be *)
(* given up and a screen may miss a toast.                                     *)
EXTENDS Sequences

CONSTANTS Notices, Screens,
          Frames   \* what a screen can be sent, the notices among it

VARIABLES phase,   \* how far each notice is
          board,   \* the notices that have a row
          box      \* the frames on their way to each screen

vars == <<phase, board, box>>

Init ==
    /\ phase = [n \in Notices |-> "new"]
    /\ board = {}
    /\ box = [s \in Screens |-> <<>>]

Moves(n, from, to) == phase[n] = from /\ phase' = [phase EXCEPT ![n] = to]

\* A frame reaches some of the screens, at the end of what they have to show.
Reaches(f) ==
    \E S \in SUBSET Screens :
        box' = [s \in Screens |-> IF s \in S THEN Append(box[s], f) ELSE box[s]]

HandOver(n) == Moves(n, "new", "waiting") /\ UNCHANGED <<board, box>>

Keep(n) == Moves(n, "waiting", "kept") /\ board' = board \cup {n} /\ UNCHANGED box

GiveUp(n) == Moves(n, "waiting", "over") /\ UNCHANGED <<board, box>>

Tell(n) == Moves(n, "kept", "over") /\ Reaches(n) /\ UNCHANGED board

\* Frames that are no notices come and go as they like.
Other == (\E f \in Frames \ Notices : Reaches(f)) /\ UNCHANGED <<phase, board>>

Show(s) ==
    /\ box[s] # <<>>
    /\ box' = [box EXCEPT ![s] = Tail(@)]
    /\ UNCHANGED <<phase, board>>

\* The server stops: what is on its way does not arrive, rows stay.
Stop ==
    /\ phase' = [n \in Notices |-> IF phase[n] = "new" THEN "new" ELSE "over"]
    /\ box' = [s \in Screens |-> <<>>]
    /\ UNCHANGED board

Next ==
    \/ \E n \in Notices : HandOver(n) \/ Keep(n) \/ GiveUp(n) \/ Tell(n)
    \/ Other \/ \E s \in Screens : Show(s)
    \/ Stop

Spec == Init /\ [][Next]_vars
=============================================================================
