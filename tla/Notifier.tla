------------------------------- MODULE Notifier ------------------------------
(* The notification dispatcher (internal/notify) and the other callers of the  *)
(* hub.  A service hands a notice over without waiting; the worker stores it   *)
(* and publishes it to the recipient's room.  When the dispatcher's channel is *)
(* full the service stores and publishes the notice itself.                    *)
EXTENDS Hub

CONSTANTS Notice,   \* the notices, which are published as events
          Worker,   \* the dispatcher's goroutine
          InCap     \* capacity of Dispatcher.in (256 in the code)

ASSUME NotifierAssumption ==
    /\ Notice \subseteq Event /\ Worker \in Publisher /\ InCap \in Nat \ {0}

VARIABLES inbox,   \* Dispatcher.in
          saving,  \* the notice each goroutine is inserting, or NULL
          stored,  \* the notifications table
          failed,  \* history: notices whose insertion failed
          sent,    \* history: notices handed over
          cut      \* history: notices the server stopped on

noticeVars == <<inbox, saving, stored, failed, sent, cut>>
vars       == <<hubVars, noticeVars>>

Free(p) == pub[p] = NULL /\ saving[p] = NULL

\* Mutant: a full channel drops the notice.
EnqueueDrops(p, n) ==
    /\ p # Worker /\ Free(p) /\ n \notin sent
    /\ sent' = sent \cup {n}
    /\ inbox' = IF Len(inbox) < InCap THEN Append(inbox, n) ELSE inbox
    /\ UNCHANGED <<hubVars, saving, stored, failed, cut>>

Enqueue(p, n) ==
    /\ p # Worker /\ Free(p) /\ n \notin sent
    /\ sent' = sent \cup {n}
    /\ \/ Len(inbox) < InCap /\ inbox' = Append(inbox, n) /\ UNCHANGED saving
       \/ Len(inbox) >= InCap /\ saving' = [saving EXCEPT ![p] = n] /\ UNCHANGED inbox
    /\ UNCHANGED <<hubVars, stored, failed, cut>>

\* Mutant: the worker's loop ends with the first error.
ReceiveUntilError ==
    /\ failed = {} /\ Free(Worker) /\ inbox # <<>>
    /\ saving' = [saving EXCEPT ![Worker] = Head(inbox)]
    /\ inbox' = Tail(inbox)
    /\ UNCHANGED <<hubVars, stored, failed, sent, cut>>

\* run() receives the next notice.
Receive ==
    /\ Free(Worker) /\ inbox # <<>>
    /\ saving' = [saving EXCEPT ![Worker] = Head(inbox)]
    /\ inbox' = Tail(inbox)
    /\ UNCHANGED <<hubVars, stored, failed, sent, cut>>

\* persistAndPublish: the row first, then the toast.
Persist(p) ==
    /\ saving[p] # NULL
    /\ stored' = stored \cup {saving[p]}
    /\ pub' = [pub EXCEPT ![p] = saving[p]]
    /\ saving' = [saving EXCEPT ![p] = NULL]
    /\ UNCHANGED <<members, ops, pubs, clientVars, send, stops, inbox, failed, sent, cut>>

\* Mutant: no return after the error.
PersistFailsOn(p) ==
    /\ saving[p] # NULL
    /\ failed' = failed \cup {saving[p]}
    /\ pub' = [pub EXCEPT ![p] = saving[p]]
    /\ saving' = [saving EXCEPT ![p] = NULL]
    /\ UNCHANGED <<members, ops, pubs, clientVars, send, stops, inbox, stored, sent, cut>>

\* The insertion fails, is logged, and the notice is given up.
PersistFails(p) ==
    /\ saving[p] # NULL
    /\ failed' = failed \cup {saving[p]}
    /\ saving' = [saving EXCEPT ![p] = NULL]
    /\ UNCHANGED <<hubVars, inbox, stored, sent, cut>>

\* A task, comment or chat service publishes an event of its own.
Broadcast(p, e) ==
    /\ p # Worker /\ saving[p] = NULL /\ e \notin Notice
    /\ Publish(p, e)
    /\ UNCHANGED noticeVars

\* The notices between their handing over and their insertion.
Waiting == {n \in Notice : \/ \E i \in 1..Len(inbox) : inbox[i] = n
                          \/ \E p \in Publisher : saving[p] = n}

Restart ==
    /\ Stop
    /\ cut' = cut \cup Waiting
    /\ inbox' = <<>>
    /\ saving' = [p \in Publisher |-> NULL]
    /\ UNCHANGED <<stored, failed, sent>>

Init ==
    /\ HubInit
    /\ inbox = <<>>
    /\ saving = [p \in Publisher |-> NULL]
    /\ stored = {} /\ failed = {} /\ sent = {} /\ cut = {}

Next ==
    \/ HubNext /\ UNCHANGED noticeVars
    \/ \E p \in Publisher :
         \/ \E n \in Notice : Enqueue(p, n)
         \/ \E e \in Event : Broadcast(p, e)
         \/ Persist(p) \/ PersistFails(p)
    \/ Receive \/ Restart

Spec == Init /\ [][Next]_vars

\* The dispatcher's goroutine is scheduled and statements return.
FairSpec ==
    /\ Spec /\ HubFairness
    /\ WF_vars(Receive)
    /\ \A p \in Publisher : WF_vars(Persist(p) \/ PersistFails(p))

-----------------------------------------------------------------------------

TypeOK ==
    /\ HubTypeOK
    /\ inbox \in Seq(Notice) /\ Len(inbox) <= InCap
    /\ saving \in [Publisher -> Notice \cup {NULL}]
    /\ stored \subseteq Notice /\ failed \subseteq Notice
    /\ sent \subseteq Notice /\ cut \subseteq Notice

\* A notice that was handed over is waiting, in one place, or else it was stored,
\* given up after an error, or cut off by a stop; a full channel drops none and
\* none is stored twice (comment in Enqueue, "persist synchronously rather than
\* drop").
NoticesKept ==
    /\ sent = Waiting \cup stored \cup failed \cup cut
    /\ Waiting \cap (stored \cup failed \cup cut) = {}
    /\ \A i, j \in 1..Len(inbox) : inbox[i] = inbox[j] => i = j
    /\ \A p, q \in Publisher : saving[p] # NULL /\ saving[p] = saving[q] => p = q
    /\ \A i \in 1..Len(inbox), p \in Publisher : inbox[i] # saving[p]

\* No client is shown, and the hub is never given, a notice that is not in the
\* table.
ToastsAreStored ==
    /\ \A p \in Publisher : pub[p] \in Notice => pub[p] \in stored
    /\ \A i \in 1..Len(pubs) : pubs[i] \in Notice => pubs[i] \in stored
    /\ \A c \in Conn : \A i \in 1..Len(send[c]) : send[c][i] \in Notice => send[c][i] \in stored

\* The notices handed over are worked off: a hub that is busy with slow clients
\* does not keep the worker from it.
NoticesSettle == \A n \in Notice : []<>(n \notin Waiting)

-----------------------------------------------------------------------------
(* Refinement: the dispatcher, its callers and the hub together are the board  *)
(* NoticeBoard specifies.                                                      *)

\* The notices that are stored and have not been fanned out yet.
OnTheirWay == {n \in Notice : \/ \E p \in Publisher : pub[p] = n
                             \/ \E i \in 1..Len(pubs) : pubs[i] = n}

Phase == [n \in Notice |-> IF n \notin sent THEN "new"
                           ELSE IF n \in Waiting THEN "waiting"
                           ELSE IF n \in OnTheirWay THEN "kept" ELSE "over"]

Board == INSTANCE NoticeBoard WITH Notices <- Notice, Screens <- Conn,
                                   Frames <- Event \cup {Hello},
                                   phase <- Phase, board <- stored, box <- send

BoardSpec == Board!Spec
=============================================================================
