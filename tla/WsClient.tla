------------------------------- MODULE WsClient ------------------------------
(* The browser's websocket client (frontend/src/lib/ws.ts) and the hook that   *)
(* joins the rooms of a component (hooks/useWebSocket.ts).  Handlers, effects  *)
(* and timers are tasks of one thread; they interleave with the network.       *)
EXTENDS Integers, FiniteSets

CONSTANTS Socket,    \* sockets, used again once they are closed
          Room,
          Component, \* what can be mounted
          RoomsOf,   \* [Component -> SUBSET Room]
          Token,
          MaxLogins, \* bound: changes of the token
          MaxTimers, \* bound: reconnections that wait at once
          NULL

\* No two components that come and go separately share a room (the set of rooms
\* does not count who wants them).
ASSUME ClientAssumption ==
    /\ NULL \notin Socket \cup Token
    /\ RoomsOf \in [Component -> SUBSET Room]
    /\ \A m, n \in Component : m # n => RoomsOf[m] \cap RoomsOf[n] = {}
    /\ MaxLogins \in Nat /\ MaxTimers \in Nat \ {0}

VARIABLES status,     \* of each socket; "closing" once close() was called
          joined,     \* the rooms asked for on each socket
          ws,         \* WsClient.ws, or NULL
          connecting, \* WsClient.connecting
          current,    \* WsClient.currentToken, or NULL
          rooms,      \* WsClient.rooms
          timers,     \* pending setTimeout calls
          token,      \* useAuthStore's token, or NULL
          mounted,
          logins

vars == <<status, joined, ws, connecting, current, rooms, timers, token, mounted, logins>>

Open == {s \in Socket : status[s] = "open"}
Live == {s \in Socket : status[s] \in {"connecting", "open"}}

-----------------------------------------------------------------------------
(* WsClient *)

\* connect(t), then join(r) for each r of R.  A socket that was opened with another
\* token is closed; joins on a socket that is not open are left to onopen.
Connect(t, R) ==
    LET same == ws # NULL /\ t = current
        left == [s \in Socket |-> IF s = ws /\ ~same THEN "closing" ELSE status[s]]
    IN /\ current' = t
       /\ rooms' = rooms \cup R
       /\ \/ /\ same \/ connecting
             /\ status' = left
             /\ ws' = IF same THEN ws ELSE NULL
             /\ joined' = [s \in Socket |-> IF same /\ s = ws /\ s \in Open
                                            THEN joined[s] \cup R ELSE joined[s]]
             /\ UNCHANGED connecting
          \/ /\ ~same /\ ~connecting
             /\ connecting' = TRUE
             /\ \E s \in Socket :
                  /\ status[s] = "closed"
                  /\ status' = [left EXCEPT ![s] = "connecting"]
                  /\ ws' = s
                  /\ joined' = [joined EXCEPT ![s] = {}]

\* leave(r) for each r of R
LeaveRooms(R) ==
    /\ rooms' = rooms \ R
    /\ joined' = [s \in Socket |-> IF s = ws /\ s \in Open THEN joined[s] \ R ELSE joined[s]]

\* Mutant: the rooms are not joined again.
OpenedForgets(s) ==
    /\ status[s] = "connecting"
    /\ status' = [status EXCEPT ![s] = "open"]
    /\ connecting' = FALSE
    /\ UNCHANGED <<joined, ws, current, rooms, timers, token, mounted, logins>>

\* onopen: send() goes to the socket of the moment, if that one is open.
Opened(s) ==
    /\ status[s] = "connecting"
    /\ status' = [status EXCEPT ![s] = "open"]
    /\ connecting' = FALSE
    /\ joined' = [k \in Socket |-> IF k = ws /\ status'[k] = "open"
                                   THEN joined[k] \cup rooms ELSE joined[k]]
    /\ UNCHANGED <<ws, current, rooms, timers, token, mounted, logins>>

\* Mutants: onclose leaves the flag; onclose leaves the reference.
ClosedKeepsFlag(s) ==
    /\ status[s] # "closed" /\ timers < MaxTimers
    /\ status' = [status EXCEPT ![s] = "closed"]
    /\ ws' = NULL
    /\ timers' = IF current = NULL THEN timers ELSE timers + 1
    /\ UNCHANGED <<joined, connecting, current, rooms, token, mounted, logins>>
ClosedKeepsSocket(s) ==
    /\ status[s] # "closed" /\ timers < MaxTimers
    /\ status' = [status EXCEPT ![s] = "closed"]
    /\ connecting' = FALSE
    /\ timers' = IF current = NULL THEN timers ELSE timers + 1
    /\ UNCHANGED <<ws, joined, current, rooms, token, mounted, logins>>

\* onclose, after close(), a lost connection or a failed attempt.
Closed(s) ==
    /\ status[s] # "closed" /\ timers < MaxTimers
    /\ status' = [status EXCEPT ![s] = "closed"]
    /\ connecting' = FALSE
    /\ ws' = NULL
    /\ timers' = IF current = NULL THEN timers ELSE timers + 1
    /\ UNCHANGED <<joined, current, rooms, token, mounted, logins>>

Timer ==
    /\ timers > 0
    /\ timers' = timers - 1
    /\ Connect(current, {})
    /\ UNCHANGED <<token, mounted, logins>>

-----------------------------------------------------------------------------
(* useWsRooms *)

RoomsOfAll(S) == UNION {RoomsOf[m] : m \in S}

\* Pages are shown to a user who is signed in (RequireAuth).
Mount(m) ==
    /\ m \notin mounted /\ token # NULL
    /\ mounted' = mounted \cup {m}
    /\ Connect(token, RoomsOf[m])
    /\ UNCHANGED <<timers, token, logins>>

\* The effect was undone already when the token went.
Unmount(m) ==
    /\ m \in mounted
    /\ mounted' = mounted \ {m}
    /\ \/ token = NULL /\ UNCHANGED <<joined, rooms>>
       \/ token # NULL /\ LeaveRooms(RoomsOf[m])
    /\ UNCHANGED <<status, ws, connecting, current, timers, token, logins>>

\* On the sign-in page, which joins nothing.  A token is never issued twice.
Login(t) ==
    /\ mounted = {} /\ t \notin {token, current} /\ logins < MaxLogins
    /\ logins' = logins + 1
    /\ token' = t
    /\ UNCHANGED <<status, joined, ws, connecting, current, rooms, timers, mounted>>

\* The client is not told: it keeps its socket and its token.
Logout ==
    /\ token # NULL
    /\ token' = NULL
    /\ LeaveRooms(RoomsOfAll(mounted))
    /\ UNCHANGED <<status, ws, connecting, current, timers, mounted, logins>>

Init ==
    /\ status = [s \in Socket |-> "closed"]
    /\ joined = [s \in Socket |-> {}]
    /\ ws = NULL /\ connecting = FALSE /\ current = NULL
    /\ rooms = {} /\ timers = 0
    /\ token = NULL /\ mounted = {} /\ logins = 0

Next ==
    \/ \E s \in Socket : Opened(s) \/ Closed(s)
    \/ Timer \/ Logout
    \/ \E m \in Component : Mount(m) \/ Unmount(m)
    \/ \E t \in Token : Login(t)

Spec == Init /\ [][Next]_vars

\* Timers run, and a socket whose close() was called gets its close event.  The
\* network may refuse every attempt.
FairSpec ==
    /\ Spec /\ WF_vars(Timer)
    /\ \A s \in Socket : WF_vars(status[s] = "closing" /\ Closed(s))

-----------------------------------------------------------------------------

\* The client's reference, when it has one, is to a socket that lives.
SocketTypeOK ==
    /\ status \in [Socket -> {"closed", "connecting", "open", "closing"}]
    /\ joined \in [Socket -> SUBSET Room]
    /\ ws \in Live \cup {NULL}
    /\ connecting \in BOOLEAN
    /\ current \in Token \cup {NULL} /\ token \in Token \cup {NULL}
    /\ rooms \subseteq Room
    /\ timers \in 0..MaxTimers
    /\ mounted \subseteq Component
    /\ logins \in 0..MaxLogins

\* Whatever was lost, closed and opened again, and in whatever order the events of old
\* and new sockets arrive: the socket in use has asked for the rooms of the components
\* on the screen, and for no others.
RoomsFollowScreen ==
    ws \in Open => joined[ws] = IF token = NULL THEN {} ELSE RoomsOfAll(mounted)

\* A client that has a token is never without a socket for good: it tries again for
\* ever, also when an old socket's onclose took the reference to a new one away.
Reconnects == []<>(current = NULL \/ ws # NULL)

\* "The client keeps one long-lived socket" (comment at the head of ws.ts).
OneSocket == Cardinality(Open) <= 1
=============================================================================
