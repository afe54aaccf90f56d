---------------------------- MODULE WsClientProofs ---------------------------
(* Proofs about the browser's websocket client.                                *)
EXTENDS WsClient, TLAPS

\* The rooms that the components on the screen want.
Wanted == IF token = NULL THEN {} ELSE RoomsOfAll(mounted)

\* RoomsFollowScreen is not inductive: it rests on the client's own set, which it
\* compares with the rooms asked for on the socket in use; on one that is not open
\* yet it has asked for none.
RoomsInv ==
    /\ SocketTypeOK
    /\ rooms = Wanted
    /\ timers > 0 => current # NULL
    /\ ws # NULL => joined[ws] = IF ws \in Open THEN rooms ELSE {}

\* connect() and the joins after it.
LEMMA ConnectInv ==
  ASSUME RoomsInv, NEW t \in Token, NEW R \in SUBSET Room, Connect(t, R)
  PROVE  /\ status' \in [Socket -> {"closed", "connecting", "open", "closing"}]
         /\ joined' \in [Socket -> SUBSET Room]
         /\ ws' \in Live' \cup {NULL} /\ connecting' \in BOOLEAN
         /\ current' = t /\ rooms' = rooms \cup R
         /\ ws' # NULL => joined'[ws'] = IF ws' \in Open' THEN rooms' ELSE {}
<1> USE ClientAssumption DEF RoomsInv, SocketTypeOK
<1> DEFINE same == ws # NULL /\ t = current
           left == [s \in Socket |-> IF s = ws /\ ~same THEN "closing" ELSE status[s]]
<1>1. current' = t /\ rooms' = rooms \cup R BY DEF Connect
<1>2. left \in [Socket -> {"closed", "connecting", "open", "closing"}] OBVIOUS
<1>3. CASE same
  <2>1. /\ status' = left /\ ws' = ws /\ UNCHANGED connecting
        /\ joined' = [s \in Socket |-> IF s = ws /\ s \in Open
                                       THEN joined[s] \cup R ELSE joined[s]]
    BY <1>3 DEF Connect
  <2>2. status' = status BY <1>3, <2>1
  <2>3. Live' = Live /\ Open' = Open BY <2>2 DEF Live, Open
  <2>4. joined' \in [Socket -> SUBSET Room] BY <2>1
  <2>5. ws' # NULL => joined'[ws'] = IF ws' \in Open' THEN rooms' ELSE {}
    <3> SUFFICES ASSUME ws # NULL
                 PROVE  joined'[ws] = IF ws \in Open THEN rooms \cup R ELSE {}
      BY <1>1, <2>1, <2>3
    <3>1. ws \in Socket /\ joined[ws] = IF ws \in Open THEN rooms ELSE {}
      BY DEF Live
    <3>2. joined'[ws] = IF ws \in Open THEN joined[ws] \cup R ELSE joined[ws]
      BY <2>1, <3>1
    <3> HIDE DEF same, left
    <3> QED BY <3>1, <3>2
  <2> QED BY <1>1, <1>3, <2>1, <2>2, <2>3, <2>4, <2>5
<1>4. CASE ~same /\ connecting
  <2>1. /\ status' = left /\ ws' = NULL /\ UNCHANGED connecting
        /\ joined' = [s \in Socket |-> joined[s]]
    BY <1>4 DEF Connect
  <2>2. NULL \notin Open' BY DEF Open
  <2> QED BY <1>1, <1>2, <2>1, <2>2
<1>5. CASE ~same /\ ~connecting
  <2>1. connecting' = TRUE BY <1>5 DEF Connect
  <2>2. PICK s \in Socket : /\ status' = [left EXCEPT ![s] = "connecting"]
                            /\ ws' = s
                            /\ joined' = [joined EXCEPT ![s] = {}]
    BY <1>5 DEF Connect
  <2> HIDE DEF left
  <2>3. status' \in [Socket -> {"closed", "connecting", "open", "closing"}]
        /\ status'[s] = "connecting"
    BY <1>2, <2>2
  <2>4. s \in Live' /\ s \notin Open' BY <2>3 DEF Live, Open
  <2>5. joined'[s] = {} /\ joined' \in [Socket -> SUBSET Room] BY <2>2
  <2> QED BY <1>1, <2>1, <2>2, <2>3, <2>4, <2>5
<1> QED BY <1>3, <1>4, <1>5

\* leave() of several rooms.
LEMMA LeaveInv ==
  ASSUME RoomsInv, NEW R \in SUBSET Room, LeaveRooms(R), UNCHANGED <<status, ws>>
  PROVE  /\ joined' \in [Socket -> SUBSET Room] /\ rooms' = rooms \ R
         /\ ws' # NULL => joined'[ws'] = IF ws' \in Open' THEN rooms' ELSE {}
BY DEF RoomsInv, SocketTypeOK, LeaveRooms, Open

\* The rooms of components that do not share any.
LEMMA RoomsOfAllStep ==
  ASSUME NEW m \in Component, NEW S \in SUBSET Component
  PROVE  /\ RoomsOf[m] \in SUBSET Room /\ RoomsOfAll(S) \in SUBSET Room
         /\ RoomsOfAll(S \cup {m}) = RoomsOfAll(S) \cup RoomsOf[m]
         /\ RoomsOfAll(S \ {m}) = RoomsOfAll(S) \ (IF m \in S THEN RoomsOf[m] ELSE {})
<1>1. \A n \in Component : RoomsOf[n] \in SUBSET Room BY ClientAssumption
<1>2. \A n \in S : n # m => RoomsOf[n] \cap RoomsOf[m] = {} BY ClientAssumption
<1> QED BY <1>1, <1>2 DEF RoomsOfAll

\* Every step keeps the invariant.
LEMMA RoomsNext == ASSUME RoomsInv, [Next]_vars PROVE RoomsInv'
<1> USE ClientAssumption
<1>0. mounted \in SUBSET Component /\ Wanted \in SUBSET Room
  BY DEF RoomsInv, SocketTypeOK, Wanted
<1>1. ASSUME NEW s \in Socket, Opened(s) PROVE RoomsInv'
  <2>1. /\ status[s] = "connecting"
        /\ status' = [status EXCEPT ![s] = "open"] /\ connecting' = FALSE
        /\ joined' = [k \in Socket |-> IF k = ws /\ status'[k] = "open"
                                       THEN joined[k] \cup rooms ELSE joined[k]]
        /\ UNCHANGED <<ws, current, rooms, timers, token, mounted, logins>>
    BY <1>1 DEF Opened
  <2>2. Live' = Live /\ Open' = Open \cup {s}
    BY <2>1 DEF RoomsInv, SocketTypeOK, Live, Open
  <2>3. joined' \in [Socket -> SUBSET Room] BY <2>1 DEF RoomsInv, SocketTypeOK
  <2>4. ASSUME ws # NULL PROVE joined'[ws] = IF ws \in Open' THEN rooms ELSE {}
    <3>1. ws \in Socket /\ joined[ws] = IF ws \in Open THEN rooms ELSE {}
      BY <2>4 DEF RoomsInv, SocketTypeOK, Live
    <3>2. ws \in Open' <=> status'[ws] = "open" BY <3>1 DEF Open
    <3> QED BY <2>1, <2>2, <3>1, <3>2
  <2>5. SocketTypeOK' BY <2>1, <2>2, <2>3 DEF RoomsInv, SocketTypeOK
  <2>6. Wanted' = Wanted BY <2>1 DEF Wanted
  <2> QED BY <2>1, <2>4, <2>5, <2>6 DEF RoomsInv
<1>2. ASSUME NEW s \in Socket, Closed(s) PROVE RoomsInv'
  <2>1. /\ status' = [status EXCEPT ![s] = "closed"] /\ ws' = NULL /\ connecting' = FALSE
        /\ timers < MaxTimers
        /\ timers' = IF current = NULL THEN timers ELSE timers + 1
        /\ UNCHANGED <<joined, current, rooms, token, mounted, logins>>
    BY <1>2 DEF Closed
  <2>2. timers' \in 0..MaxTimers BY <2>1 DEF RoomsInv, SocketTypeOK
  <2>3. Wanted' = Wanted BY <2>1 DEF Wanted
  <2> QED BY <2>1, <2>2, <2>3 DEF RoomsInv, SocketTypeOK
<1>3. ASSUME Timer PROVE RoomsInv'
  <2>1. /\ timers' \in 0..MaxTimers /\ Connect(current, {})
        /\ UNCHANGED <<token, mounted, logins>>
    BY <1>3 DEF Timer, RoomsInv, SocketTypeOK
  <2>2. current \in Token /\ {} \in SUBSET Room BY <1>3 DEF Timer, RoomsInv, SocketTypeOK
  <2>3. Wanted' = Wanted /\ rooms \cup {} = rooms BY <2>1 DEF Wanted
  <2> QED BY <2>1, <2>2, <2>3, ConnectInv DEF RoomsInv, SocketTypeOK
<1>4. ASSUME NEW m \in Component, Mount(m) PROVE RoomsInv'
  <2>1. /\ token \in Token /\ mounted' = mounted \cup {m} /\ Connect(token, RoomsOf[m])
        /\ UNCHANGED <<timers, token, logins>>
    BY <1>4 DEF Mount, RoomsInv, SocketTypeOK
  <2>2. /\ RoomsOf[m] \in SUBSET Room
        /\ RoomsOfAll(mounted \cup {m}) = RoomsOfAll(mounted) \cup RoomsOf[m]
    BY <1>0, RoomsOfAllStep
  <2>3. Wanted' = rooms \cup RoomsOf[m]
    BY <2>1, <2>2 DEF Wanted, RoomsInv, RoomsOfAll
  <2>4. Wanted' \in SUBSET Room /\ rooms' = Wanted'
    BY <2>1, <2>2, <2>3, ConnectInv DEF RoomsInv, SocketTypeOK
  <2>5. SocketTypeOK' BY <2>1, <2>2, <2>4, ConnectInv, <1>0 DEF RoomsInv, SocketTypeOK
  <2> QED BY <2>1, <2>2, <2>4, <2>5, ConnectInv DEF RoomsInv
<1>5. ASSUME NEW m \in Component, Unmount(m) PROVE RoomsInv'
  <2>1. /\ mounted' = mounted \ {m} /\ m \in mounted
        /\ UNCHANGED <<status, ws, connecting, current, timers, token, logins>>
    BY <1>5 DEF Unmount
  <2>2. /\ RoomsOf[m] \in SUBSET Room
        /\ RoomsOfAll(mounted \ {m}) = RoomsOfAll(mounted) \ RoomsOf[m]
    BY <1>0, <2>1, RoomsOfAllStep
  <2>3. Live' = Live /\ Open' = Open BY <2>1 DEF Live, Open
  <2>4. CASE token = NULL
    <3>1. UNCHANGED <<joined, rooms>> BY <1>5, <2>4 DEF Unmount
    <3>2. Wanted' = Wanted BY <2>1, <2>4 DEF Wanted
    <3> QED BY <2>1, <2>3, <3>1, <3>2, <1>0 DEF RoomsInv, SocketTypeOK
  <2>5. CASE token # NULL
    <3>1. LeaveRooms(RoomsOf[m]) BY <1>5, <2>5 DEF Unmount
    <3>2. Wanted' = rooms \ RoomsOf[m]
      BY <2>1, <2>2, <2>5 DEF Wanted, RoomsInv, RoomsOfAll
    <3>3. /\ joined' \in [Socket -> SUBSET Room] /\ rooms' = rooms \ RoomsOf[m]
          /\ ws' # NULL => joined'[ws'] = IF ws' \in Open' THEN rooms' ELSE {}
      BY <2>1, <2>2, <3>1, LeaveInv
    <3>4. SocketTypeOK' BY <2>1, <2>3, <3>3 DEF RoomsInv, SocketTypeOK
    <3> QED BY <2>1, <3>2, <3>3, <3>4 DEF RoomsInv
  <2> QED BY <2>4, <2>5
<1>6. ASSUME NEW t \in Token, Login(t) PROVE RoomsInv'
  <2>1. /\ mounted = {} /\ token' = t /\ logins' \in 0..MaxLogins
        /\ UNCHANGED <<status, joined, ws, connecting, current, rooms, timers, mounted>>
    BY <1>6 DEF Login, RoomsInv, SocketTypeOK
  <2>2. Wanted = {} /\ Wanted' = {} BY <2>1 DEF Wanted, RoomsOfAll
  <2>3. Live' = Live /\ Open' = Open BY <2>1 DEF Live, Open
  <2>4. SocketTypeOK' BY <2>1, <2>3 DEF RoomsInv, SocketTypeOK
  <2> QED BY <2>1, <2>2, <2>3, <2>4 DEF RoomsInv
<1>7. ASSUME Logout PROVE RoomsInv'
  <2>1. /\ token # NULL /\ token' = NULL /\ LeaveRooms(RoomsOfAll(mounted))
        /\ UNCHANGED <<status, ws, connecting, current, timers, mounted, logins>>
    BY <1>7 DEF Logout
  <2>2. rooms = RoomsOfAll(mounted) /\ rooms \in SUBSET Room
    BY <1>0, <2>1 DEF RoomsInv, Wanted
  <2>3. /\ joined' \in [Socket -> SUBSET Room] /\ rooms' = {}
        /\ ws' # NULL => joined'[ws'] = IF ws' \in Open' THEN rooms' ELSE {}
    BY <2>1, <2>2, LeaveInv
  <2>4. Wanted' = {} BY <2>1 DEF Wanted
  <2>5. Live' = Live BY <2>1 DEF Live
  <2>6. SocketTypeOK' BY <2>1, <2>3, <2>5 DEF RoomsInv, SocketTypeOK
  <2> QED BY <2>1, <2>3, <2>4, <2>6 DEF RoomsInv
<1>8. ASSUME UNCHANGED vars PROVE RoomsInv'
  <2>1. UNCHANGED <<status, joined, ws, connecting, current, rooms, timers, token, mounted,
                    logins>>
    BY <1>8 DEF vars
  <2>2. Live' = Live /\ Open' = Open /\ Wanted' = Wanted
    BY <2>1 DEF Live, Open, Wanted, RoomsOfAll
  <2>3. SocketTypeOK' BY <2>1, <2>2 DEF RoomsInv, SocketTypeOK
  <2> QED BY <2>1, <2>2, <2>3 DEF RoomsInv
<1> QED BY <1>1, <1>2, <1>3, <1>4, <1>5, <1>6, <1>7, <1>8 DEF Next

\* The invariant holds when the page is loaded.
LEMMA RoomsInit == Init => RoomsInv
<1> SUFFICES ASSUME Init PROVE RoomsInv OBVIOUS
<1>1. SocketTypeOK
  <2>1. timers \in 0..MaxTimers /\ logins \in 0..MaxLogins BY ClientAssumption DEF Init
  <2>2. status \in [Socket -> {"closed", "connecting", "open", "closing"}] BY DEF Init
  <2>3. joined \in [Socket -> SUBSET Room] BY DEF Init
  <2> QED BY <2>1, <2>2, <2>3 DEF Init, SocketTypeOK
<1> QED BY <1>1 DEF Init, RoomsInv, Wanted

\* Types, and the bound on the timers that lib/ws.ts may have pending at once.
THEOREM SocketTypeOKHolds == Spec => []SocketTypeOK
<1>1. RoomsInv => SocketTypeOK BY DEF RoomsInv
<1> QED BY <1>1, RoomsInit, RoomsNext, PTL DEF Spec

\* The socket in use has asked for the rooms on the screen and for no others, for any
\* number of sockets, components and sign-ins, however late close events are.
THEOREM RoomsFollowScreenHolds == Spec => []RoomsFollowScreen
<1>1. RoomsInv => RoomsFollowScreen
  BY ClientAssumption DEF RoomsInv, RoomsFollowScreen, Wanted, Open
<1> QED BY <1>1, RoomsInit, RoomsNext, PTL DEF Spec
=============================================================================
