---------------------------- MODULE NotifierProofs ---------------------------
(* Proofs about the hub and the notification dispatcher.                       *)
EXTENDS Notifier, SequenceTheorems, TLAPS

-----------------------------------------------------------------------------
(* Types *)

\* A step of the hub, its clients and publishers keeps the types.
LEMMA HubTypeNext == ASSUME HubTypeOK, HubNext PROVE HubTypeOK'
<1> USE HubAssumption DEF HubTypeOK, clientVars
<1>1. ASSUME NEW c \in Conn, Upgrade(c) PROVE HubTypeOK'
  BY <1>1 DEF Upgrade
<1>2. ASSUME NEW c \in Conn, Name(c) PROVE HubTypeOK'
  <2>1. subs[c] \cup {Personal[c]} \in SUBSET Room OBVIOUS
  <2> DEFINE new == subs[c] \cup {Personal[c]}
  <2>2. subs' = [subs EXCEPT ![c] = new] \/ subs' = subs BY <1>2 DEF Name
  <2> HIDE DEF new
  <2>3. subs' \in [Conn -> SUBSET Room] BY <2>1, <2>2 DEF new
  <2> QED BY <1>2, <2>3 DEF Name
<1>3. ASSUME NEW c \in Conn, Register(c) PROVE HubTypeOK'
  <2>1. Join(Personal[c], c) \in RoomOp BY DEF RoomOp, Join
  <2> QED BY <1>3, <2>1 DEF Register
<1>4. ASSUME NEW c \in Conn, Greet(c) PROVE HubTypeOK'
  BY <1>4 DEF Greet
<1>5. ASSUME NEW c \in Conn, NEW kind \in {"J", "L"}, NEW r \in Room, Frame(c, kind, r)
      PROVE HubTypeOK'
  <2>1. [kind |-> kind, room |-> r, client |-> c] \in RoomOp BY DEF RoomOp
  <2> QED BY <1>5, <2>1 DEF Frame
<1>6. ASSUME NEW c \in Conn, Post(c) PROVE HubTypeOK'
  BY <1>6 DEF Post
<1>7. ASSUME NEW c \in Conn, Lose(c) PROVE HubTypeOK'
  BY <1>7 DEF Lose
<1>8. ASSUME NEW c \in Conn, ReadFails(c) PROVE HubTypeOK'
  BY <1>8 DEF ReadFails
<1>9. ASSUME NEW c \in Conn, Leave(c) PROVE HubTypeOK'
  <2>1. PICK r \in subs[c] : /\ ops' = Append(ops, LeaveOp(r, c))
                             /\ subs' = [subs EXCEPT ![c] = @ \ {r}]
    BY <1>9 DEF Leave
  <2>2. LeaveOp(r, c) \in RoomOp BY DEF RoomOp, LeaveOp
  <2> QED BY <1>9, <2>1, <2>2 DEF Leave
<1>10. ASSUME NEW c \in Conn, ReaderEnds(c) PROVE HubTypeOK'
  BY <1>10 DEF ReaderEnds
<1>11. ASSUME NEW c \in Conn, Write(c) PROVE HubTypeOK'
  <2>1. Tail(send[c]) \in Seq(Event \cup {Hello}) /\ Len(Tail(send[c])) <= SendCap
    BY <1>11, HeadTailProperties DEF Write
  <2> QED BY <1>11, <2>1 DEF Write
<1>12. ASSUME NEW c \in Conn, Ping(c) PROVE HubTypeOK'
  BY <1>12 DEF Ping
<1>13. ASSUME HubOp PROVE HubTypeOK'
  <2>1. Head(ops) \in RoomOp /\ Tail(ops) \in Seq(RoomOp) /\ Len(Tail(ops)) <= OpsCap
    BY <1>13, HeadTailProperties DEF HubOp
  <2>2. Apply(Head(ops), members) \in [Room -> SUBSET Conn]
    BY <2>1 DEF Apply, RoomOp
  <2> QED BY <1>13, <2>1, <2>2 DEF HubOp
<1>14. ASSUME HubPublish PROVE HubTypeOK'
  <2>1. Head(pubs) \in Event /\ Tail(pubs) \in Seq(Event) /\ Len(Tail(pubs)) <= PublishCap
    BY <1>14, HeadTailProperties DEF HubPublish
  <2>2. \A c \in Conn : /\ send'[c] \in Seq(Event \cup {Hello}) /\ Len(send'[c]) <= SendCap
    BY <1>14, <2>1 DEF HubPublish
  <2>3. send' \in [Conn -> Seq(Event \cup {Hello})]
    BY <1>14, <2>2 DEF HubPublish
  <2> QED BY <1>14, <2>1, <2>2, <2>3 DEF HubPublish
<1>15. ASSUME NEW p \in Publisher, Accept(p) PROVE HubTypeOK'
  BY <1>15 DEF Accept
<1> QED
  BY <1>1, <1>2, <1>3, <1>4, <1>5, <1>6, <1>7, <1>8, <1>9, <1>10, <1>11, <1>12, <1>13, <1>14,
     <1>15 DEF HubNext, Serving

\* So do a publication and a stop.
LEMMA HubTypeOthers ==
  ASSUME HubTypeOK
  PROVE  /\ \A p \in Publisher, e \in Event : Publish(p, e) => HubTypeOK'
         /\ Stop => HubTypeOK'
         /\ UNCHANGED hubVars => HubTypeOK'
<1>1. ASSUME NEW p \in Publisher, NEW e \in Event, Publish(p, e) PROVE HubTypeOK'
  BY <1>1 DEF HubTypeOK, Publish, clientVars
<1>2. ASSUME Stop PROVE HubTypeOK'
  <2>1. \A S : <<>> \in Seq(S) OBVIOUS
  <2> QED BY <1>2, <2>1, HubAssumption DEF HubTypeOK, Stop
<1>3. ASSUME UNCHANGED hubVars PROVE HubTypeOK'
  BY <1>3 DEF HubTypeOK, hubVars, clientVars
<1> QED BY <1>1, <1>2, <1>3

\* The initial state is of the right types.
LEMMA HubTypeInit == ASSUME HubInit PROVE HubTypeOK
<1>1. \A S : <<>> \in Seq(S) OBVIOUS
<1> QED BY <1>1, HubAssumption DEF HubInit, HubTypeOK

-----------------------------------------------------------------------------
(* Membership *)

\* What LastWordKept rests on: an operation in readPump's hands is the client's own
\* and keeps it from leaving; until the personal room is registered, a client that
\* is not early has not touched it.
Joined ==
    \A c \in Conn :
        /\ posting[c] # NULL => reader[c] = "reading" /\ posting[c].client = c
        /\ serve[c] = "absent" => reader[c] = "absent"
        /\ ~Registered(c) /\ c \notin early =>
             /\ reader[c] \in {"absent", "reading"}
             /\ posting[c] # NULL => posting[c].room # Personal[c]
             /\ serve[c] = "joining" => Personal[c] \in subs[c]

\* An operation sent to the hub decides about its own client and room only.
LEMMA SettledAppend ==
  ASSUME HubTypeOK, NEW op \in RoomOp, ops' = Append(ops, op), members' = members,
         NEW c \in Conn, NEW r \in Room
  PROVE  Settled(c, r)' <=> IF About(op, c, r) THEN op.kind = "J" ELSE Settled(c, r)
<1>1. /\ ops \in Seq(RoomOp) /\ Len(ops) \in Nat /\ Len(ops') = Len(ops) + 1
      /\ ops'[Len(ops) + 1] = op /\ \A i \in 1..Len(ops) : ops'[i] = ops[i]
  BY DEF HubTypeOK
<1>2. CASE About(op, c, r)
  <2>1. op = Join(r, c) <=> op.kind = "J"
    BY <1>2 DEF RoomOp, Join, About
  <2>2. CASE op.kind = "J"
    <3>1. ops'[Len(ops) + 1] = Join(r, c) /\ \A j \in ((Len(ops) + 1) + 1)..Len(ops') : FALSE
      BY <1>1, <2>1, <2>2
    <3> QED BY <1>1, <1>2, <2>2, <3>1 DEF Settled
  <2>3. CASE op.kind # "J"
    <3>1. ASSUME NEW i \in 1..Len(ops'), ops'[i] = Join(r, c),
                 \A j \in (i+1)..Len(ops') : ~About(ops'[j], c, r)
          PROVE FALSE
      <4>1. CASE i = Len(ops) + 1 BY <4>1, <3>1, <1>1, <2>1, <2>3
      <4>2. CASE i < Len(ops) + 1
        <5>1. Len(ops) + 1 \in (i+1)..Len(ops') BY <4>2, <1>1
        <5> QED BY <5>1, <3>1, <1>1, <1>2
      <4> QED BY <4>1, <4>2, <1>1
    <3>2. Len(ops) + 1 \in 1..Len(ops') BY <1>1
    <3> QED BY <3>1, <3>2, <1>1, <1>2, <2>3 DEF Settled
  <2> QED BY <2>2, <2>3
<1>3. CASE ~About(op, c, r)
  <2>1. op # Join(r, c) BY <1>3 DEF Join, About
  <2>2. \A i \in 1..Len(ops) :
          (\A j \in (i+1)..Len(ops') : ~About(ops'[j], c, r))
            <=> (\A j \in (i+1)..Len(ops) : ~About(ops[j], c, r))
    BY <1>1, <1>3
  <2>3. (\A i \in 1..Len(ops') : ~About(ops'[i], c, r))
          <=> (\A i \in 1..Len(ops) : ~About(ops[i], c, r))
    BY <1>1, <1>3
  <2>4. (\E i \in 1..Len(ops') : /\ ops'[i] = Join(r, c)
                                 /\ \A j \in (i+1)..Len(ops') : ~About(ops'[j], c, r))
          <=> (\E i \in 1..Len(ops) : /\ ops[i] = Join(r, c)
                                      /\ \A j \in (i+1)..Len(ops) : ~About(ops[j], c, r))
    BY <1>1, <2>1, <2>2
  <2> QED BY <1>3, <2>3, <2>4 DEF Settled
<1> QED BY <1>2, <1>3

\* Working an operation off settles nothing anew.
LEMMA SettledTail ==
  ASSUME HubTypeOK, ops # <<>>, ops' = Tail(ops), members' = Apply(Head(ops), members),
         NEW c \in Conn, NEW r \in Room
  PROVE  Settled(c, r)' <=> Settled(c, r)
<1>1. /\ ops \in Seq(RoomOp) /\ Len(ops) \in Nat \ {0} /\ Len(ops') = Len(ops) - 1
      /\ ops[1] \in RoomOp /\ Head(ops) = ops[1]
      /\ \A i \in 1..Len(ops') : ops'[i] = ops[i + 1]
  BY HeadTailProperties DEF HubTypeOK
<1>2. ~About(ops[1], c, r) => (c \in members'[r] <=> c \in members[r])
  BY <1>1 DEF Apply, About, HubTypeOK, RoomOp
<1>3. About(ops[1], c, r) => (c \in members'[r] <=> ops[1].kind = "J")
  BY <1>1 DEF Apply, About, HubTypeOK, RoomOp
<1>4. ops[1] = Join(r, c) <=> About(ops[1], c, r) /\ ops[1].kind = "J"
  BY <1>1 DEF RoomOp, Join, About
<1> DEFINE Last(s, i) == s[i] = Join(r, c) /\ \A j \in (i+1)..Len(s) : ~About(s[j], c, r)
<1>5. \A i \in 1..Len(ops') : Last(ops', i) <=> Last(ops, i + 1)
  <2> SUFFICES ASSUME NEW i \in 1..Len(ops') PROVE Last(ops', i) <=> Last(ops, i + 1)
    OBVIOUS
  <2>1. ASSUME \A j \in (i+1)..Len(ops') : ~About(ops'[j], c, r),
               NEW j \in ((i+1)+1)..Len(ops)
        PROVE  ~About(ops[j], c, r)
    <3>1. j - 1 \in (i+1)..Len(ops') /\ ops'[j - 1] = ops[j] BY <1>1
    <3> QED BY <2>1, <3>1
  <2>2. ASSUME \A j \in ((i+1)+1)..Len(ops) : ~About(ops[j], c, r),
               NEW j \in (i+1)..Len(ops')
        PROVE  ~About(ops'[j], c, r)
    BY <1>1, <2>2
  <2> QED BY <1>1, <2>1, <2>2
<1>6. Last(ops, 1) <=> ops[1] = Join(r, c) /\ \A i \in 1..Len(ops') : ~About(ops'[i], c, r)
  <2>1. ASSUME \A j \in (1+1)..Len(ops) : ~About(ops[j], c, r), NEW i \in 1..Len(ops')
        PROVE  ~About(ops'[i], c, r)
    BY <1>1, <2>1
  <2>2. ASSUME \A i \in 1..Len(ops') : ~About(ops'[i], c, r), NEW j \in (1+1)..Len(ops)
        PROVE  ~About(ops[j], c, r)
    <3>1. j - 1 \in 1..Len(ops') /\ ops'[j - 1] = ops[j] BY <1>1
    <3> QED BY <2>2, <3>1
  <2> QED BY <2>1, <2>2
<1>7. (\A i \in 1..Len(ops) : ~About(ops[i], c, r))
        <=> ~About(ops[1], c, r) /\ \A i \in 1..Len(ops') : ~About(ops'[i], c, r)
  <2>1. ASSUME ~About(ops[1], c, r), \A i \in 1..Len(ops') : ~About(ops'[i], c, r),
               NEW j \in 1..Len(ops)
        PROVE  ~About(ops[j], c, r)
    <3>1. CASE j = 1 BY <3>1, <2>1
    <3>2. CASE j # 1
      <4>1. j - 1 \in 1..Len(ops') /\ ops'[j - 1] = ops[j] BY <1>1, <3>2
      <4> QED BY <2>1, <4>1
    <3> QED BY <3>1, <3>2
  <2>2. ASSUME \A i \in 1..Len(ops) : ~About(ops[i], c, r), NEW j \in 1..Len(ops')
        PROVE  ~About(ops'[j], c, r)
    BY <1>1, <2>2
  <2> QED BY <1>1, <2>1, <2>2
<1>8. (\E i \in 1..Len(ops) : Last(ops, i))
        <=> Last(ops, 1) \/ \E i \in 1..Len(ops') : Last(ops', i)
  <2>1. ASSUME NEW i \in 1..Len(ops), Last(ops, i), i # 1
        PROVE \E k \in 1..Len(ops') : Last(ops', k)
    <3>1. i - 1 \in 1..Len(ops') /\ (i - 1) + 1 = i BY <1>1, <2>1
    <3> QED BY <1>5, <2>1, <3>1
  <2>2. ASSUME NEW i \in 1..Len(ops'), Last(ops', i)
        PROVE \E k \in 1..Len(ops) : Last(ops, k)
    <3>1. i + 1 \in 1..Len(ops) BY <1>1
    <3> QED BY <1>5, <2>2, <3>1
  <2>3. 1 \in 1..Len(ops) BY <1>1
  <2> QED BY <2>1, <2>2, <2>3
<1>9. /\ Settled(c, r) <=> \/ \E i \in 1..Len(ops) : Last(ops, i)
                           \/ c \in members[r] /\ \A i \in 1..Len(ops) : ~About(ops[i], c, r)
      /\ Settled(c, r)' <=> \/ \E i \in 1..Len(ops') : Last(ops', i)
                            \/ c \in members'[r] /\ \A i \in 1..Len(ops') : ~About(ops'[i], c, r)
  BY DEF Settled
<1> HIDE DEF Last
<1> QED BY <1>2, <1>3, <1>4, <1>6, <1>7, <1>8, <1>9

\* What a step leaves alone keeps the membership as it was.
LEMMA SameRooms ==
  ASSUME LastWordKept, UNCHANGED <<members, ops, posting, subs, early>>,
         \A c \in Conn : Registered(c)' => Registered(c)
  PROVE  LastWordKept'
BY DEF LastWordKept, WillBeIn, Settled

\* Every step of a connection keeps what the membership rests on.
LEMMA JoinedNext ==
  ASSUME HubTypeOK, Joined, NEW c \in Conn, Serving(c)
  PROVE  Joined'
<1> USE DEF HubTypeOK, Joined, Registered
<1>1. CASE Upgrade(c) BY <1>1 DEF Upgrade
<1>2. CASE Name(c)
  <2>1. \A d \in Conn : /\ d # c => serve'[d] = serve[d] /\ subs'[d] = subs[d]
                        /\ reader[c] # "leaving" => Personal[c] \in subs'[c]
    BY <1>2 DEF Name
  <2>2. serve[c] = "naming" /\ serve'[c] = "joining" BY <1>2 DEF Name
  <2>3. UNCHANGED <<reader, posting, early>> BY <1>2 DEF Name
  <2> HIDE <1>2
  <2> QED BY <2>1, <2>2, <2>3
<1>3. CASE Register(c) BY <1>3 DEF Register
<1>4. CASE Greet(c) BY <1>4 DEF Greet
<1>5. ASSUME NEW kind \in {"J", "L"}, NEW r \in Room, Frame(c, kind, r) PROVE Joined'
  <2> DEFINE op == [kind |-> kind, room |-> r, client |-> c]
  <2>1. op.room = r /\ op.client = c OBVIOUS
  <2>2. /\ posting' = [posting EXCEPT ![c] = op]
        /\ reader[c] = "reading" /\ UNCHANGED <<serve, reader>>
        /\ c \notin early' => c \notin early /\ (r = Personal[c] => Registered(c))
        /\ \A d \in Conn : d # c => (d \in early' <=> d \in early) /\ subs'[d] = subs[d]
        /\ \A q \in Room : q # r => (q \in subs'[c] <=> q \in subs[c])
    BY <1>5 DEF Frame
  <2> HIDE DEF op
  <2>3. Personal[c] \in Room BY HubAssumption
  <2> QED BY <2>1, <2>2, <2>3
<1>6. CASE Post(c) BY <1>6 DEF Post
<1>7. CASE Lose(c) BY <1>7 DEF Lose
<1>8. CASE ReadFails(c) BY <1>8 DEF ReadFails
<1>9. CASE Leave(c) BY <1>9 DEF Leave
<1>10. CASE ReaderEnds(c) BY <1>10 DEF ReaderEnds
<1>11. CASE Write(c) BY <1>11 DEF Write
<1>12. CASE Ping(c) BY <1>12 DEF Ping
<1> QED BY <1>1, <1>2, <1>3, <1>4, <1>5, <1>6, <1>7, <1>8, <1>9, <1>10, <1>11, <1>12 DEF Serving

\* Every step of a connection keeps its last word.
LEMMA LastWordNext ==
  ASSUME HubTypeOK, Joined, LastWordKept, NEW c \in Conn, Serving(c)
  PROVE  LastWordKept'
<1>1. CASE Upgrade(c)
  BY <1>1, SameRooms DEF Upgrade, Registered, HubTypeOK
<1>2. CASE Name(c)
  <2>1. ASSUME NEW d \in Conn, NEW r \in Room,
               r = Personal[d] => Registered(d)' /\ d \notin early'
        PROVE  /\ r = Personal[d] => Registered(d) /\ d \notin early
               /\ r \in subs'[d] <=> r \in subs[d]
    BY <1>2, <2>1 DEF Name, Registered, HubTypeOK
  <2>2. UNCHANGED <<members, ops, posting>> BY <1>2 DEF Name
  <2> QED BY <2>1, <2>2 DEF LastWordKept, WillBeIn, Settled
<1>3. CASE Register(c)
  <2> DEFINE op == Join(Personal[c], c)
  <2>1. op \in RoomOp /\ op.kind = "J" BY HubAssumption DEF RoomOp, Join
  <2>2. \A d \in Conn, r \in Room : About(op, d, r) <=> d = c /\ r = Personal[c]
    BY DEF About, Join
  <2>3. ops' = Append(ops, op) /\ UNCHANGED <<members, posting, subs, early>>
    BY <1>3 DEF Register
  <2> HIDE DEF op
  <2>4. \A d \in Conn, r \in Room :
          Settled(d, r)' <=> IF d = c /\ r = Personal[c] THEN TRUE ELSE Settled(d, r)
    BY <2>1, <2>2, <2>3, SettledAppend
  <2>5. \A d \in Conn : d # c => (Registered(d)' <=> Registered(d))
    BY <1>3 DEF Register, Registered, HubTypeOK
  <2>6. c \notin early => /\ Personal[c] \in subs[c]
                          /\ posting[c] # NULL => posting[c].room # Personal[c]
    BY <1>3 DEF Register, Registered, Joined
  <2> QED BY <2>3, <2>4, <2>5, <2>6 DEF LastWordKept, WillBeIn
<1>4. CASE Greet(c)
  BY <1>4, SameRooms DEF Greet, Registered, HubTypeOK
<1>5. ASSUME NEW kind \in {"J", "L"}, NEW q \in Room, Frame(c, kind, q) PROVE LastWordKept'
  <2> DEFINE op == [kind |-> kind, room |-> q, client |-> c]
  <2>1. op.room = q /\ op.kind = kind /\ op \in RoomOp BY DEF RoomOp
  <2>2. op # NULL BY <2>1, HubAssumption
  <2>3. /\ posting' = [posting EXCEPT ![c] = op] /\ posting[c] = NULL
        /\ UNCHANGED <<members, ops, serve>>
        /\ \A d \in Conn : d \notin early' => d \notin early
        /\ \A d \in Conn : d # c => subs'[d] = subs[d]
        /\ \A r \in Room : r \in subs'[c] <=> IF r = q THEN kind = "J" ELSE r \in subs[c]
    BY <1>5 DEF Frame, HubTypeOK
  <2>4. \A d \in Conn, r \in Room : Settled(d, r)' <=> Settled(d, r)
    BY <2>3 DEF Settled
  <2>5. \A d \in Conn : Registered(d)' <=> Registered(d) BY <2>3 DEF Registered
  <2>6. posting'[c] = op /\ \A d \in Conn : d # c => posting'[d] = posting[d]
    BY <2>3 DEF HubTypeOK
  <2> HIDE DEF op
  <2> SUFFICES ASSUME NEW d \in Conn, NEW r \in Room,
                      r = Personal[d] => Registered(d)' /\ d \notin early'
               PROVE  r \in subs'[d] <=> WillBeIn(d, r)'
    BY DEF LastWordKept
  <2>7. r \in subs[d] <=> WillBeIn(d, r) BY <2>3, <2>5 DEF LastWordKept
  <2>8. CASE d # c BY <2>3, <2>4, <2>6, <2>7, <2>8 DEF WillBeIn
  <2>9. CASE d = c BY <2>1, <2>2, <2>3, <2>4, <2>6, <2>7, <2>9 DEF WillBeIn
  <2> QED BY <2>8, <2>9
<1>6. CASE Post(c)
  <2> DEFINE op == posting[c]
  <2>1. op \in RoomOp /\ op # NULL /\ op.client = c
    BY <1>6 DEF Post, HubTypeOK, Joined
  <2>2. /\ ops' = Append(ops, op) /\ posting' = [posting EXCEPT ![c] = NULL]
        /\ UNCHANGED <<members, serve, subs, early>>
    BY <1>6 DEF Post
  <2>3. \A d \in Conn, r \in Room :
          Settled(d, r)' <=> IF About(op, d, r) THEN op.kind = "J" ELSE Settled(d, r)
    BY <2>1, <2>2, SettledAppend
  <2>4. \A d \in Conn, r \in Room : WillBeIn(d, r)' <=> WillBeIn(d, r)
    BY <2>1, <2>2, <2>3 DEF WillBeIn, About, HubTypeOK
  <2> QED BY <2>2, <2>4 DEF LastWordKept, Registered
<1>7. CASE Lose(c)
  BY <1>7, SameRooms DEF Lose, Registered
<1>8. CASE ReadFails(c)
  <2>1. \A d \in Conn : d \notin early' => d \notin early BY <1>8 DEF ReadFails
  <2>2. UNCHANGED <<members, ops, serve, posting, subs>> BY <1>8 DEF ReadFails
  <2> QED BY <2>1, <2>2 DEF LastWordKept, WillBeIn, Settled, Registered
<1>9. CASE Leave(c)
  <2>1. PICK q \in subs[c] : /\ ops' = Append(ops, LeaveOp(q, c))
                             /\ subs' = [subs EXCEPT ![c] = @ \ {q}]
    BY <1>9 DEF Leave
  <2> DEFINE op == LeaveOp(q, c)
  <2>2. op \in RoomOp /\ op.kind = "L" BY DEF RoomOp, LeaveOp, HubTypeOK
  <2>3. \A d \in Conn, r \in Room : About(op, d, r) <=> d = c /\ r = q
    BY DEF About, LeaveOp
  <2>4. UNCHANGED <<members, serve, posting, early>> /\ posting[c] = NULL
    BY <1>9 DEF Leave, Joined
  <2> HIDE DEF op
  <2>5. \A d \in Conn, r \in Room :
          Settled(d, r)' <=> IF d = c /\ r = q THEN FALSE ELSE Settled(d, r)
    BY <2>1, <2>2, <2>3, <2>4, SettledAppend DEF op
  <2>6. \A d \in Conn, r \in Room :
          r \in subs'[d] <=> IF d = c /\ r = q THEN FALSE ELSE r \in subs[d]
    BY <2>1 DEF HubTypeOK
  <2> QED BY <2>4, <2>5, <2>6 DEF LastWordKept, WillBeIn, Registered
<1>10. CASE ReaderEnds(c)
  BY <1>10, SameRooms DEF ReaderEnds, Registered
<1>11. CASE Write(c)
  BY <1>11, SameRooms DEF Write, Registered
<1>12. CASE Ping(c)
  BY <1>12, SameRooms DEF Ping, Registered
<1> QED BY <1>1, <1>2, <1>3, <1>4, <1>5, <1>6, <1>7, <1>8, <1>9, <1>10, <1>11, <1>12 DEF Serving

\* The hub, its publishers and a stop keep both.
LEMMA LastWordOthers ==
  ASSUME HubTypeOK, Joined, LastWordKept
  PROVE  /\ HubOp \/ HubPublish \/ Stop => (Joined /\ LastWordKept)'
         /\ \A p \in Publisher : Accept(p) => (Joined /\ LastWordKept)'
         /\ UNCHANGED <<members, ops, clientVars>> => (Joined /\ LastWordKept)'
<1>1. ASSUME UNCHANGED <<members, ops, clientVars>> PROVE (Joined /\ LastWordKept)'
  <2>1. LastWordKept' BY <1>1, SameRooms DEF clientVars, Registered
  <2>2. Joined' BY <1>1 DEF Joined, clientVars, Registered
  <2> QED BY <2>1, <2>2
<1>2. ASSUME HubOp PROVE (Joined /\ LastWordKept)'
  <2>1. ops # <<>> /\ ops' = Tail(ops) /\ members' = Apply(Head(ops), members)
    BY <1>2 DEF HubOp
  <2>2. UNCHANGED <<serve, reader, posting, subs, early>> BY <1>2 DEF HubOp, clientVars
  <2>3. \A c \in Conn, r \in Room : Settled(c, r)' <=> Settled(c, r)
    BY <2>1, SettledTail
  <2>4. LastWordKept' BY <2>2, <2>3 DEF LastWordKept, WillBeIn, Registered
  <2>5. Joined' BY <2>2 DEF Joined, Registered
  <2> QED BY <2>4, <2>5
<1>3. ASSUME HubPublish PROVE (Joined /\ LastWordKept)'
  BY <1>1, <1>3 DEF HubPublish
<1>4. ASSUME NEW p \in Publisher, Accept(p) PROVE (Joined /\ LastWordKept)'
  BY <1>1, <1>4 DEF Accept
<1>5. ASSUME Stop PROVE (Joined /\ LastWordKept)'
  <2>1. Joined' BY <1>5 DEF Stop, Joined, Registered, HubTypeOK
  <2>2. /\ ops' = <<>> /\ \A r \in Room : members'[r] = {}
        /\ \A c \in Conn : posting'[c] = NULL /\ subs'[c] = {}
    BY <1>5 DEF Stop
  <2>3. Len(ops') = 0 BY <2>2, EmptySeq
  <2>4. LastWordKept' BY <2>2, <2>3 DEF LastWordKept, WillBeIn, Settled
  <2> QED BY <2>1, <2>4
<1> QED BY <1>1, <1>2, <1>3, <1>4, <1>5

-----------------------------------------------------------------------------
(* The dispatcher *)

NoticeTypeOK ==
    /\ inbox \in Seq(Notice) /\ Len(inbox) <= InCap
    /\ saving \in [Publisher -> Notice \cup {NULL}]
    /\ stored \subseteq Notice /\ failed \subseteq Notice
    /\ sent \subseteq Notice /\ cut \subseteq Notice

\* Notices are neither NULL nor the greeting.
LEMMA NoticeFacts == NULL \notin Notice /\ Hello \notin Notice /\ Notice \subseteq Event
BY HubAssumption, NotifierAssumption

\* The dispatcher keeps its types.
LEMMA NoticeTypeNext ==
  ASSUME NoticeTypeOK, [Next]_vars
  PROVE  NoticeTypeOK'
<1> USE NotifierAssumption, NoticeFacts DEF NoticeTypeOK
<1>1. ASSUME NEW p \in Publisher, NEW n \in Notice, Enqueue(p, n) PROVE NoticeTypeOK'
  <2>1. CASE Len(inbox) < InCap /\ inbox' = Append(inbox, n) /\ UNCHANGED saving
    BY <1>1, <2>1 DEF Enqueue
  <2>2. CASE saving' = [saving EXCEPT ![p] = n] /\ UNCHANGED inbox
    BY <1>1, <2>2 DEF Enqueue
  <2> QED BY <1>1, <2>1, <2>2 DEF Enqueue
<1>2. ASSUME NEW p \in Publisher, Persist(p) PROVE NoticeTypeOK'
  BY <1>2 DEF Persist
<1>3. ASSUME NEW p \in Publisher, PersistFails(p) PROVE NoticeTypeOK'
  BY <1>3 DEF PersistFails
<1>4. ASSUME Receive PROVE NoticeTypeOK'
  <2>1. Head(inbox) \in Notice /\ Tail(inbox) \in Seq(Notice) /\ Len(Tail(inbox)) <= InCap
    BY <1>4, HeadTailProperties DEF Receive
  <2> QED BY <1>4, <2>1 DEF Receive
<1>5. ASSUME Restart PROVE NoticeTypeOK'
  <2>1. Waiting \subseteq Notice /\ <<>> \in Seq(Notice) /\ Len(<<>>) = 0
    BY EmptySeq DEF Waiting
  <2> QED BY <1>5, <2>1 DEF Restart
<1>6. ASSUME UNCHANGED noticeVars PROVE NoticeTypeOK'
  BY <1>6 DEF noticeVars
<1> QED BY <1>1, <1>2, <1>3, <1>4, <1>5, <1>6 DEF Next, vars, Broadcast

\* The types of hub and dispatcher together.
LEMMA TypeNext ==
  ASSUME TypeOK, [Next]_vars
  PROVE  TypeOK'
<1>1. HubTypeOK /\ NoticeTypeOK BY DEF TypeOK, NoticeTypeOK
<1>2. NoticeTypeOK' BY <1>1, NoticeTypeNext
<1>3. HubTypeOK'
  <2>1. ASSUME NEW p \in Publisher, Persist(p) PROVE HubTypeOK'
    <3>1. saving[p] \in Event BY <1>1, <2>1, NoticeFacts DEF Persist, NoticeTypeOK
    <3> QED BY <1>1, <2>1, <3>1 DEF Persist, HubTypeOK, clientVars
  <2>2. ASSUME NEW p \in Publisher, NEW e \in Event, Broadcast(p, e) PROVE HubTypeOK'
    BY <1>1, <2>2, HubTypeOthers DEF Broadcast
  <2>3. ASSUME HubNext PROVE HubTypeOK' BY <1>1, <2>3, HubTypeNext
  <2>4. ASSUME Restart PROVE HubTypeOK' BY <1>1, <2>4, HubTypeOthers DEF Restart
  <2>5. ASSUME UNCHANGED hubVars PROVE HubTypeOK' BY <1>1, <2>5, HubTypeOthers
  <2> QED
    BY <2>1, <2>2, <2>3, <2>4, <2>5 DEF Next, vars, Enqueue, PersistFails, Receive
<1> QED BY <1>2, <1>3 DEF TypeOK, NoticeTypeOK

\* The types of the initial states.
LEMMA TypeInit == ASSUME Init PROVE TypeOK
<1>1. HubTypeOK BY HubTypeInit DEF Init
<1>2. <<>> \in Seq(Notice) /\ Len(<<>>) = 0 BY EmptySeq
<1> QED BY <1>1, <1>2, NotifierAssumption DEF Init, TypeOK

\* The hub's membership, whatever the dispatcher does.
LEMMA MembershipNext ==
  ASSUME TypeOK, Joined, LastWordKept, [Next]_vars
  PROVE  (Joined /\ LastWordKept)'
<1>1. HubTypeOK BY DEF TypeOK
<1>2. ASSUME HubNext PROVE (Joined /\ LastWordKept)'
  BY <1>1, <1>2, JoinedNext, LastWordNext, LastWordOthers DEF HubNext
<1>3. ASSUME Restart PROVE (Joined /\ LastWordKept)'
  BY <1>1, <1>3, LastWordOthers DEF Restart
<1>4. ASSUME UNCHANGED <<members, ops, clientVars>> PROVE (Joined /\ LastWordKept)'
  BY <1>1, <1>4, LastWordOthers
<1> QED
  BY <1>2, <1>3, <1>4
     DEF Next, vars, hubVars, Enqueue, Broadcast, Publish, Persist, PersistFails, Receive

\* Types of all variables, the bounds of all channels and buffers among them: no
\* client's buffer, nor the hub's and the dispatcher's channels, outgrow their limit.
THEOREM TypeOKHolds == Spec => []TypeOK
<1>1. Init => TypeOK BY TypeInit
<1>2. TypeOK /\ [Next]_vars => TypeOK' BY TypeNext
<1> QED BY <1>1, <1>2, PTL DEF Spec

\* The hub's rooms follow the last word of every client, for any number of clients
\* and rooms and any capacities.
THEOREM LastWordKeptHolds == Spec => []LastWordKept
<1>1. Init => TypeOK /\ Joined /\ LastWordKept
  <2> SUFFICES ASSUME Init PROVE TypeOK /\ Joined /\ LastWordKept
    OBVIOUS
  <2>1. TypeOK BY TypeInit
  <2>2. Joined BY DEF Init, HubInit, Joined, Registered
  <2>3. Len(ops) = 0 BY EmptySeq DEF Init, HubInit
  <2>4. LastWordKept
    BY <2>3 DEF Init, HubInit, LastWordKept, WillBeIn, Settled
  <2> QED BY <2>1, <2>2, <2>4
<1>2. TypeOK /\ Joined /\ LastWordKept /\ [Next]_vars => (TypeOK /\ Joined /\ LastWordKept)'
  <2> SUFFICES ASSUME TypeOK /\ Joined /\ LastWordKept /\ [Next]_vars
               PROVE  (TypeOK /\ Joined /\ LastWordKept)'
    OBVIOUS
  <2>1. TypeOK' BY TypeNext
  <2>2. (Joined /\ LastWordKept)' BY MembershipNext
  <2> QED BY <2>1, <2>2
<1> QED BY <1>1, <1>2, PTL DEF Spec

\* A frame that is new in a buffer comes from the channel of publications.
LEMMA ToastsNext ==
  ASSUME TypeOK, ToastsAreStored, [Next]_vars
  PROVE  ToastsAreStored'
<1> USE NoticeFacts DEF ToastsAreStored
<1>0. HubTypeOK /\ NoticeTypeOK BY DEF TypeOK, NoticeTypeOK
<1>1. ASSUME NEW c \in Conn, Write(c), UNCHANGED noticeVars PROVE ToastsAreStored'
  <2>1. /\ \A d \in Conn : d # c => send'[d] = send[d]
        /\ send[c] \in Seq(Event \cup {Hello}) /\ send[c] # <<>> /\ send'[c] = Tail(send[c])
        /\ UNCHANGED <<pub, pubs, stored>>
    BY <1>0, <1>1 DEF Write, HubTypeOK, noticeVars
  <2>2. \A i \in 1..Len(send'[c]) : i + 1 \in 1..Len(send[c]) /\ send'[c][i] = send[c][i + 1]
    BY <2>1, HeadTailProperties
  <2> QED BY <2>1, <2>2
<1>2. ASSUME NEW c \in Conn, Greet(c), UNCHANGED noticeVars PROVE ToastsAreStored'
  <2>1. UNCHANGED <<pub, pubs, stored>> BY <1>2 DEF Greet, noticeVars
  <2>2. CASE send' = send BY <2>1, <2>2
  <2>3. CASE send' = [send EXCEPT ![c] = Append(@, Hello)]
    <3>1. \A d \in Conn : d # c => send'[d] = send[d] BY <2>3
    <3>2. /\ send[c] \in Seq(Event \cup {Hello}) /\ send'[c] = Append(send[c], Hello)
      BY <1>0, <2>3 DEF HubTypeOK
    <3>3. \A i \in 1..Len(send'[c]) :
            send'[c][i] = Hello \/ (i \in 1..Len(send[c]) /\ send'[c][i] = send[c][i])
      BY <3>2
    <3> QED BY <2>1, <3>1, <3>3
  <2> QED BY <1>2, <2>2, <2>3 DEF Greet
<1>3. ASSUME HubPublish, UNCHANGED noticeVars PROVE ToastsAreStored'
  <2>1. UNCHANGED <<pub, stored>> /\ pubs' = Tail(pubs) /\ pubs # <<>>
    BY <1>3 DEF HubPublish, noticeVars
  <2>2. /\ pubs \in Seq(Event) /\ 1 \in 1..Len(pubs) /\ Head(pubs) = pubs[1]
        /\ \A i \in 1..Len(pubs') : i + 1 \in 1..Len(pubs) /\ pubs'[i] = pubs[i + 1]
    BY <1>0, <2>1, HeadTailProperties DEF HubTypeOK
  <2>3. Head(pubs) \in Event /\ (Head(pubs) \in Notice => Head(pubs) \in stored)
    BY <2>2
  <2> DEFINE e == Head(pubs)
  <2>4. ASSUME NEW c \in Conn, NEW i \in 1..Len(send'[c])
        PROVE  send'[c][i] = e \/ (i \in 1..Len(send[c]) /\ send'[c][i] = send[c][i])
    <3>1. send[c] \in Seq(Event \cup {Hello}) BY <1>0 DEF HubTypeOK
    <3>2. send'[c] = Append(send[c], e) \/ send'[c] = send[c]
      BY <1>3 DEF HubPublish
    <3> HIDE DEF e
    <3> QED BY <3>1, <3>2, <2>3, <2>4 DEF e
  <2> HIDE DEF e
  <2> QED BY <2>1, <2>2, <2>3, <2>4 DEF e
<1>4. ASSUME NEW p \in Publisher, Accept(p), UNCHANGED noticeVars PROVE ToastsAreStored'
  <2>1. /\ pubs' = Append(pubs, pub[p]) /\ pub' = [pub EXCEPT ![p] = NULL]
        /\ UNCHANGED <<send, stored>> /\ pubs \in Seq(Event) /\ pub[p] \in Event
    BY <1>0, <1>4 DEF Accept, HubTypeOK, noticeVars
  <2>2. \A i \in 1..Len(pubs') :
          pubs'[i] = pub[p] \/ (i \in 1..Len(pubs) /\ pubs'[i] = pubs[i])
    BY <2>1
  <2>3. \A q \in Publisher : pub'[q] = NULL \/ pub'[q] = pub[q] BY <1>0, <2>1 DEF HubTypeOK
  <2> QED BY <2>1, <2>2, <2>3
<1>5. ASSUME NEW p \in Publisher, Persist(p) PROVE ToastsAreStored'
  <2>1. /\ UNCHANGED <<pubs, send>> /\ stored' = stored \cup {saving[p]}
        /\ pub' = [pub EXCEPT ![p] = saving[p]]
    BY <1>5 DEF Persist
  <2>2. \A q \in Publisher : pub'[q] = saving[p] \/ pub'[q] = pub[q]
    BY <1>0, <2>1 DEF HubTypeOK
  <2> QED BY <2>1, <2>2
<1>6. ASSUME NEW p \in Publisher, NEW e \in Event, Broadcast(p, e) PROVE ToastsAreStored'
  <2>1. UNCHANGED <<pubs, send, stored>> /\ pub' = [pub EXCEPT ![p] = e] /\ e \notin Notice
    BY <1>6 DEF Broadcast, Publish, noticeVars
  <2>2. \A q \in Publisher : pub'[q] = e \/ pub'[q] = pub[q] BY <1>0, <2>1 DEF HubTypeOK
  <2> QED BY <2>1, <2>2
<1>7. ASSUME Restart PROVE ToastsAreStored'
  <2>1. /\ pubs' = <<>> /\ Len(<<>>) = 0 /\ stored' = stored
        /\ \A p \in Publisher : pub'[p] = NULL
    BY <1>7, EmptySeq DEF Restart, Stop
  <2>2. \A c \in Conn : send'[c] = <<>> BY <1>7 DEF Restart, Stop
  <2> QED BY <2>1, <2>2
<1>8. ASSUME UNCHANGED <<pub, pubs, send, stored>> PROVE ToastsAreStored'
  BY <1>8
<1> QED
  BY <1>1, <1>2, <1>3, <1>4, <1>5, <1>6, <1>7, <1>8
     DEF Next, vars, hubVars, clientVars, noticeVars, HubNext, Serving, Upgrade, Name, Register,
         Frame, Post, Lose, ReadFails, Leave, ReaderEnds, Ping, HubOp, Enqueue, PersistFails,
         Receive

\* A client is only ever shown notices that are in the table, however many goroutines
\* store and publish them and whatever fails.
THEOREM ToastsAreStoredHolds == Spec => []ToastsAreStored
<1>1. Init => TypeOK /\ ToastsAreStored
  <2> SUFFICES ASSUME Init PROVE TypeOK /\ ToastsAreStored
    OBVIOUS
  <2>1. Len(<<>>) = 0 BY EmptySeq
  <2> QED BY <2>1, TypeInit, NoticeFacts DEF Init, HubInit, ToastsAreStored
<1>2. TypeOK /\ ToastsAreStored /\ [Next]_vars => (TypeOK /\ ToastsAreStored)'
  BY TypeNext, ToastsNext
<1> QED BY <1>1, <1>2, PTL DEF Spec

\* A notice that a service hands over joins those that wait.
LEMMA WaitsOnEnqueue ==
  ASSUME NoticeTypeOK, NoticesKept, NEW p \in Publisher, NEW n \in Notice, Enqueue(p, n)
  PROVE  /\ n \notin sent \cup Waiting \cup stored \cup failed \cup cut
         /\ sent' = sent \cup {n} /\ Waiting' = Waiting \cup {n}
<1> USE NoticeFacts DEF NoticeTypeOK
<1>1. n \notin sent /\ n \notin Waiting \cup stored \cup failed \cup cut /\ sent' = sent \cup {n}
      /\ saving[p] = NULL
  BY DEF Enqueue, NoticesKept, Free
<1>2. CASE inbox' = Append(inbox, n) /\ UNCHANGED saving
  <2>1. /\ Len(inbox') = Len(inbox) + 1 /\ Len(inbox) \in Nat
        /\ inbox'[Len(inbox) + 1] = n /\ \A i \in 1..Len(inbox) : inbox'[i] = inbox[i]
    BY <1>2
  <2>2. \A m \in Notice : (\E i \in 1..Len(inbox') : inbox'[i] = m)
                            <=> m = n \/ \E i \in 1..Len(inbox) : inbox[i] = m
    BY <2>1
  <2> QED BY <1>1, <1>2, <2>2 DEF Waiting
<1>3. CASE saving' = [saving EXCEPT ![p] = n] /\ UNCHANGED inbox
  <2>1. saving'[p] = n /\ \A q \in Publisher : q # p => saving'[q] = saving[q] BY <1>3
  <2>2. \A m \in Notice : (\E q \in Publisher : saving'[q] = m)
                            <=> m = n \/ \E q \in Publisher : saving[q] = m
    BY <1>1, <2>1
  <2> QED BY <1>1, <1>3, <2>2 DEF Waiting
<1> QED BY <1>1, <1>2, <1>3 DEF Enqueue

\* One whose insertion is over has waited, and does no longer.
LEMMA WaitsNoMore ==
  ASSUME NoticeTypeOK, NoticesKept, NEW p \in Publisher, saving[p] # NULL, inbox' = inbox,
         saving' = [saving EXCEPT ![p] = NULL]
  PROVE  saving[p] \in Waiting /\ Waiting' = Waiting \ {saving[p]}
<1> USE NoticeFacts DEF NoticeTypeOK
<1>1. saving'[p] = NULL /\ \A q \in Publisher : q # p => saving'[q] = saving[q] OBVIOUS
<1>2. \A m \in Notice : (\E i \in 1..Len(inbox) : inbox[i] = m) => m # saving[p]
  BY DEF NoticesKept
<1>3. \A m \in Notice : (\E q \in Publisher : saving'[q] = m)
                          <=> m # saving[p] /\ \E q \in Publisher : saving[q] = m
  BY <1>1 DEF NoticesKept
<1> QED BY <1>2, <1>3 DEF Waiting

\* One that the worker receives goes on waiting.
LEMMA WaitsOnReceive ==
  ASSUME NoticeTypeOK, Receive
  PROVE  Waiting' = Waiting
<1> USE NoticeFacts, NotifierAssumption DEF NoticeTypeOK
<1>1. /\ inbox' = Tail(inbox) /\ inbox # <<>> /\ saving[Worker] = NULL
      /\ saving' = [saving EXCEPT ![Worker] = Head(inbox)]
  BY DEF Receive, Free
<1>2. /\ Len(inbox) \in Nat \ {0} /\ Len(inbox') = Len(inbox) - 1
      /\ Head(inbox) = inbox[1] /\ inbox[1] \in Notice
      /\ \A i \in 1..Len(inbox') : inbox'[i] = inbox[i + 1]
  BY <1>1, HeadTailProperties
<1>3. saving'[Worker] = inbox[1] /\ \A q \in Publisher : q # Worker => saving'[q] = saving[q]
  BY <1>1, <1>2
<1>4. \A m \in Notice : (\E i \in 1..Len(inbox) : inbox[i] = m)
                          <=> m = inbox[1] \/ \E i \in 1..Len(inbox') : inbox'[i] = m
  <2>1. ASSUME NEW i \in 1..Len(inbox), i # 1
        PROVE  \E j \in 1..Len(inbox') : inbox'[j] = inbox[i]
    <3>1. i - 1 \in 1..Len(inbox') /\ inbox'[i - 1] = inbox[i] BY <1>2, <2>1
    <3> QED BY <3>1
  <2>2. \A i \in 1..Len(inbox') : i + 1 \in 1..Len(inbox) BY <1>2
  <2>3. 1 \in 1..Len(inbox) BY <1>2
  <2> QED BY <1>2, <2>1, <2>2, <2>3
<1>5. \A m \in Notice : (\E q \in Publisher : saving'[q] = m)
                          <=> m = inbox[1] \/ \E q \in Publisher : saving[q] = m
  BY <1>1, <1>3
<1> QED BY <1>4, <1>5 DEF Waiting

\* Nothing waits after a restart.
LEMMA WaitsOnRestart == ASSUME Restart PROVE Waiting' = {}
<1>1. inbox' = <<>> /\ Len(<<>>) = 0 BY EmptySeq DEF Restart
<1>2. \A q \in Publisher : saving'[q] = NULL BY DEF Restart
<1> QED BY <1>1, <1>2, NoticeFacts DEF Waiting

\* Every step of the dispatcher keeps account of the notices.
LEMMA NoticesNext ==
  ASSUME NoticeTypeOK, NoticesKept, [Next]_vars
  PROVE  NoticesKept'
<1> USE NoticeFacts, NotifierAssumption DEF NoticeTypeOK
<1>1. ASSUME NEW p \in Publisher, NEW n \in Notice, Enqueue(p, n) PROVE NoticesKept'
  <2>1. /\ n \notin sent \cup Waiting \cup stored \cup failed \cup cut
        /\ sent' = sent \cup {n} /\ Waiting' = Waiting \cup {n}
        /\ UNCHANGED <<stored, failed, cut>> /\ saving[p] = NULL
    BY <1>1, WaitsOnEnqueue DEF Enqueue, Free
  <2>2. /\ \A i \in 1..Len(inbox) : inbox[i] # n
        /\ \A q \in Publisher : saving[q] # n
    BY <2>1 DEF Waiting
  <2>3. CASE inbox' = Append(inbox, n) /\ UNCHANGED saving
    <3>1. /\ Len(inbox') = Len(inbox) + 1 /\ Len(inbox) \in Nat
          /\ inbox'[Len(inbox) + 1] = n /\ \A i \in 1..Len(inbox) : inbox'[i] = inbox[i]
      BY <2>3
    <3>2. \A i, j \in 1..Len(inbox') : inbox'[i] = inbox'[j] => i = j
      BY <2>2, <3>1 DEF NoticesKept
    <3>3. \A i \in 1..Len(inbox'), q \in Publisher : inbox'[i] # saving'[q]
      BY <2>2, <2>3, <3>1 DEF NoticesKept
    <3> QED BY <2>1, <2>3, <3>2, <3>3 DEF NoticesKept
  <2>4. CASE saving' = [saving EXCEPT ![p] = n] /\ UNCHANGED inbox
    <3>1. saving'[p] = n /\ \A q \in Publisher : q # p => saving'[q] = saving[q]
      BY <2>4
    <3> QED BY <2>1, <2>2, <2>4, <3>1 DEF NoticesKept
  <2> QED BY <1>1, <2>3, <2>4 DEF Enqueue
<1>2. ASSUME NEW p \in Publisher, saving[p] # NULL, inbox' = inbox,
             saving' = [saving EXCEPT ![p] = NULL], sent' = sent, cut' = cut,
             stored' \cup failed' = stored \cup failed \cup {saving[p]}
      PROVE NoticesKept'
  <2>1. saving'[p] = NULL /\ \A q \in Publisher : q # p => saving'[q] = saving[q]
    BY <1>2
  <2>2. saving[p] \in Waiting /\ Waiting' = Waiting \ {saving[p]} BY <1>2, WaitsNoMore
  <2>3. sent' = Waiting' \cup stored' \cup failed' \cup cut'
    BY <1>2, <2>2 DEF NoticesKept
  <2>4. Waiting' \cap (stored' \cup failed' \cup cut') = {}
    BY <1>2, <2>2 DEF NoticesKept
  <2>5. \A q, w \in Publisher : saving'[q] # NULL /\ saving'[q] = saving'[w] => q = w
    BY <2>1 DEF NoticesKept
  <2>6. \A i \in 1..Len(inbox'), q \in Publisher : inbox'[i] # saving'[q]
    BY <1>2, <2>1 DEF NoticesKept
  <2> QED BY <1>2, <2>3, <2>4, <2>5, <2>6 DEF NoticesKept
<1>3. ASSUME NEW p \in Publisher, Persist(p) PROVE NoticesKept'
  BY <1>2, <1>3 DEF Persist
<1>4. ASSUME NEW p \in Publisher, PersistFails(p) PROVE NoticesKept'
  BY <1>2, <1>4 DEF PersistFails
<1>5. ASSUME Receive PROVE NoticesKept'
  <2>1. /\ inbox' = Tail(inbox) /\ inbox # <<>> /\ saving[Worker] = NULL
        /\ saving' = [saving EXCEPT ![Worker] = Head(inbox)]
        /\ UNCHANGED <<stored, failed, sent, cut>>
    BY <1>5 DEF Receive, Free
  <2>2. /\ Len(inbox) \in Nat \ {0} /\ Len(inbox') = Len(inbox) - 1
        /\ Head(inbox) = inbox[1] /\ inbox[1] \in Notice
        /\ \A i \in 1..Len(inbox') : inbox'[i] = inbox[i + 1]
    BY <2>1, HeadTailProperties
  <2>3. saving'[Worker] = inbox[1] /\ \A q \in Publisher : q # Worker => saving'[q] = saving[q]
    BY <2>1, <2>2
  <2>4. Waiting' = Waiting BY <1>5, WaitsOnReceive
  <2>5. \A i, j \in 1..Len(inbox') : inbox'[i] = inbox'[j] => i = j
    BY <2>2 DEF NoticesKept
  <2>6. \A q, w \in Publisher : saving'[q] # NULL /\ saving'[q] = saving'[w] => q = w
    <3>1. \A q \in Publisher : saving[q] # inbox[1] BY <2>2 DEF NoticesKept
    <3> QED BY <2>3, <3>1 DEF NoticesKept
  <2>7. \A i \in 1..Len(inbox'), q \in Publisher : inbox'[i] # saving'[q]
    <3>1. \A i \in 1..Len(inbox') : i + 1 \in 1..Len(inbox) /\ i + 1 # 1 BY <2>2
    <3>2. 1 \in 1..Len(inbox) BY <2>2
    <3> QED BY <2>2, <2>3, <3>1, <3>2 DEF NoticesKept
  <2> QED BY <2>1, <2>4, <2>5, <2>6, <2>7 DEF NoticesKept
<1>6. ASSUME Restart PROVE NoticesKept'
  <2>1. /\ inbox' = <<>> /\ Len(<<>>) = 0 /\ cut' = cut \cup Waiting
        /\ UNCHANGED <<stored, failed, sent>>
    BY <1>6, EmptySeq DEF Restart
  <2>2. \A q \in Publisher : saving'[q] = NULL BY <1>6 DEF Restart
  <2>3. Waiting' = {} BY <1>6, WaitsOnRestart
  <2> QED BY <2>1, <2>2, <2>3 DEF NoticesKept
<1>7. ASSUME UNCHANGED noticeVars PROVE NoticesKept'
  BY <1>7 DEF noticeVars, NoticesKept, Waiting
<1> QED BY <1>1, <1>3, <1>4, <1>5, <1>6, <1>7 DEF Next, vars, Broadcast

\* No notice that a service hands over is lost or stored twice while the server runs,
\* however full the channel and however many goroutines store notices at once.
THEOREM NoticesKeptHolds == Spec => []NoticesKept
<1>1. Init => NoticeTypeOK /\ NoticesKept
  <2> SUFFICES ASSUME Init PROVE NoticeTypeOK /\ NoticesKept
    OBVIOUS
  <2>1. NoticeTypeOK BY TypeInit DEF TypeOK, NoticeTypeOK
  <2>2. Len(inbox) = 0 /\ \A q \in Publisher : saving[q] = NULL BY EmptySeq DEF Init
  <2>3. Waiting = {} BY <2>2, NoticeFacts DEF Waiting
  <2> QED BY <2>1, <2>2, <2>3 DEF Init, NoticesKept
<1>2. NoticeTypeOK /\ NoticesKept /\ [Next]_vars => (NoticeTypeOK /\ NoticesKept)'
  BY NoticeTypeNext, NoticesNext
<1> QED BY <1>1, <1>2, PTL DEF Spec

-----------------------------------------------------------------------------
(* The notice board.                                                        *)

\* A notice on its way to the clients has its row, is in one place, and the goroutine
\* that inserts one has handed over the one before.
TrailKept ==
    /\ OnTheirWay \subseteq stored
    /\ \A i, j \in 1..Len(pubs) : pubs[i] \in Notice /\ pubs[i] = pubs[j] => i = j
    /\ \A p, q \in Publisher : pub[p] \in Notice /\ pub[p] = pub[q] => p = q
    /\ \A p \in Publisher, i \in 1..Len(pubs) : pub[p] \in Notice => pub[p] # pubs[i]
    /\ \A p \in Publisher : saving[p] # NULL => pub[p] = NULL

BoardInv == TypeOK /\ NoticesKept /\ TrailKept

\* The parts of the types that matter here.
LEMMA TrailTypes ==
  ASSUME TypeOK
  PROVE  /\ pubs \in Seq(Event) /\ pub \in [Publisher -> Event \cup {NULL}]
         /\ send \in [Conn -> Seq(Event \cup {Hello})]
         /\ saving \in [Publisher -> Notice \cup {NULL}] /\ NoticeTypeOK
BY DEF TypeOK, HubTypeOK, NoticeTypeOK

\* A notice that was stored is on its way.
LEMMA TrailOnPersist ==
  ASSUME BoardInv, NEW p \in Publisher, Persist(p)
  PROVE  /\ saving[p] \in Waiting /\ saving[p] \in Notice
         /\ Waiting' = Waiting \ {saving[p]} /\ OnTheirWay' = OnTheirWay \cup {saving[p]}
         /\ TrailKept'
<1> USE TrailTypes, NoticeFacts DEF BoardInv
<1> DEFINE n == saving[p]
<1>1. n \in Waiting /\ Waiting' = Waiting \ {n} BY WaitsNoMore DEF Persist
<1>2. n \in Notice /\ pub[p] = NULL /\ n \notin stored
  BY <1>1 DEF Persist, TrailKept, NoticesKept
<1>3. /\ pub'[p] = n /\ pubs' = pubs /\ stored' = stored \cup {n}
      /\ \A q \in Publisher : q # p => pub'[q] = pub[q] /\ saving'[q] = saving[q]
      /\ saving'[p] = NULL
  BY DEF Persist
<1>4. n \notin OnTheirWay BY <1>2 DEF TrailKept
<1>5. /\ \A q \in Publisher : pub[q] # n
      /\ \A i \in 1..Len(pubs) : pubs[i] # n
  BY <1>2, <1>4 DEF OnTheirWay
<1> HIDE DEF n
<1>6. OnTheirWay' = OnTheirWay \cup {n}
  <2>1. \A m \in Notice : (\E q \in Publisher : pub'[q] = m)
                            <=> m = n \/ \E q \in Publisher : pub[q] = m
    BY <1>2, <1>3
  <2> QED BY <1>2, <1>3, <2>1 DEF OnTheirWay
<1>7. TrailKept'
  <2>1. (OnTheirWay \subseteq stored)' BY <1>3, <1>6 DEF TrailKept
  <2>2. \A q, w \in Publisher : pub'[q] \in Notice /\ pub'[q] = pub'[w] => q = w
    BY <1>3, <1>5 DEF TrailKept
  <2>3. \A q \in Publisher, i \in 1..Len(pubs) : pub'[q] \in Notice => pub'[q] # pubs[i]
    BY <1>3, <1>5 DEF TrailKept
  <2>4. \A q \in Publisher : saving'[q] # NULL => pub'[q] = NULL BY <1>3 DEF TrailKept
  <2> QED BY <1>3, <2>1, <2>2, <2>3, <2>4 DEF TrailKept
<1> QED BY <1>1, <1>2, <1>6, <1>7 DEF n

\* Taken over by the hub, it still is.
LEMMA TrailOnAccept ==
  ASSUME BoardInv, NEW p \in Publisher, Accept(p), UNCHANGED noticeVars
  PROVE  OnTheirWay' = OnTheirWay /\ TrailKept'
<1> USE TrailTypes, NoticeFacts DEF BoardInv
<1>1. /\ pub[p] \in Event /\ pubs' = Append(pubs, pub[p]) /\ pub'[p] = NULL
      /\ \A q \in Publisher : q # p => pub'[q] = pub[q]
      /\ UNCHANGED <<saving, stored>>
  BY DEF Accept, noticeVars
<1>2. PICK e \in Event : e = pub[p] BY <1>1
<1>3. /\ Len(pubs') = Len(pubs) + 1 /\ Len(pubs) \in Nat
      /\ pubs'[Len(pubs) + 1] = e /\ \A i \in 1..Len(pubs) : pubs'[i] = pubs[i]
  BY <1>1, <1>2
<1>4. OnTheirWay' = OnTheirWay
  <2>1. \A m \in Notice : (\E i \in 1..Len(pubs') : pubs'[i] = m)
                            <=> m = e \/ \E i \in 1..Len(pubs) : pubs[i] = m
    BY <1>3
  <2>2. \A m \in Notice : (\E q \in Publisher : pub[q] = m)
                            <=> m = e \/ \E q \in Publisher : pub'[q] = m
    BY <1>1, <1>2
  <2> QED BY <2>1, <2>2 DEF OnTheirWay
<1>5. \A i, j \in 1..Len(pubs') : pubs'[i] \in Notice /\ pubs'[i] = pubs'[j] => i = j
  BY <1>2, <1>3 DEF TrailKept
<1>6. \A q, w \in Publisher : pub'[q] \in Notice /\ pub'[q] = pub'[w] => q = w
  BY <1>1 DEF TrailKept
<1>7. \A q \in Publisher, i \in 1..Len(pubs') : pub'[q] \in Notice => pub'[q] # pubs'[i]
  <2>1. \A q \in Publisher : pub'[q] \in Notice => q # p /\ pub'[q] = pub[q] /\ pub[q] # e
    BY <1>1, <1>2 DEF TrailKept
  <2> QED BY <1>3, <2>1 DEF TrailKept
<1>8. (OnTheirWay \subseteq stored)' BY <1>1, <1>4 DEF TrailKept
<1>9. \A q \in Publisher : saving'[q] # NULL => pub'[q] = NULL BY <1>1 DEF TrailKept
<1> QED BY <1>4, <1>5, <1>6, <1>7, <1>8, <1>9 DEF TrailKept

\* Fanned out, it no longer is.
LEMMA TrailOnPublish ==
  ASSUME BoardInv, HubPublish, UNCHANGED noticeVars
  PROVE  /\ Head(pubs) \in Event /\ OnTheirWay' = OnTheirWay \ {Head(pubs)} /\ TrailKept'
         /\ Head(pubs) \in Notice => Head(pubs) \in OnTheirWay
<1> USE TrailTypes, NoticeFacts DEF BoardInv
<1>1. pubs # <<>> /\ pubs' = Tail(pubs) /\ UNCHANGED <<pub, saving, stored>>
  BY DEF HubPublish, noticeVars
<1>2. /\ Len(pubs) \in Nat \ {0} /\ Len(pubs') = Len(pubs) - 1 /\ 1 \in 1..Len(pubs)
      /\ \A i \in 1..Len(pubs') : i + 1 \in 1..Len(pubs) /\ pubs'[i] = pubs[i + 1]
  BY <1>1, HeadTailProperties
<1>3. PICK e \in Event : e = Head(pubs) /\ e = pubs[1] BY <1>1, <1>2, HeadTailProperties
<1>4. e \in Notice => e \in OnTheirWay BY <1>2, <1>3 DEF OnTheirWay
<1>5. OnTheirWay' = OnTheirWay \ {e}
  <2>1. ASSUME NEW m \in Notice, m # e
        PROVE  (\E i \in 1..Len(pubs') : pubs'[i] = m) <=> \E i \in 1..Len(pubs) : pubs[i] = m
    <3>1. ASSUME NEW i \in 1..Len(pubs), pubs[i] = m PROVE \E j \in 1..Len(pubs') : pubs'[j] = m
      <4>1. i # 1 BY <1>3, <2>1, <3>1
      <4>2. i - 1 \in 1..Len(pubs') /\ pubs'[i - 1] = pubs[i] BY <1>2, <4>1
      <4> QED BY <3>1, <4>2
    <3> QED BY <1>2, <3>1
  <2>2. e \in Notice => \A i \in 1..Len(pubs') : pubs'[i] # e
    <3>1. \A i \in 1..Len(pubs') : i + 1 # 1 BY <1>2
    <3> QED BY <1>2, <1>3, <3>1 DEF TrailKept
  <2>3. e \in Notice => \A q \in Publisher : pub[q] # e BY <1>2, <1>3 DEF TrailKept
  <2> QED BY <1>1, <2>1, <2>2, <2>3 DEF OnTheirWay
<1>6. \A i, j \in 1..Len(pubs') : pubs'[i] \in Notice /\ pubs'[i] = pubs'[j] => i = j
  <2>1. ASSUME NEW i \in 1..Len(pubs'), NEW j \in 1..Len(pubs'),
               pubs'[i] \in Notice, pubs'[i] = pubs'[j]
        PROVE  i = j
    <3>1. i + 1 = j + 1 BY <1>2, <2>1 DEF TrailKept
    <3> QED BY <3>1
  <2> QED BY <2>1
<1>7. \A q \in Publisher, i \in 1..Len(pubs') : pub[q] \in Notice => pub[q] # pubs'[i]
  BY <1>2 DEF TrailKept
<1>8. (OnTheirWay \subseteq stored)' BY <1>1, <1>5 DEF TrailKept
<1>9. TrailKept' BY <1>1, <1>6, <1>7, <1>8 DEF TrailKept
<1> QED BY <1>3, <1>4, <1>5, <1>9

\* The other steps leave the notices on their way where they are, but for a restart.
LEMMA TrailOtherwise ==
  ASSUME BoardInv
  PROVE  /\ \A p \in Publisher, n \in Notice : Enqueue(p, n) => OnTheirWay' = OnTheirWay /\ TrailKept'
         /\ \A p \in Publisher : PersistFails(p) => OnTheirWay' = OnTheirWay /\ TrailKept'
         /\ \A p \in Publisher, e \in Event : Broadcast(p, e) => OnTheirWay' = OnTheirWay /\ TrailKept'
         /\ Receive => OnTheirWay' = OnTheirWay /\ TrailKept'
         /\ Restart => OnTheirWay' = {} /\ TrailKept'
         /\ UNCHANGED <<pub, pubs, stored, saving>> => OnTheirWay' = OnTheirWay /\ TrailKept'
<1> USE TrailTypes, NoticeFacts, NotifierAssumption DEF BoardInv
<1>1. ASSUME UNCHANGED <<pub, pubs, stored>>,
             \A p \in Publisher : saving'[p] # NULL => pub[p] = NULL
      PROVE  OnTheirWay' = OnTheirWay /\ TrailKept'
  BY <1>1 DEF OnTheirWay, TrailKept
<1>2. ASSUME NEW p \in Publisher, NEW n \in Notice, Enqueue(p, n)
      PROVE  OnTheirWay' = OnTheirWay /\ TrailKept'
  <2>1. UNCHANGED <<pub, pubs, stored>> BY <1>2 DEF Enqueue, hubVars
  <2>2. pub[p] = NULL /\ (saving' = saving \/ saving' = [saving EXCEPT ![p] = n])
    BY <1>2 DEF Enqueue, Free
  <2>3. \A q \in Publisher : saving'[q] # NULL => pub[q] = NULL BY <2>2 DEF TrailKept
  <2> QED BY <1>1, <2>1, <2>3
<1>3. ASSUME NEW p \in Publisher, PersistFails(p) PROVE OnTheirWay' = OnTheirWay /\ TrailKept'
  <2>1. UNCHANGED <<pub, pubs, stored>> /\ saving' = [saving EXCEPT ![p] = NULL]
    BY <1>3 DEF PersistFails, hubVars
  <2>2. \A q \in Publisher : saving'[q] # NULL => pub[q] = NULL BY <2>1 DEF TrailKept
  <2> QED BY <1>1, <2>1, <2>2
<1>4. ASSUME NEW p \in Publisher, NEW e \in Event, Broadcast(p, e)
      PROVE  OnTheirWay' = OnTheirWay /\ TrailKept'
  <2>1. /\ e \notin Notice /\ pub[p] = NULL /\ saving[p] = NULL /\ pub'[p] = e
        /\ \A q \in Publisher : q # p => pub'[q] = pub[q]
        /\ UNCHANGED <<pubs, stored, saving>>
    BY <1>4 DEF Broadcast, Publish, noticeVars
  <2>2. \A q \in Publisher, m \in Notice : pub'[q] = m <=> pub[q] = m BY <2>1
  <2>3. OnTheirWay' = OnTheirWay BY <2>1, <2>2 DEF OnTheirWay
  <2>4. \A q, w \in Publisher : pub'[q] \in Notice /\ pub'[q] = pub'[w] => q = w
    BY <2>1 DEF TrailKept
  <2>5. \A q \in Publisher, i \in 1..Len(pubs) : pub'[q] \in Notice => pub'[q] # pubs[i]
    BY <2>1 DEF TrailKept
  <2>6. \A q \in Publisher : saving'[q] # NULL => pub'[q] = NULL BY <2>1 DEF TrailKept
  <2>7. (OnTheirWay \subseteq stored)' BY <2>1, <2>3 DEF TrailKept
  <2> QED BY <2>1, <2>3, <2>4, <2>5, <2>6, <2>7 DEF TrailKept
<1>5. ASSUME Receive PROVE OnTheirWay' = OnTheirWay /\ TrailKept'
  <2>1. UNCHANGED <<pub, pubs, stored>> /\ pub[Worker] = NULL
        /\ \A q \in Publisher : q # Worker => saving'[q] = saving[q]
    BY <1>5 DEF Receive, Free, hubVars
  <2>2. \A q \in Publisher : saving'[q] # NULL => pub[q] = NULL BY <2>1 DEF TrailKept
  <2> QED BY <1>1, <2>1, <2>2
<1>6. ASSUME Restart PROVE OnTheirWay' = {} /\ TrailKept'
  <2>1. /\ pubs' = <<>> /\ Len(<<>>) = 0
        /\ \A p \in Publisher : pub'[p] = NULL /\ saving'[p] = NULL
    BY <1>6, EmptySeq DEF Restart, Stop
  <2> QED BY <2>1 DEF OnTheirWay, TrailKept
<1>7. ASSUME UNCHANGED <<pub, pubs, stored, saving>> PROVE OnTheirWay' = OnTheirWay /\ TrailKept'
  BY <1>1, <1>7 DEF TrailKept
<1> QED BY <1>2, <1>3, <1>4, <1>5, <1>6, <1>7

\* Where each notice is, by the sets it belongs to.
LEMMA PhaseIs ==
  ASSUME BoardInv, NEW n \in Notice
  PROVE  /\ Phase \in [Notice -> {"new", "waiting", "kept", "over"}]
         /\ Phase[n] = "new" <=> n \notin sent
         /\ Phase[n] = "waiting" <=> n \in Waiting
         /\ Phase[n] = "kept" <=> n \in OnTheirWay
<1>1. Waiting \subseteq sent /\ OnTheirWay \subseteq sent /\ Waiting \cap OnTheirWay = {}
  BY DEF BoardInv, NoticesKept, TrailKept
<1> QED BY <1>1 DEF Phase

\* The phases follow the sets.
LEMMA PhaseSame ==
  ASSUME sent' = sent, Waiting' = Waiting, OnTheirWay' = OnTheirWay
  PROVE  Phase' = Phase
BY DEF Phase

\* Every step of the dispatcher, its callers and the hub is a step of the board, or none.
LEMMA BoardStep ==
  ASSUME BoardInv, [Next]_vars
  PROVE  [Board!Next]_(Board!vars)
<1> USE TrailTypes, NoticeFacts DEF BoardInv
<1>0. ASSUME Phase' = Phase, UNCHANGED <<stored, send>> PROVE [Board!Next]_(Board!vars)
  BY <1>0 DEF Board!vars
<1>1. ASSUME NEW p \in Publisher, NEW n \in Notice, Enqueue(p, n) PROVE [Board!Next]_(Board!vars)
  <2>1. /\ n \notin sent /\ sent' = sent \cup {n} /\ Waiting' = Waiting \cup {n}
        /\ OnTheirWay' = OnTheirWay /\ UNCHANGED <<stored, send>>
    BY <1>1, WaitsOnEnqueue, TrailOtherwise DEF Enqueue, hubVars
  <2>2. Phase[n] = "new" /\ Phase' = [Phase EXCEPT ![n] = "waiting"] BY <2>1 DEF Phase
  <2> QED BY <2>1, <2>2 DEF Board!Next, Board!HandOver, Board!Moves
<1>2. ASSUME NEW p \in Publisher, Persist(p) PROVE [Board!Next]_(Board!vars)
  <2>1. PICK n \in Notice : n = saving[p] BY <1>2, TrailOnPersist
  <2>2. /\ n \in Waiting /\ Waiting' = Waiting \ {n} /\ OnTheirWay' = OnTheirWay \cup {n}
        /\ sent' = sent /\ send' = send /\ stored' = stored \cup {n}
    BY <1>2, <2>1, TrailOnPersist DEF Persist
  <2>3. Phase[n] = "waiting" BY <2>2, PhaseIs
  <2>4. Phase' = [Phase EXCEPT ![n] = "kept"] BY <2>2 DEF Phase, NoticesKept
  <2> QED BY <2>2, <2>3, <2>4 DEF Board!Next, Board!Keep, Board!Moves
<1>3. ASSUME NEW p \in Publisher, PersistFails(p) PROVE [Board!Next]_(Board!vars)
  <2>1. saving[p] \in Waiting /\ Waiting' = Waiting \ {saving[p]}
    BY <1>3, WaitsNoMore DEF PersistFails
  <2>2. PICK n \in Notice : n = saving[p] BY <2>1 DEF Waiting
  <2>3. /\ n \in Waiting /\ Waiting' = Waiting \ {n} /\ OnTheirWay' = OnTheirWay
        /\ UNCHANGED <<sent, send, stored>>
    BY <1>3, <2>1, <2>2, TrailOtherwise DEF PersistFails, hubVars
  <2>4. Phase[n] = "waiting" /\ n \notin OnTheirWay BY <2>3, PhaseIs DEF NoticesKept, TrailKept
  <2>5. n \in sent BY <2>3 DEF NoticesKept
  <2>6. Phase' = [Phase EXCEPT ![n] = "over"] BY <2>3, <2>4, <2>5 DEF Phase
  <2> QED BY <2>3, <2>4, <2>6 DEF Board!Next, Board!GiveUp, Board!Moves
<1>4. ASSUME NEW p \in Publisher, NEW e \in Event, Broadcast(p, e) PROVE [Board!Next]_(Board!vars)
  <2>1. OnTheirWay' = OnTheirWay BY <1>4, TrailOtherwise
  <2>2. Waiting' = Waiting /\ UNCHANGED <<sent, stored, send>>
    BY <1>4 DEF Broadcast, Publish, noticeVars, Waiting
  <2> QED BY <1>0, <2>1, <2>2, PhaseSame
<1>5. ASSUME Receive PROVE [Board!Next]_(Board!vars)
  <2>1. OnTheirWay' = OnTheirWay /\ Waiting' = Waiting BY <1>5, TrailOtherwise, WaitsOnReceive
  <2>2. UNCHANGED <<sent, stored, send>> BY <1>5 DEF Receive, hubVars
  <2> QED BY <1>0, <2>1, <2>2, PhaseSame
<1>6. ASSUME Restart PROVE [Board!Next]_(Board!vars)
  <2>1. OnTheirWay' = {} /\ Waiting' = {} BY <1>6, TrailOtherwise, WaitsOnRestart
  <2>2. UNCHANGED <<sent, stored>> /\ send' = [c \in Conn |-> <<>>] BY <1>6 DEF Restart, Stop
  <2>3. Phase' = [n \in Notice |-> IF Phase[n] = "new" THEN "new" ELSE "over"]
    BY <2>1, <2>2 DEF Phase
  <2> QED BY <2>2, <2>3 DEF Board!Next, Board!Stop
<1>7. ASSUME HubPublish, UNCHANGED noticeVars PROVE [Board!Next]_(Board!vars)
  <2>1. PICK e \in Event : e = Head(pubs) BY <1>7, TrailOnPublish
  <2>2. OnTheirWay' = OnTheirWay \ {e} /\ (e \in Notice => e \in OnTheirWay)
    BY <1>7, <2>1, TrailOnPublish
  <2>3. Waiting' = Waiting /\ UNCHANGED <<sent, stored>> BY <1>7 DEF noticeVars, Waiting
  <2>4. Board!Reaches(e)
    <3> DEFINE S == {c \in Conn : c \in members[RoomOf[e]] /\ Len(send[c]) < SendCap}
    <3>1. S \in SUBSET Conn OBVIOUS
    <3>2. send' = [c \in Conn |-> IF c \in S THEN Append(send[c], e) ELSE send[c]]
      BY <1>7, <2>1 DEF HubPublish
    <3> HIDE DEF S
    <3> QED BY <3>1, <3>2 DEF Board!Reaches
  <2>5. CASE e \in Notice
    <3>1. Phase[e] = "kept" BY <2>2, <2>5, PhaseIs
    <3>2. Phase' = [Phase EXCEPT ![e] = "over"]
      <4>1. e \in sent /\ e \notin Waiting BY <2>2, <2>5, <3>1, PhaseIs
      <4> QED BY <2>2, <2>3, <2>5, <4>1 DEF Phase
    <3> QED BY <2>3, <2>4, <2>5, <3>1, <3>2 DEF Board!Next, Board!Tell, Board!Moves
  <2>6. CASE e \notin Notice
    <3>1. OnTheirWay' = OnTheirWay BY <2>2, <2>6 DEF OnTheirWay
    <3>2. Phase' = Phase BY <2>3, <3>1, PhaseSame
    <3> QED BY <2>3, <2>4, <2>6, <3>2 DEF Board!Next, Board!Other
  <2> QED BY <2>5, <2>6
<1>8. ASSUME NEW p \in Publisher, Accept(p), UNCHANGED noticeVars PROVE [Board!Next]_(Board!vars)
  <2>1. OnTheirWay' = OnTheirWay BY <1>8, TrailOnAccept
  <2>2. Waiting' = Waiting /\ UNCHANGED <<sent, stored, send>>
    BY <1>8 DEF Accept, noticeVars, Waiting
  <2> QED BY <1>0, <2>1, <2>2, PhaseSame
<1>9. ASSUME UNCHANGED <<pub, pubs, noticeVars>> PROVE Phase' = Phase /\ stored' = stored
  BY <1>9 DEF noticeVars, Waiting, OnTheirWay, Phase
<1>10. ASSUME NEW c \in Conn, Greet(c), UNCHANGED noticeVars PROVE [Board!Next]_(Board!vars)
  <2>1. Phase' = Phase /\ stored' = stored BY <1>9, <1>10 DEF Greet
  <2>2. CASE send' = [send EXCEPT ![c] = Append(@, Hello)]
    <3>1. send' = [d \in Conn |-> IF d \in {c} THEN Append(send[d], Hello) ELSE send[d]]
      BY <2>2
    <3>2. Board!Reaches(Hello) BY <3>1 DEF Board!Reaches
    <3>3. Hello \in (Event \cup {Hello}) \ Notice OBVIOUS
    <3> QED BY <2>1, <3>2, <3>3 DEF Board!Next, Board!Other
  <2>3. CASE send' = send BY <1>0, <2>1, <2>3
  <2> QED BY <1>10, <2>2, <2>3 DEF Greet
<1>11. ASSUME NEW c \in Conn, Write(c), UNCHANGED noticeVars PROVE [Board!Next]_(Board!vars)
  <2>1. Phase' = Phase /\ stored' = stored BY <1>9, <1>11 DEF Write
  <2>2. send[c] # <<>> /\ send' = [send EXCEPT ![c] = Tail(@)] BY <1>11 DEF Write
  <2> QED BY <2>1, <2>2 DEF Board!Next, Board!Show
<1>12. ASSUME UNCHANGED <<pub, pubs, send, noticeVars>> PROVE [Board!Next]_(Board!vars)
  BY <1>0, <1>9, <1>12
<1> QED
  BY <1>1, <1>2, <1>3, <1>4, <1>5, <1>6, <1>7, <1>8, <1>10, <1>11, <1>12
     DEF Next, vars, hubVars, clientVars, HubNext, Serving, Upgrade, Name, Register, Frame, Post,
         Lose, ReadFails, Leave, ReaderEnds, Ping, HubOp

\* The board's invariant is one of the dispatcher and the hub.
LEMMA BoardInvStep == ASSUME BoardInv, [Next]_vars PROVE BoardInv'
<1>1. TypeOK' /\ NoticesKept' BY TypeNext, NoticesNext, TrailTypes DEF BoardInv
<1>2. TrailKept'
  <2>1. ASSUME UNCHANGED <<pub, pubs, noticeVars>> PROVE TrailKept'
    BY <2>1, TrailOtherwise DEF noticeVars
  <2> QED
    BY <2>1, TrailOnPersist, TrailOnAccept, TrailOnPublish, TrailOtherwise
       DEF Next, vars, hubVars, clientVars, HubNext, Serving, Upgrade, Name, Register, Greet,
           Frame, Post, Lose, ReadFails, Leave, ReaderEnds, Write, Ping, HubOp
<1> QED BY <1>1, <1>2 DEF BoardInv

\* What services and browsers may rely on: of a notice there is one row at most and then
\* one toast at most per connection, in the order of the fan-out, whatever is full, fails or
\* stops, and however many goroutines store and publish.
THEOREM ImplementsNoticeBoard == Spec => BoardSpec
<1>1. Init => BoardInv /\ Board!Init
  <2> SUFFICES ASSUME Init PROVE BoardInv /\ Board!Init OBVIOUS
  <2>1. Len(<<>>) = 0 BY EmptySeq
  <2>2. /\ inbox = <<>> /\ pubs = <<>> /\ sent = {} /\ stored = {} /\ failed = {} /\ cut = {}
        /\ send = [c \in Conn |-> <<>>]
        /\ \A p \in Publisher : pub[p] = NULL /\ saving[p] = NULL
    BY DEF Init, HubInit
  <2>3. Waiting = {} /\ OnTheirWay = {} BY <2>1, <2>2, NoticeFacts DEF Waiting, OnTheirWay
  <2>4. NoticesKept BY <2>1, <2>2, <2>3 DEF NoticesKept
  <2>5. TrailKept BY <2>1, <2>2, <2>3, NoticeFacts DEF TrailKept
  <2>6. Board!Init BY <2>2 DEF Board!Init, Phase
  <2> QED BY <2>4, <2>5, <2>6, TypeInit DEF BoardInv
<1> QED BY <1>1, BoardInvStep, BoardStep, PTL DEF Spec, BoardSpec, Board!Spec
=============================================================================
