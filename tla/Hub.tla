--------------------------------- MODULE Hub ---------------------------------
(* The websocket hub (internal/ws): one goroutine that owns the rooms, and     *)
(* three per connection: ServeWS, which registers the client, readPump and     *)
(* writePump.  Joins and leaves reach the hub through one channel,             *)
(* publications through another; both block their senders when full.  Frames   *)
(* for a client go into a buffer of its own, which never blocks the hub.       *)
EXTENDS Integers, Sequences, FiniteSets

CONSTANTS Conn,       \* connections, one Client each, never used twice
          Room,
          Personal,   \* [Conn -> Room], the room of the connection's user
          Publisher,  \* goroutines that call Hub.Publish
          Event,
          RoomOf,     \* [Event -> Room]
          OpsCap, PublishCap, SendCap,  \* capacities (256, 256, 32 in the code)
          MaxStops,   \* bound: restarts of the server
          Hello,      \* the frame ServeWS greets a client with
          NULL

RoomOp == [kind : {"J", "L"}, room : Room, client : Conn]
Join(r, c)  == [kind |-> "J", room |-> r, client |-> c]
LeaveOp(r, c) == [kind |-> "L", room |-> r, client |-> c]

ASSUME HubAssumption ==
    /\ Personal \in [Conn -> Room] /\ RoomOf \in [Event -> Room]
    /\ OpsCap \in Nat \ {0} /\ PublishCap \in Nat \ {0} /\ SendCap \in Nat \ {0}
    /\ MaxStops \in Nat
    /\ Hello \notin Event /\ NULL \notin Event /\ NULL \notin RoomOp

VARIABLES members,  \* Hub.rooms
          ops,      \* Hub.ops
          pubs,     \* Hub.publish
          serve,    \* how far ServeWS is with the connection
          reader,   \* what readPump is doing
          posting,  \* the operation readPump is sending to the hub, or NULL
          subs,     \* Client.rooms; while readPump leaves, the rooms still to leave
          writer,   \* what writePump is doing
          send,     \* Client.send
          open,     \* connections that are not closed, by either side
          pub,      \* the event each publisher is sending to the hub, or NULL
          stops,    \* restarts so far
          early     \* history: connections that used or left their personal
                    \* room before ServeWS had registered it

clientVars == <<serve, reader, posting, subs, writer, open, early>>
hubVars    == <<members, ops, pubs, clientVars, send, pub, stops>>

-----------------------------------------------------------------------------
(* ServeWS *)

\* The connection is upgraded and its pumps start.
Upgrade(c) ==
    /\ serve[c] = "absent"
    /\ serve'  = [serve  EXCEPT ![c] = "naming"]
    /\ reader' = [reader EXCEPT ![c] = "reading"]
    /\ writer' = [writer EXCEPT ![c] = "writing"]
    /\ open'   = open \cup {c}
    /\ UNCHANGED <<members, ops, pubs, posting, subs, send, pub, stops, early>>

\* client.rooms[personal] = true.  A range over the map that has begun may or
\* may not see the new key.
Name(c) ==
    /\ serve[c] = "naming"
    /\ serve' = [serve EXCEPT ![c] = "joining"]
    /\ \/ subs' = [subs EXCEPT ![c] = @ \cup {Personal[c]}]
       \/ reader[c] = "leaving" /\ UNCHANGED subs
    /\ UNCHANGED <<members, ops, pubs, reader, posting, writer, send, open, pub, stops, early>>

Register(c) ==
    /\ serve[c] = "joining"
    /\ Len(ops) < OpsCap
    /\ ops' = Append(ops, Join(Personal[c], c))
    /\ serve' = [serve EXCEPT ![c] = "greeting"]
    /\ UNCHANGED <<members, pubs, reader, posting, subs, writer, send, open, pub, stops, early>>

Greet(c) ==
    /\ serve[c] = "greeting"
    /\ serve' = [serve EXCEPT ![c] = "served"]
    /\ send' = IF Len(send[c]) < SendCap THEN [send EXCEPT ![c] = Append(@, Hello)] ELSE send
    /\ UNCHANGED <<members, ops, pubs, reader, posting, subs, writer, open, pub, stops, early>>

-----------------------------------------------------------------------------
(* readPump *)

Registered(c) == serve[c] \in {"greeting", "served"}

\* A join or leave frame arrives: the client's own set changes at once, the
\* hub's when the operation has got through.
Frame(c, kind, r) ==
    /\ reader[c] = "reading" /\ posting[c] = NULL /\ c \in open
    /\ subs' = [subs EXCEPT ![c] = IF kind = "J" THEN @ \cup {r} ELSE @ \ {r}]
    /\ posting' = [posting EXCEPT ![c] = [kind |-> kind, room |-> r, client |-> c]]
    /\ early' = IF r = Personal[c] /\ ~Registered(c) THEN early \cup {c} ELSE early
    /\ UNCHANGED <<members, ops, pubs, serve, reader, writer, send, open, pub, stops>>

Post(c) ==
    /\ posting[c] # NULL
    /\ Len(ops) < OpsCap
    /\ ops' = Append(ops, posting[c])
    /\ posting' = [posting EXCEPT ![c] = NULL]
    /\ UNCHANGED <<members, pubs, serve, reader, subs, writer, send, open, pub, stops, early>>

\* The connection is lost, closed by the browser, or silent for too long.
Lose(c) ==
    /\ c \in open
    /\ open' = open \ {c}
    /\ UNCHANGED <<members, ops, pubs, serve, reader, posting, subs, writer, send, pub, stops, early>>

\* ReadMessage fails, and the deferred loop begins to leave every room.
ReadFails(c) ==
    /\ reader[c] = "reading" /\ posting[c] = NULL /\ c \notin open
    /\ reader' = [reader EXCEPT ![c] = "leaving"]
    /\ early' = IF Registered(c) THEN early ELSE early \cup {c}
    /\ UNCHANGED <<members, ops, pubs, serve, posting, subs, writer, send, open, pub, stops>>

Leave(c) ==
    /\ reader[c] = "leaving"
    /\ Len(ops) < OpsCap
    /\ \E r \in subs[c] :
         /\ ops' = Append(ops, LeaveOp(r, c))
         /\ subs' = [subs EXCEPT ![c] = @ \ {r}]
    /\ UNCHANGED <<members, pubs, serve, reader, posting, writer, send, open, pub, stops, early>>

ReaderEnds(c) ==
    /\ reader[c] = "leaving" /\ subs[c] = {}
    /\ reader' = [reader EXCEPT ![c] = "gone"]
    /\ UNCHANGED <<members, ops, pubs, serve, posting, subs, writer, send, open, pub, stops, early>>

-----------------------------------------------------------------------------
(* writePump *)

\* A frame is written; a write fails on a connection that is closed, and one
\* that takes too long closes it.
Write(c) ==
    /\ writer[c] = "writing" /\ send[c] # <<>>
    /\ send' = [send EXCEPT ![c] = Tail(@)]
    /\ \/ UNCHANGED <<writer, open>>
       \/ writer' = [writer EXCEPT ![c] = "gone"] /\ open' = open \ {c}
    /\ UNCHANGED <<members, ops, pubs, serve, reader, posting, subs, pub, stops, early>>

\* Mutant: there is no ticker, only a frame reveals a closed connection.
PingWithFrames(c) ==
    /\ writer[c] = "writing" /\ c \notin open /\ send[c] # <<>>
    /\ writer' = [writer EXCEPT ![c] = "gone"]
    /\ UNCHANGED <<members, ops, pubs, serve, reader, posting, subs, send, open, pub, stops, early>>

\* A ping on a closed connection ends the pump.
Ping(c) ==
    /\ writer[c] = "writing" /\ c \notin open
    /\ writer' = [writer EXCEPT ![c] = "gone"]
    /\ UNCHANGED <<members, ops, pubs, serve, reader, posting, subs, send, open, pub, stops, early>>

-----------------------------------------------------------------------------
(* The hub and its publishers *)

Apply(op, m) ==
    [m EXCEPT ![op.room] = IF op.kind = "J" THEN @ \cup {op.client} ELSE @ \ {op.client}]

\* Mutant: joins and leaves have a channel each, and select reorders them.
HubOpReordered ==
    /\ \E i \in 1..Len(ops) :
         /\ \A j \in 1..(i-1) : ops[j].kind # ops[i].kind
         /\ members' = Apply(ops[i], members)
         /\ ops' = SubSeq(ops, 1, i - 1) \o SubSeq(ops, i + 1, Len(ops))
    /\ UNCHANGED <<pubs, clientVars, send, pub, stops>>

HubOp ==
    /\ ops # <<>>
    /\ members' = Apply(Head(ops), members)
    /\ ops' = Tail(ops)
    /\ UNCHANGED <<pubs, clientVars, send, pub, stops>>

\* Mutants: the buffers have no bound; the hub waits for a member whose buffer is
\* full.
HubPublishUnbounded ==
    /\ pubs # <<>>
    /\ send' = [c \in Conn |-> IF c \in members[RoomOf[Head(pubs)]]
                               THEN Append(send[c], Head(pubs)) ELSE send[c]]
    /\ pubs' = Tail(pubs)
    /\ UNCHANGED <<members, ops, clientVars, pub, stops>>
HubPublishWaits ==
    /\ pubs # <<>>
    /\ \A c \in members[RoomOf[Head(pubs)]] : Len(send[c]) < SendCap
    /\ send' = [c \in Conn |-> IF c \in members[RoomOf[Head(pubs)]]
                               THEN Append(send[c], Head(pubs)) ELSE send[c]]
    /\ pubs' = Tail(pubs)
    /\ UNCHANGED <<members, ops, clientVars, pub, stops>>

\* Mutant: a full buffer gives up its oldest frame.
HubPublishDropsOldest ==
    /\ pubs # <<>>
    /\ LET e == Head(pubs) IN
       send' = [c \in Conn |-> IF c \notin members[RoomOf[e]] THEN send[c]
                               ELSE IF Len(send[c]) < SendCap THEN Append(send[c], e)
                               ELSE Append(Tail(send[c]), e)]
    /\ pubs' = Tail(pubs)
    /\ UNCHANGED <<members, ops, clientVars, pub, stops>>

\* A member whose buffer is full misses the event.
HubPublish ==
    /\ pubs # <<>>
    /\ LET e == Head(pubs) IN
       send' = [c \in Conn |-> IF c \in members[RoomOf[e]] /\ Len(send[c]) < SendCap
                               THEN Append(send[c], e) ELSE send[c]]
    /\ pubs' = Tail(pubs)
    /\ UNCHANGED <<members, ops, clientVars, pub, stops>>

\* A service calls Hub.Publish.
Publish(p, e) ==
    /\ pub[p] = NULL
    /\ pub' = [pub EXCEPT ![p] = e]
    /\ UNCHANGED <<members, ops, pubs, clientVars, send, stops>>

Accept(p) ==
    /\ pub[p] # NULL
    /\ Len(pubs) < PublishCap
    /\ pubs' = Append(pubs, pub[p])
    /\ pub' = [pub EXCEPT ![p] = NULL]
    /\ UNCHANGED <<members, ops, clientVars, send, stops>>

\* The server stops: it is told to, or ServeWS and readPump write the map of a
\* client's rooms at the same time, which the Go runtime does not survive.
Stop ==
    /\ stops < MaxStops
    /\ stops' = stops + 1
    /\ members' = [r \in Room |-> {}]
    /\ ops' = <<>> /\ pubs' = <<>>
    /\ serve' = [c \in Conn |-> IF serve[c] = "absent" THEN "absent" ELSE "served"]
    /\ reader' = [c \in Conn |-> IF serve[c] = "absent" THEN "absent" ELSE "gone"]
    /\ writer' = reader'
    /\ posting' = [c \in Conn |-> NULL]
    /\ subs' = [c \in Conn |-> {}]
    /\ send' = [c \in Conn |-> <<>>]
    /\ open' = {}
    /\ pub' = [p \in Publisher |-> NULL]
    /\ UNCHANGED early

HubInit ==
    /\ members = [r \in Room |-> {}]
    /\ ops = <<>> /\ pubs = <<>>
    /\ serve = [c \in Conn |-> "absent"]
    /\ reader = [c \in Conn |-> "absent"]
    /\ writer = [c \in Conn |-> "absent"]
    /\ posting = [c \in Conn |-> NULL]
    /\ subs = [c \in Conn |-> {}]
    /\ send = [c \in Conn |-> <<>>]
    /\ open = {}
    /\ pub = [p \in Publisher |-> NULL]
    /\ stops = 0
    /\ early = {}

Serving(c) ==
    \/ Upgrade(c) \/ Name(c) \/ Register(c) \/ Greet(c)
    \/ \E kind \in {"J", "L"}, r \in Room : Frame(c, kind, r)
    \/ Post(c) \/ Lose(c) \/ ReadFails(c) \/ Leave(c) \/ ReaderEnds(c)
    \/ Write(c) \/ Ping(c)

HubNext == (\E c \in Conn : Serving(c)) \/ HubOp \/ HubPublish \/ \E p \in Publisher : Accept(p)

\* Goroutines are scheduled and pings are sent; select and the queue of blocked
\* senders starve nobody.  Browsers need not connect, send or leave.
HubFairness ==
    /\ SF_hubVars(HubOp) /\ SF_hubVars(HubPublish)
    /\ \A p \in Publisher : SF_hubVars(Accept(p))
    /\ \A c \in Conn :
         /\ WF_hubVars(Name(c) \/ Greet(c)) /\ SF_hubVars(Register(c))
         /\ WF_hubVars(ReadFails(c) \/ ReaderEnds(c)) /\ SF_hubVars(Post(c) \/ Leave(c))
         /\ WF_hubVars(Ping(c))

-----------------------------------------------------------------------------
(* Safety *)

HubTypeOK ==
    /\ members \in [Room -> SUBSET Conn]
    /\ ops \in Seq(RoomOp) /\ Len(ops) <= OpsCap
    /\ pubs \in Seq(Event) /\ Len(pubs) <= PublishCap
    /\ serve \in [Conn -> {"absent", "naming", "joining", "greeting", "served"}]
    /\ reader \in [Conn -> {"absent", "reading", "leaving", "gone"}]
    /\ writer \in [Conn -> {"absent", "writing", "gone"}]
    /\ posting \in [Conn -> RoomOp \cup {NULL}]
    /\ subs \in [Conn -> SUBSET Room]
    /\ send \in [Conn -> Seq(Event \cup {Hello})] /\ \A c \in Conn : Len(send[c]) <= SendCap
    /\ open \subseteq Conn
    /\ pub \in [Publisher -> Event \cup {NULL}]
    /\ stops \in 0..MaxStops
    /\ early \subseteq Conn

About(op, c, r) == op.client = c /\ op.room = r

\* c is in r once the hub has worked through the operations it has been sent.
Settled(c, r) ==
    \/ \E i \in 1..Len(ops) : /\ ops[i] = Join(r, c)
                              /\ \A j \in (i+1)..Len(ops) : ~About(ops[j], c, r)
    \/ c \in members[r] /\ \A i \in 1..Len(ops) : ~About(ops[i], c, r)

WillBeIn(c, r) ==
    IF posting[c] # NULL /\ posting[c].room = r THEN posting[c].kind = "J" ELSE Settled(c, r)

\* The hub ends up with the rooms a client asked for last, and with none when it
\* is gone, however joins and leaves of all clients interleave (comment of
\* roomOp).  The personal room counts from its registration on, for a client
\* that had not touched it before and was still there.
LastWordKept ==
    \A c \in Conn, r \in Room :
        (r = Personal[c] => Registered(c) /\ c \notin early)
            => (r \in subs[c] <=> WillBeIn(c, r))

-----------------------------------------------------------------------------
(* Liveness *)

\* A publisher never waits for ever, whatever the clients' connections do.
PublishReturns == \A p \in Publisher : []<>(pub[p] = NULL)

\* A connection that is lost does not keep its pumps.
PumpsEnd ==
    \A c \in Conn : []<>(c \in open \/ reader[c] = "absent"
                            \/ (reader[c] = "gone" /\ writer[c] = "gone"))
=============================================================================
