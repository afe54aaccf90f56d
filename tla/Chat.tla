-------------------------------- MODULE Chat --------------------------------
(***************************************************************************)
(* Channels, their members and messages: service/chat with its handler and *)
(* the channel and message repositories. A call on a message stores its    *)
(* row and then publishes what it holds in memory; other calls may store   *)
(* and publish in between.                                                 *)
(***************************************************************************)
EXTENDS Rows, Integers, FiniteSets

CONSTANTS ChannelIds, MessageIds, ChatUsers, ChatSpaces, ChatBodies, ChatCalls,
    Privacies,  \* the values of is_private told apart
    NOCHAT,     \* no space, no parent, not published
    UNKNOWN,    \* what was published last is not followed any further
    EMPTY       \* the body of a deleted message

VARIABLES
    chatSpace,      \* the spaces that exist
    channel,        \* table channels: the space and is_private of each
    channelMember,  \* table channel_members
    message,        \* table messages
    sending,        \* the calls in flight
    told            \* the state of each message as last published to its room

chatVars == <<chatSpace, channel, channelMember, message, sending, told>>

ChannelRow == [space: ChatSpaces \cup {NOCHAT}, private: Privacies]
MessageRow == [channel: ChannelIds, author: ChatUsers, parent: MessageIds \cup {NOCHAT},
               body: ChatBodies \cup {EMPTY}, deleted: BOOLEAN]
\* A call holds the row it has read, its statement done or not.
Sending == [id: MessageIds, do: {"edit", "delete", "publish"}, row: MessageRow]

ASSUME ChatConstants == NOCHAT \notin Sending /\ ChatBodies # {}

ChatTypeOK ==
    /\ chatSpace \in SUBSET ChatSpaces
    /\ DOMAIN channel \subseteq ChannelIds /\ Range(channel) \subseteq ChannelRow
    /\ channelMember \subseteq (DOMAIN channel) \X ChatUsers
    /\ DOMAIN message \subseteq MessageIds /\ Range(message) \subseteq MessageRow
    /\ sending \in [ChatCalls -> Sending \cup {NOCHAT}]
    /\ told \in [MessageIds -> MessageRow \cup {NOCHAT, UNKNOWN}]

ChatInit ==
    /\ chatSpace = ChatSpaces
    /\ channel = <<>> /\ channelMember = {} /\ message = <<>>
    /\ sending = [c \in ChatCalls |-> NOCHAT]
    /\ told = [m \in MessageIds |-> NOCHAT]

-----------------------------------------------------------------------------
(* Channels.                                                               *)

messagesFixed == UNCHANGED <<message, sending, told>>

\* The creator is entered as a member; that this failed is not noticed.
CreateChannel(h, s, u, private) ==
    /\ h \notin DOMAIN channel /\ s \in chatSpace \cup {NOCHAT}
    /\ channel' = Put(channel, h, [space |-> s, private |-> private])
    /\ \/ channelMember' = channelMember \cup {<<h, u>>}
       \/ UNCHANGED channelMember
    /\ messagesFixed /\ UNCHANGED chatSpace

UpdateChannel(h, private) ==
    /\ h \in DOMAIN channel
    /\ channel' = [channel EXCEPT ![h].private = private]
    /\ messagesFixed /\ UNCHANGED <<chatSpace, channelMember>>

AddChannelMember(h, u) ==
    /\ h \in DOMAIN channel
    /\ channelMember' = channelMember \cup {<<h, u>>}
    /\ messagesFixed /\ UNCHANGED <<chatSpace, channel>>

RemoveChannelMember(h, u) ==
    /\ channelMember' = channelMember \ {<<h, u>>}
    /\ messagesFixed /\ UNCHANGED <<chatSpace, channel>>

\* Messages with the replies to them, which may be in other channels, and so on.
WithReplies(ids) ==
    LET grown[n \in 0..Cardinality(DOMAIN message)] ==
          IF n = 0 THEN ids
          ELSE grown[n - 1] \cup {m \in DOMAIN message : message[m].parent \in grown[n - 1]}
    IN  grown[Cardinality(DOMAIN message)]

\* A channel's rows go with it; its space takes both along.
DropChannels(ids) ==
    LET gone == WithReplies({m \in DOMAIN message : message[m].channel \in ids}) IN
    /\ channel' = Drop(channel, ids)
    /\ channelMember' = {p \in channelMember : p[1] \notin ids}
    /\ message' = Drop(message, gone)
    /\ told' = [m \in MessageIds |-> IF m \in gone THEN UNKNOWN ELSE told[m]]
    /\ UNCHANGED sending

DeleteChannel(h) ==
    /\ h \in DOMAIN channel
    /\ DropChannels({h}) /\ UNCHANGED chatSpace

DeleteChatSpace(s) ==
    /\ s \in chatSpace
    /\ chatSpace' = chatSpace \ {s}
    /\ DropChannels({h \in DOMAIN channel : channel[h].space = s})

-----------------------------------------------------------------------------
(* Messages.                                                               *)

channelsFixed == UNCHANGED <<chatSpace, channel, channelMember>>

On(m) == {c \in ChatCalls : sending[c] # NOCHAT /\ sending[c].id = m}

BeginSend(c, m, do, row) ==
    /\ sending[c] = NOCHAT
    /\ sending' = [sending EXCEPT ![c] = [id |-> m, do |-> do, row |-> row]]
    \* The order in which two calls on a message publish is anybody's guess.
    /\ told' = IF On(m) # {} THEN [told EXCEPT ![m] = UNKNOWN] ELSE told

\* Membership is not asked for, nor that the parent is of this channel. A new
\* message has the next id, and what it says makes no difference.
PostMessage(c, u, h, m, parent) ==
    LET row == [channel |-> h, author |-> u, parent |-> parent,
                body |-> CHOOSE b \in ChatBodies : TRUE, deleted |-> FALSE]
    IN  /\ h \in DOMAIN channel /\ parent \in DOMAIN message \cup {NOCHAT}
        /\ told[m] = NOCHAT /\ On(m) = {} /\ \A n \in 1..m - 1 : told[n] # NOCHAT \/ On(n) # {}
        /\ message' = Put(message, m, row)
        /\ BeginSend(c, m, "publish", row)
        /\ channelsFixed

\* Only the author; a deleted message can be edited too.
EditMessage(c, u, m, body) ==
    /\ m \in DOMAIN message /\ message[m].author = u
    /\ BeginSend(c, m, "edit", [message[m] EXCEPT !.body = body])
    /\ channelsFixed /\ UNCHANGED message

DeleteMessage(c, u, m) ==
    /\ m \in DOMAIN message /\ message[m].author = u
    /\ BeginSend(c, m, "delete", message[m])
    /\ channelsFixed /\ UNCHANGED message

UpdateBody(c) ==
    LET m == sending[c].id IN
    /\ sending[c] # NOCHAT /\ sending[c].do = "edit"
    /\ message' = IF m \in DOMAIN message
                  THEN [message EXCEPT ![m].body = sending[c].row.body] ELSE message
    /\ sending' = [sending EXCEPT ![c].do = "publish"]
    /\ channelsFixed /\ UNCHANGED told

\* Mutated form: what is published still has the text.
SoftDeleteMessageAsRead(c) ==
    LET m == sending[c].id IN
    /\ sending[c] # NOCHAT /\ sending[c].do = "delete"
    /\ message' = IF m \in DOMAIN message
                  THEN [message EXCEPT ![m].body = EMPTY, ![m].deleted = TRUE] ELSE message
    /\ sending' = [sending EXCEPT ![c].do = "publish", ![c].row.deleted = TRUE]
    /\ channelsFixed /\ UNCHANGED told

SoftDeleteMessage(c) ==
    LET m == sending[c].id IN
    /\ sending[c] # NOCHAT /\ sending[c].do = "delete"
    /\ message' = IF m \in DOMAIN message
                  THEN [message EXCEPT ![m].body = EMPTY, ![m].deleted = TRUE] ELSE message
    /\ sending' = [sending EXCEPT ![c].do = "publish", ![c].row.body = EMPTY,
                                  ![c].row.deleted = TRUE]
    /\ channelsFixed /\ UNCHANGED told

publishMessage(c) ==
    /\ sending[c] # NOCHAT /\ sending[c].do = "publish"
    /\ told' = [told EXCEPT ![sending[c].id] = IF @ = UNKNOWN THEN @ ELSE sending[c].row]
    /\ sending' = [sending EXCEPT ![c] = NOCHAT]
    /\ channelsFixed /\ UNCHANGED message

\* A statement fails before it is done, or the server stops before it publishes.
CutOff(c) ==
    /\ sending[c] # NOCHAT
    /\ told' = IF sending[c].do = "publish" THEN [told EXCEPT ![sending[c].id] = UNKNOWN] ELSE told
    /\ sending' = [sending EXCEPT ![c] = NOCHAT]
    /\ channelsFixed /\ UNCHANGED message

(* The handler.                                                            *)

createForSpace(u, s) == \E h \in ChannelIds, p \in Privacies : CreateChannel(h, s, u, p)
changeChannel == \E h \in ChannelIds : DeleteChannel(h) \/ \E p \in Privacies : UpdateChannel(h, p)
changeMembers == \E h \in ChannelIds, u \in ChatUsers : AddChannelMember(h, u) \/ RemoveChannelMember(h, u)
postMessage(c, u, m) ==
    \E h \in ChannelIds, p \in MessageIds \cup {NOCHAT} : PostMessage(c, u, h, m, p)
changeMessage(c, u, m) == DeleteMessage(c, u, m) \/ \E b \in ChatBodies : EditMessage(c, u, m, b)

ChannelNext ==
    \/ \E u \in ChatUsers, s \in ChatSpaces \cup {NOCHAT} : createForSpace(u, s)
    \/ changeChannel \/ changeMembers
    \/ \E s \in ChatSpaces : DeleteChatSpace(s)

MessageNext ==
    \/ \E c \in ChatCalls, u \in ChatUsers, m \in MessageIds :
         postMessage(c, u, m) \/ changeMessage(c, u, m)
    \/ \E c \in ChatCalls :
         UpdateBody(c) \/ SoftDeleteMessage(c) \/ publishMessage(c) \/ CutOff(c)

ChatNext == ChannelNext \/ MessageNext

ChatSpec == ChatInit /\ [][ChatNext]_chatVars

-----------------------------------------------------------------------------
\* What the readers of a channel were last told of a message is what its row says,
\* once no call is working on it; two calls that overlapped may have published in the
\* other order than they stored.
RoomSeesRow ==
    \A m \in DOMAIN message : On(m) = {} => told[m] \in {message[m], UNKNOWN}

=============================================================================
