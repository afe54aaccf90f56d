------------------------------ MODULE Comments ------------------------------
(***************************************************************************)
(* Comments on tasks, their replies and reactions: service/comment with    *)
(* its handler and repository. A call looks at a comment first and writes  *)
(* afterwards; the comment may be removed in between.                      *)
(***************************************************************************)
EXTENDS Rows, Integers

CONSTANTS CommentIds, CommentTasks, Authors, Emojis, Bodies, CommentCalls, NOCOMMENT,
    Touched     \* bound: the ids of comments that are edited or reacted to at all

ASSUME CommentConstants == NOCOMMENT \notin CommentIds /\ Bodies # {}

VARIABLES
    commented,  \* the tasks that exist
    comment,    \* table comments
    reaction,   \* table comment_reactions: <<comment, user, emoji>>
    writing,    \* the calls in flight, after their look at the comment
    overtaken   \* history: comments removed while such a call was about to write to them

commentVars == <<commented, comment, reaction, writing, overtaken>>

CommentRow == [task: CommentTasks, author: Authors, parent: CommentIds \cup {NOCOMMENT},
               body: Bodies, deleted: BOOLEAN]
\* What a call will write: a new reply, a body, or a reaction.
Write == [do: {"reply", "edit", "react"}, of: CommentIds, user: Authors,
          task: CommentTasks, body: Bodies, emoji: Emojis]

CommentTypeOK ==
    /\ commented \in SUBSET CommentTasks
    /\ DOMAIN comment \subseteq CommentIds /\ Range(comment) \subseteq CommentRow
    /\ reaction \in SUBSET (CommentIds \X Authors \X Emojis)
    /\ writing \in [CommentCalls -> Write \cup {NOCOMMENT}]
    /\ overtaken \in SUBSET CommentIds

CommentInit ==
    /\ commented = CommentTasks
    /\ comment = <<>>
    /\ reaction = {} /\ overtaken = {}
    /\ writing = [c \in CommentCalls |-> NOCOMMENT]

-----------------------------------------------------------------------------
(* Statements of the repository.                                           *)

LiveComment(i) == i \in DOMAIN comment /\ ~comment[i].deleted

\* A row needs its task and its parent. Ids are new: no call has looked at
\* one, and they are numbered as they appear.
InsertComment(row) ==
    /\ row.task \in commented /\ row.parent \in DOMAIN comment \cup {NOCOMMENT}
    /\ \E i \in CommentIds \ DOMAIN comment :
         /\ \A c \in CommentCalls : writing[c] # NOCOMMENT => writing[c].of # i
         /\ \A j \in CommentIds \ DOMAIN comment : i <= j
         /\ comment' = Put(comment, i, row)

\* The replies go with their parent, the reactions with both.
DropComments(ids) ==
    LET gone == ids \cup {i \in DOMAIN comment : comment[i].parent \in ids}
    IN  /\ comment' = Drop(comment, gone)
        /\ reaction' = {r \in reaction : r[1] \notin gone}
        /\ overtaken' = overtaken \ gone

-----------------------------------------------------------------------------
(* The service.                                                            *)

\* What a new comment says makes no difference.
NewBody == CHOOSE b \in Bodies : TRUE

TopLevelComment(task, author) ==
    /\ InsertComment([task |-> task, author |-> author, parent |-> NOCOMMENT,
                      body |-> NewBody, deleted |-> FALSE])
    /\ UNCHANGED <<commented, reaction, writing, overtaken>>

BeginWrite(c, do, i, user, task, body, emoji) ==
    /\ writing[c] = NOCOMMENT
    /\ writing' = [writing EXCEPT ![c] =
         [do |-> do, of |-> i, user |-> user, task |-> task, body |-> body, emoji |-> emoji]]
    /\ UNCHANGED <<commented, comment, reaction, overtaken>>

\* Mutated form: the parent is taken as the request names it.
ThreadAsAsked(i) == i

\* A reply to a reply goes to the comment that one replies to.
Thread(i) == IF comment[i].parent = NOCOMMENT THEN i ELSE comment[i].parent

\* A reply takes the task of its parent, whatever the request says.
Reply(c, i, author) ==
    /\ i \in DOMAIN comment
    /\ \E e \in Emojis : BeginWrite(c, "reply", Thread(i), author, comment[i].task, NewBody, e)

\* Mutated form: a removed comment may be written to.
WritableAny(i) == i \in DOMAIN comment
\* A removed comment takes neither edits nor reactions.
Writable(i) == LiveComment(i)

\* Only the author edits.
UpdateComment(c, i, author, body) ==
    /\ i \in Touched /\ Writable(i) /\ comment[i].author = author
    /\ \E e \in Emojis : BeginWrite(c, "edit", i, author, comment[i].task, body, e)

React(c, i, user, emoji) ==
    /\ i \in Touched /\ Writable(i)
    /\ BeginWrite(c, "react", i, user, comment[i].task, comment[i].body, emoji)

FinishWrite(c) == writing' = [writing EXCEPT ![c] = NOCOMMENT]
WriteReply(c) ==
    /\ writing[c] # NOCOMMENT /\ writing[c].do = "reply"
    /\ InsertComment([task |-> writing[c].task, author |-> writing[c].user,
                      parent |-> writing[c].of, body |-> writing[c].body, deleted |-> FALSE])
    /\ FinishWrite(c) /\ UNCHANGED <<commented, reaction, overtaken>>

WriteBody(c) ==
    LET i == writing[c].of IN
    /\ writing[c] # NOCOMMENT /\ writing[c].do = "edit" /\ i \in DOMAIN comment
    /\ comment' = [comment EXCEPT ![i].body = writing[c].body]
    /\ FinishWrite(c) /\ UNCHANGED <<commented, reaction, overtaken>>

AddReaction(c) ==
    LET i == writing[c].of IN
    /\ writing[c] # NOCOMMENT /\ writing[c].do = "react" /\ i \in DOMAIN comment
    /\ reaction' = reaction \cup {<<i, writing[c].user, writing[c].emoji>>}
    /\ FinishWrite(c) /\ UNCHANGED <<commented, comment, overtaken>>

\* The comment is gone, or a statement fails.
FailWrite(c) ==
    /\ writing[c] # NOCOMMENT
    /\ FinishWrite(c) /\ UNCHANGED <<commented, comment, reaction, overtaken>>

RemoveReaction(i, user, emoji) ==
    /\ reaction' = reaction \ {<<i, user, emoji>>}
    /\ UNCHANGED <<commented, comment, writing, overtaken>>

\* Anybody's comment, and one already removed, can be removed.
SoftDelete(i) ==
    /\ i \in DOMAIN comment
    /\ comment' = [comment EXCEPT ![i].deleted = TRUE]
    /\ overtaken' = IF \E c \in CommentCalls : /\ writing[c] # NOCOMMENT /\ writing[c].of = i
                                              /\ writing[c].do \in {"edit", "react"}
                    THEN overtaken \cup {i} ELSE overtaken
    /\ UNCHANGED <<commented, reaction, writing>>

DeleteCommentedTask(t) ==
    /\ t \in commented
    /\ commented' = commented \ {t}
    /\ DropComments({i \in DOMAIN comment : comment[i].task = t})
    /\ UNCHANGED writing

\* What a reader is shown: the replies of a comment that are counted.
ReplyCount(i) == {j \in DOMAIN comment : comment[j].parent = i /\ ~comment[j].deleted}

-----------------------------------------------------------------------------
(* The handler.                                                            *)

postComment(c, u) ==
    \/ \E t \in CommentTasks : TopLevelComment(t, u)
    \/ \E i \in CommentIds : Reply(c, i, u)
    \/ WriteReply(c)
patchComment(c, u) == (\E i \in CommentIds, b \in Bodies : UpdateComment(c, i, u, b)) \/ WriteBody(c)
\* "delete now soft-deletes": the other deletion is not offered.
deleteComment == \E i \in CommentIds : SoftDelete(i)
postReaction(c, u) == (\E i \in CommentIds, e \in Emojis : React(c, i, u, e)) \/ AddReaction(c)
deleteReaction(u) == \E i \in CommentIds, e \in Emojis : RemoveReaction(i, u, e)

CommentNext ==
    \/ \E c \in CommentCalls, u \in Authors : postComment(c, u) \/ patchComment(c, u) \/ postReaction(c, u)
    \/ deleteComment \/ \E u \in Authors : deleteReaction(u)
    \/ \E c \in CommentCalls : FailWrite(c)
    \/ \E t \in CommentTasks : DeleteCommentedTask(t)

CommentSpec == CommentInit /\ [][CommentNext]_commentVars

-----------------------------------------------------------------------------
\* "Enforced single-level on the application side": a reply hangs on a comment that is
\* not a reply, on the same task, though the parent is looked up before the reply is
\* stored and may have been removed or deleted by then.
OneLevelThreads ==
    \A i \in DOMAIN comment : comment[i].parent # NOCOMMENT =>
        /\ comment[i].parent \in DOMAIN comment
        /\ comment[comment[i].parent].parent = NOCOMMENT
        /\ comment[comment[i].parent].task = comment[i].task

\* A removed comment is not removed again into life, and neither its body nor its
\* reactions grow, except by a call that had looked at it before.
FrozenOnceDeleted ==
    [][\A i \in DOMAIN comment \cap DOMAIN comment' : comment[i].deleted =>
         /\ comment'[i].deleted
         /\ i \in overtaken \/ /\ comment'[i].body = comment[i].body
                                /\ {r \in reaction' : r[1] = i} \subseteq reaction]_commentVars

=============================================================================
