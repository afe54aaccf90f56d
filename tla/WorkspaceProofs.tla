-------------------------- MODULE WorkspaceProofs ---------------------------
(* Proofs about comments, chat, files and forms, and about docs, whiteboards, *)
(* tags, views and the other rows a workspace keeps.                        *)
EXTENDS Comments, Chat, Content, Catalog, FiniteSetTheorems, TLAPS

-----------------------------------------------------------------------------
(* Comments, their replies and reactions.                                   *)

\* A call that is about to write a reply knows a parent that is no reply itself, for as
\* long as that exists; one that is about to edit or react, a comment that was not
\* removed when it looked.
WriteFits(c) ==
    writing[c] # NOCOMMENT /\ writing[c].of \in DOMAIN comment =>
        LET i == writing[c].of IN
        /\ writing[c].do = "reply" => /\ comment[i].parent = NOCOMMENT
                                      /\ comment[i].task = writing[c].task
        /\ writing[c].do \in {"edit", "react"} => ~comment[i].deleted \/ i \in overtaken

\* What OneLevelThreads and FrozenOnceDeleted rest on.
CommentInv == CommentTypeOK /\ OneLevelThreads /\ \A c \in CommentCalls : WriteFits(c)

\* The rows of comments, one by one.
LEMMA RowsTyped ==
  ASSUME CommentTypeOK
  PROVE  \A i \in DOMAIN comment : i \in CommentIds /\ comment[i] \in CommentRow
BY DEF CommentTypeOK, Range

\* A new row.
LEMMA InsertKeeps ==
  ASSUME CommentInv, NEW row \in CommentRow, InsertComment(row),
         UNCHANGED <<commented, reaction, overtaken>>,
         writing' \in [CommentCalls -> Write \cup {NOCOMMENT}],
         \A c \in CommentCalls : writing'[c] \in {writing[c], NOCOMMENT},
         row.parent \in DOMAIN comment =>
             /\ comment[row.parent].parent = NOCOMMENT
             /\ comment[row.parent].task = row.task
  PROVE  CommentInv'
<1>1. PICK i \in CommentIds \ DOMAIN comment :
        /\ \A c \in CommentCalls : writing[c] # NOCOMMENT => writing[c].of # i
        /\ comment' = Put(comment, i, row)
  BY DEF InsertComment
<1>2. row.parent \in DOMAIN comment \cup {NOCOMMENT} BY DEF InsertComment
<1>3. /\ DOMAIN comment' = DOMAIN comment \cup {i} /\ comment'[i] = row
      /\ \A j \in DOMAIN comment : comment'[j] = comment[j]
  BY <1>1 DEF Put
<1>4. CommentTypeOK'
  <2>1. \A j \in DOMAIN comment' : comment'[j] \in CommentRow
    BY <1>3, RowsTyped DEF CommentInv
  <2> QED BY <1>1, <1>3, <2>1 DEF CommentInv, CommentTypeOK, Range
<1>5. OneLevelThreads' BY <1>1, <1>2, <1>3 DEF CommentInv, OneLevelThreads
<1>6. ASSUME NEW c \in CommentCalls PROVE WriteFits(c)'
  <2>1. WriteFits(c) BY DEF CommentInv
  <2> QED BY <1>1, <1>3, <2>1 DEF WriteFits
<1> QED BY <1>4, <1>5, <1>6 DEF CommentInv

\* The look at the comment.
LEMMA BeginKeeps ==
  ASSUME CommentInv, NEW c \in CommentCalls, NEW do \in {"reply", "edit", "react"},
         NEW i \in CommentIds, NEW u \in Authors, NEW t \in CommentTasks, NEW b \in Bodies,
         NEW e \in Emojis, BeginWrite(c, do, i, u, t, b, e),
         i \in DOMAIN comment,
         do = "reply" => comment[i].parent = NOCOMMENT /\ comment[i].task = t,
         do # "reply" => ~comment[i].deleted
  PROVE  CommentInv'
<1> DEFINE w == [do |-> do, of |-> i, user |-> u, task |-> t, body |-> b, emoji |-> e]
<1>1. w \in Write /\ w.do = do /\ w.of = i /\ w.task = t BY DEF Write
<1>2. writing' = [writing EXCEPT ![c] = w] /\ UNCHANGED <<commented, comment, reaction, overtaken>>
  BY DEF BeginWrite
<1> HIDE DEF w
<1>3. writing \in [CommentCalls -> Write \cup {NOCOMMENT}] BY DEF CommentInv, CommentTypeOK
<1>4. writing' \in [CommentCalls -> Write \cup {NOCOMMENT}]
      /\ writing'[c] = w /\ \A d \in CommentCalls \ {c} : writing'[d] = writing[d]
  BY <1>1, <1>2, <1>3
<1>5. CommentTypeOK' BY <1>2, <1>4 DEF CommentInv, CommentTypeOK
<1>6. OneLevelThreads' BY <1>2 DEF CommentInv, OneLevelThreads
<1>7. ASSUME NEW d \in CommentCalls PROVE WriteFits(d)'
  <2>1. CASE d = c BY <1>1, <1>2, <1>4, <2>1 DEF WriteFits
  <2>2. CASE d # c
    <3>1. WriteFits(d) BY DEF CommentInv
    <3> QED BY <1>2, <1>4, <2>2, <3>1 DEF WriteFits
  <2> QED BY <2>1, <2>2
<1> QED BY <1>5, <1>6, <1>7 DEF CommentInv

\* A change of one row that leaves its place in the thread as it is.
LEMMA ChangeKeeps ==
  ASSUME CommentInv, NEW i \in DOMAIN comment, NEW row \in CommentRow,
         comment' = [comment EXCEPT ![i] = row],
         row.parent = comment[i].parent, row.task = comment[i].task,
         commented' = commented, reaction' = reaction,
         overtaken' \in SUBSET CommentIds, overtaken \subseteq overtaken',
         writing' \in [CommentCalls -> Write \cup {NOCOMMENT}],
         \A c \in CommentCalls : writing'[c] \in {writing[c], NOCOMMENT},
         \A c \in CommentCalls :
            writing'[c] # NOCOMMENT /\ writing[c].of = i /\ writing[c].do \in {"edit", "react"}
                => row.deleted = comment[i].deleted \/ i \in overtaken'
  PROVE  CommentInv'
<1>1. /\ DOMAIN comment' = DOMAIN comment /\ comment'[i] = row
      /\ \A j \in DOMAIN comment \ {i} : comment'[j] = comment[j]
  OBVIOUS
<1>2. /\ \A j \in DOMAIN comment : comment'[j].parent = comment[j].parent
      /\ \A j \in DOMAIN comment : comment'[j].task = comment[j].task
  BY <1>1
<1>3. CommentTypeOK'
  <2>1. \A j \in DOMAIN comment' : comment'[j] \in CommentRow
    BY <1>1, RowsTyped DEF CommentInv
  <2> QED BY <1>1, <2>1 DEF CommentInv, CommentTypeOK, Range
<1>4. OneLevelThreads' BY <1>1, <1>2 DEF CommentInv, OneLevelThreads
<1>5. ASSUME NEW c \in CommentCalls PROVE WriteFits(c)'
  <2>1. WriteFits(c) BY DEF CommentInv
  <2>2. CASE writing'[c] = NOCOMMENT BY <2>2 DEF WriteFits
  <2>3. CASE writing'[c] # NOCOMMENT
    <3>1. writing'[c] = writing[c] BY <2>3
    <3>2. CASE writing[c].of = i BY <1>1, <1>2, <2>1, <2>3, <3>1, <3>2 DEF WriteFits
    <3>3. CASE writing[c].of # i BY <1>1, <2>1, <2>3, <3>1, <3>3 DEF WriteFits
    <3> QED BY <3>2, <3>3
  <2> QED BY <2>2, <2>3
<1> QED BY <1>3, <1>4, <1>5 DEF CommentInv

\* The task goes, with its comments and their replies.
LEMMA DropKeeps ==
  ASSUME CommentInv, NEW ids \in SUBSET CommentIds, DropComments(ids),
         commented' \in SUBSET CommentTasks, UNCHANGED writing
  PROVE  CommentInv'
<1> DEFINE gone == ids \cup {i \in DOMAIN comment : comment[i].parent \in ids}
<1>1. /\ comment' = Drop(comment, gone) /\ overtaken' = overtaken \ gone
      /\ reaction' \subseteq reaction
  BY DEF DropComments
<1>2. /\ DOMAIN comment' = DOMAIN comment \ gone
      /\ \A j \in DOMAIN comment' : comment'[j] = comment[j]
  BY <1>1 DEF Drop, Restrict
<1>3. CommentTypeOK'
  <2>1. \A j \in DOMAIN comment' : comment'[j] \in CommentRow
    BY <1>2, RowsTyped DEF CommentInv
  <2> HIDE DEF gone
  <2> QED BY <1>1, <1>2, <2>1 DEF CommentInv, CommentTypeOK, Range
<1>4. OneLevelThreads'
  <2> SUFFICES ASSUME NEW i \in DOMAIN comment', comment'[i].parent # NOCOMMENT
               PROVE  /\ comment'[i].parent \in DOMAIN comment'
                      /\ comment'[comment'[i].parent].parent = NOCOMMENT
                      /\ comment'[comment'[i].parent].task = comment'[i].task
    BY DEF OneLevelThreads
  <2>1. i \in DOMAIN comment /\ i \notin gone /\ comment'[i] = comment[i] BY <1>2
  <2> DEFINE p == comment[i].parent
  <2>2. /\ p \in DOMAIN comment /\ comment[p].parent = NOCOMMENT
        /\ comment[p].task = comment[i].task
    BY <2>1 DEF CommentInv, OneLevelThreads
  <2>3. p \notin ids BY <2>1
  \* Only what has a parent goes along, and p has none.
  <2>4. CASE p \in gone BY <2>2, <2>3, <2>4, CommentConstants
  <2>5. CASE p \notin gone BY <1>2, <2>1, <2>2, <2>5
  <2> QED BY <2>4, <2>5
<1>5. ASSUME NEW c \in CommentCalls PROVE WriteFits(c)'
  <2>1. WriteFits(c) BY DEF CommentInv
  <2> HIDE DEF gone
  <2> QED BY <1>1, <1>2, <2>1 DEF WriteFits
<1> QED BY <1>3, <1>4, <1>5 DEF CommentInv

\* A step of a call that only ends it.
LEMMA EndKeeps ==
  ASSUME CommentInv, reaction' \in SUBSET (CommentIds \X Authors \X Emojis),
         UNCHANGED <<commented, comment, overtaken>>,
         writing' \in [CommentCalls -> Write \cup {NOCOMMENT}],
         \A c \in CommentCalls : writing'[c] \in {writing[c], NOCOMMENT}
  PROVE  CommentInv'
<1>1. CommentTypeOK' BY DEF CommentInv, CommentTypeOK
<1>2. OneLevelThreads' BY DEF CommentInv, OneLevelThreads
<1>3. ASSUME NEW c \in CommentCalls PROVE WriteFits(c)'
  <2>1. WriteFits(c) BY DEF CommentInv
  <2> QED BY <2>1 DEF WriteFits
<1> QED BY <1>1, <1>2, <1>3 DEF CommentInv

\* What the end of a call changes.
LEMMA FinishTyped ==
  ASSUME CommentInv, NEW c \in CommentCalls, FinishWrite(c)
  PROVE  /\ writing' \in [CommentCalls -> Write \cup {NOCOMMENT}]
         /\ \A d \in CommentCalls : writing'[d] \in {writing[d], NOCOMMENT}
         /\ writing'[c] = NOCOMMENT
BY DEF CommentInv, CommentTypeOK, FinishWrite

\* The record of a call in flight.
LEMMA WriteTyped ==
  ASSUME CommentInv, NEW c \in CommentCalls, writing[c] # NOCOMMENT
  PROVE  writing[c] \in Write
BY DEF CommentInv, CommentTypeOK

\* The body of an edited comment.
LEMMA NewBodyTyped == NewBody \in Bodies
BY CommentConstants DEF NewBody

\* Every step keeps the invariant.
LEMMA CommentsNext == ASSUME CommentInv, [CommentNext]_commentVars PROVE CommentInv'
<1>0. writing \in [CommentCalls -> Write \cup {NOCOMMENT}]
      /\ commented \in SUBSET CommentTasks /\ overtaken \in SUBSET CommentIds
  BY DEF CommentInv, CommentTypeOK
<1>1. ASSUME NEW t \in CommentTasks, NEW u \in Authors, TopLevelComment(t, u)
      PROVE  CommentInv'
  <2> DEFINE row == [task |-> t, author |-> u, parent |-> NOCOMMENT, body |-> NewBody,
                     deleted |-> FALSE]
  <2>1. row \in CommentRow /\ row.parent = NOCOMMENT BY NewBodyTyped DEF CommentRow
  <2>2. InsertComment(row) /\ UNCHANGED <<commented, reaction, writing, overtaken>>
    BY <1>1 DEF TopLevelComment
  <2> HIDE DEF row
  <2>3. NOCOMMENT \notin DOMAIN comment BY CommentConstants, RowsTyped DEF CommentInv
  <2> QED BY <1>0, <2>1, <2>2, <2>3, InsertKeeps
<1>2. ASSUME NEW c \in CommentCalls, NEW i \in CommentIds, NEW u \in Authors, Reply(c, i, u)
      PROVE  CommentInv'
  <2>1. i \in DOMAIN comment /\ comment[i] \in CommentRow
    BY <1>2, RowsTyped DEF Reply, CommentInv
  <2>2. PICK e \in Emojis : BeginWrite(c, "reply", Thread(i), u, comment[i].task, NewBody, e)
    BY <1>2 DEF Reply
  <2>3. /\ Thread(i) \in DOMAIN comment /\ comment[Thread(i)].parent = NOCOMMENT
        /\ comment[Thread(i)].task = comment[i].task
    BY <2>1 DEF CommentInv, OneLevelThreads, Thread
  <2>4. Thread(i) \in CommentIds /\ comment[i].task \in CommentTasks
    BY <2>1, <2>3, RowsTyped DEF CommentInv, CommentRow
  <2> QED BY <2>2, <2>3, <2>4, NewBodyTyped, BeginKeeps
<1>3. ASSUME NEW c \in CommentCalls, WriteReply(c) PROVE CommentInv'
  <2> DEFINE w == writing[c]
             row == [task |-> w.task, author |-> w.user, parent |-> w.of, body |-> w.body,
                     deleted |-> FALSE]
  <2>1. w # NOCOMMENT /\ w.do = "reply" /\ InsertComment(row) /\ FinishWrite(c)
        /\ UNCHANGED <<commented, reaction, overtaken>>
    BY <1>3 DEF WriteReply
  <2>2. w \in Write BY <2>1, WriteTyped
  <2>3. row \in CommentRow /\ row.parent = w.of /\ row.task = w.task
    BY <2>2 DEF CommentRow, Write
  <2>4. WriteFits(c) BY DEF CommentInv
  <2>5. row.parent \in DOMAIN comment => /\ comment[row.parent].parent = NOCOMMENT
                                         /\ comment[row.parent].task = row.task
    BY <2>1, <2>3, <2>4 DEF WriteFits
  <2>6. /\ writing' \in [CommentCalls -> Write \cup {NOCOMMENT}]
        /\ \A d \in CommentCalls : writing'[d] \in {writing[d], NOCOMMENT}
    BY <2>1, FinishTyped
  <2> HIDE DEF row, w
  <2> QED BY <2>1, <2>3, <2>5, <2>6, InsertKeeps
<1>4. ASSUME NEW c \in CommentCalls, NEW i \in CommentIds, NEW u \in Authors,
             NEW b \in Bodies, UpdateComment(c, i, u, b)
      PROVE  CommentInv'
  <2>1. LiveComment(i) BY <1>4 DEF UpdateComment, Writable
  <2>2. i \in DOMAIN comment /\ ~comment[i].deleted /\ comment[i].task \in CommentTasks
    BY <2>1, RowsTyped DEF LiveComment, CommentInv, CommentRow
  <2>3. PICK e \in Emojis : BeginWrite(c, "edit", i, u, comment[i].task, b, e)
    BY <1>4 DEF UpdateComment
  <2> QED BY <2>2, <2>3, BeginKeeps
<1>5. ASSUME NEW c \in CommentCalls, NEW i \in CommentIds, NEW u \in Authors,
             NEW e \in Emojis, React(c, i, u, e)
      PROVE  CommentInv'
  <2>1. LiveComment(i) BY <1>5 DEF React, Writable
  <2>2. /\ i \in DOMAIN comment /\ ~comment[i].deleted /\ comment[i].task \in CommentTasks
        /\ comment[i].body \in Bodies
    BY <2>1, RowsTyped DEF LiveComment, CommentInv, CommentRow
  <2>3. BeginWrite(c, "react", i, u, comment[i].task, comment[i].body, e)
    BY <1>5 DEF React
  <2> QED BY <2>2, <2>3, BeginKeeps
<1>6. ASSUME NEW c \in CommentCalls, WriteBody(c) PROVE CommentInv'
  <2> DEFINE i == writing[c].of
             row == [comment[i] EXCEPT !.body = writing[c].body]
  <2>1. /\ writing[c] # NOCOMMENT /\ i \in DOMAIN comment /\ FinishWrite(c)
        /\ comment' = [comment EXCEPT ![i] = row]
        /\ UNCHANGED <<commented, reaction, overtaken>>
    BY <1>6 DEF WriteBody
  <2>2. comment[i] \in CommentRow /\ writing[c].body \in Bodies
    BY <2>1, RowsTyped, WriteTyped DEF CommentInv, Write
  <2>3. /\ row \in CommentRow /\ row.parent = comment[i].parent
        /\ row.task = comment[i].task /\ row.deleted = comment[i].deleted
    BY <2>2 DEF CommentRow
  <2>4. /\ writing' \in [CommentCalls -> Write \cup {NOCOMMENT}]
        /\ \A d \in CommentCalls : writing'[d] \in {writing[d], NOCOMMENT}
    BY <2>1, FinishTyped
  <2> HIDE DEF row, i
  <2> QED BY <1>0, <2>1, <2>3, <2>4, ChangeKeeps
<1>7. ASSUME NEW c \in CommentCalls, AddReaction(c) PROVE CommentInv'
  <2>1. /\ writing[c] # NOCOMMENT /\ FinishWrite(c)
        /\ reaction' = reaction \cup {<<writing[c].of, writing[c].user, writing[c].emoji>>}
        /\ UNCHANGED <<commented, comment, overtaken>>
    BY <1>7 DEF AddReaction
  <2>2. reaction' \in SUBSET (CommentIds \X Authors \X Emojis)
    BY <2>1, WriteTyped DEF CommentInv, CommentTypeOK, Write
  <2> QED BY <2>1, <2>2, FinishTyped, EndKeeps
<1>8. ASSUME NEW c \in CommentCalls, FailWrite(c) PROVE CommentInv'
  <2>1. FinishWrite(c) /\ UNCHANGED <<commented, comment, reaction, overtaken>>
    BY <1>8 DEF FailWrite
  <2>2. reaction' \in SUBSET (CommentIds \X Authors \X Emojis)
    BY <2>1 DEF CommentInv, CommentTypeOK
  <2> QED BY <2>1, <2>2, FinishTyped, EndKeeps
<1>9. ASSUME NEW i \in CommentIds, NEW u \in Authors, NEW e \in Emojis,
             RemoveReaction(i, u, e)
      PROVE  CommentInv'
  <2>1. reaction' \subseteq reaction /\ UNCHANGED <<commented, comment, writing, overtaken>>
    BY <1>9 DEF RemoveReaction
  <2>2. reaction' \in SUBSET (CommentIds \X Authors \X Emojis)
    BY <2>1 DEF CommentInv, CommentTypeOK
  <2> QED BY <1>0, <2>1, <2>2, EndKeeps
<1>10. ASSUME NEW i \in CommentIds, SoftDelete(i) PROVE CommentInv'
  <2> DEFINE row == [comment[i] EXCEPT !.deleted = TRUE]
  <2>1. /\ i \in DOMAIN comment /\ comment' = [comment EXCEPT ![i] = row]
        /\ UNCHANGED <<commented, reaction, writing>>
        /\ overtaken' \in {overtaken, overtaken \cup {i}}
        /\ (\E c \in CommentCalls : /\ writing[c] # NOCOMMENT /\ writing[c].of = i
                                    /\ writing[c].do \in {"edit", "react"})
             => i \in overtaken'
    BY <1>10 DEF SoftDelete
  <2>2. comment[i] \in CommentRow BY <2>1, RowsTyped DEF CommentInv
  <2>3. /\ row \in CommentRow /\ row.parent = comment[i].parent
        /\ row.task = comment[i].task
    BY <2>2 DEF CommentRow
  <2>4. overtaken' \in SUBSET CommentIds /\ overtaken \subseteq overtaken' BY <1>0, <2>1
  <2> HIDE DEF row
  <2> QED BY <1>0, <2>1, <2>3, <2>4, ChangeKeeps
<1>11. ASSUME NEW t \in CommentTasks, DeleteCommentedTask(t) PROVE CommentInv'
  <2> DEFINE ids == {i \in DOMAIN comment : comment[i].task = t}
  <2>1. commented' \in SUBSET CommentTasks /\ DropComments(ids) /\ UNCHANGED writing
    BY <1>0, <1>11 DEF DeleteCommentedTask
  <2>2. ids \in SUBSET CommentIds BY RowsTyped DEF CommentInv
  <2> HIDE DEF ids
  <2> QED BY <2>1, <2>2, DropKeeps
<1>12. ASSUME UNCHANGED commentVars PROVE CommentInv'
  <2>1. UNCHANGED <<commented, comment, reaction, writing, overtaken>> BY <1>12 DEF commentVars
  <2>2. reaction' \in SUBSET (CommentIds \X Authors \X Emojis)
    BY <2>1 DEF CommentInv, CommentTypeOK
  <2> QED BY <1>0, <2>1, <2>2, EndKeeps
<1> QED
  BY <1>1, <1>2, <1>3, <1>4, <1>5, <1>6, <1>7, <1>8, <1>9, <1>10, <1>11, <1>12
  DEF CommentNext, postComment, patchComment, deleteComment, postReaction, deleteReaction

\* The invariant holds at first.
LEMMA CommentsInit == CommentInit => CommentInv
<1> SUFFICES ASSUME CommentInit PROVE CommentInv
  OBVIOUS
<1>1. DOMAIN comment = {} BY DEF CommentInit
<1>2. CommentTypeOK BY <1>1 DEF CommentInit, CommentTypeOK, Range
<1>3. OneLevelThreads BY <1>1 DEF OneLevelThreads
<1>4. ASSUME NEW c \in CommentCalls PROVE WriteFits(c) BY <1>1 DEF WriteFits
<1> QED BY <1>2, <1>3, <1>4 DEF CommentInv

\* Replies hang on comments that are no replies, on the same task, for any number of
\* comments, tasks and calls, whatever is removed and deleted between look and write.
THEOREM OneLevelThreadsHolds == CommentSpec => []OneLevelThreads
<1>1. CommentInv /\ [CommentNext]_commentVars => CommentInv' BY CommentsNext
<1>2. CommentInv => OneLevelThreads BY DEF CommentInv
<1> QED BY CommentsInit, <1>1, <1>2, PTL DEF CommentSpec

\* What a step may do to a removed comment.
LEMMA FrozenStep ==
  ASSUME CommentInv, [CommentNext]_commentVars,
         NEW i \in DOMAIN comment \cap DOMAIN comment', comment[i].deleted
  PROVE  /\ comment'[i].deleted
         /\ i \in overtaken \/ /\ comment'[i].body = comment[i].body
                                /\ {r \in reaction' : r[1] = i} \subseteq reaction
<1> DEFINE Goal == /\ comment'[i].deleted
                   /\ i \in overtaken \/ /\ comment'[i].body = comment[i].body
                                         /\ {r \in reaction' : r[1] = i} \subseteq reaction
<1>0. i \in DOMAIN comment /\ i \in CommentIds /\ comment[i] \in CommentRow
  BY RowsTyped DEF CommentInv
<1>1. ASSUME comment' = comment, reaction' \subseteq reaction PROVE Goal BY <1>1
<1>2. ASSUME NEW row, InsertComment(row), UNCHANGED reaction PROVE Goal
  <2>1. comment'[i] = comment[i] BY <1>0, <1>2 DEF InsertComment, Put
  <2> QED BY <1>2, <2>1
<1>3. ASSUME NEW ids, DropComments(ids) PROVE Goal
  <2>1. DOMAIN comment' \subseteq DOMAIN comment /\ comment'[i] = comment[i]
    BY <1>3 DEF DropComments, Drop, Restrict
  <2>2. reaction' \subseteq reaction BY <1>3 DEF DropComments
  <2> QED BY <2>1, <2>2
<1>4. ASSUME NEW c \in CommentCalls, WriteBody(c) PROVE Goal
  <2> DEFINE j == writing[c].of
  <2>1. /\ writing[c] # NOCOMMENT /\ writing[c].do = "edit" /\ j \in DOMAIN comment
        /\ comment' = [comment EXCEPT ![j].body = writing[c].body] /\ UNCHANGED reaction
    BY <1>4 DEF WriteBody
  <2>2. WriteFits(c) BY DEF CommentInv
  <2>3. ~comment[j].deleted \/ j \in overtaken BY <2>1, <2>2 DEF WriteFits
  <2>4. comment'[i].deleted BY <1>0, <2>1 DEF CommentRow
  <2>5. CASE i = j BY <2>1, <2>3, <2>4, <2>5
  <2>6. CASE i # j BY <1>0, <2>1, <2>4, <2>6
  <2> QED BY <2>5, <2>6
<1>5. ASSUME NEW c \in CommentCalls, AddReaction(c) PROVE Goal
  <2> DEFINE j == writing[c].of
  <2>1. /\ writing[c] # NOCOMMENT /\ writing[c].do = "react" /\ j \in DOMAIN comment
        /\ reaction' = reaction \cup {<<j, writing[c].user, writing[c].emoji>>}
        /\ UNCHANGED comment
    BY <1>5 DEF AddReaction
  <2>2. WriteFits(c) BY DEF CommentInv
  <2>3. ~comment[j].deleted \/ j \in overtaken BY <2>1, <2>2 DEF WriteFits
  <2>4. CASE i = j BY <2>1, <2>3, <2>4
  <2>5. CASE i # j BY <2>1, <2>5
  <2> QED BY <2>4, <2>5
<1>6. ASSUME NEW j \in CommentIds, SoftDelete(j) PROVE Goal
  <2>1. comment' = [comment EXCEPT ![j].deleted = TRUE] /\ UNCHANGED reaction
    BY <1>6 DEF SoftDelete
  <2> QED BY <1>0, <2>1 DEF CommentRow
<1>7. ASSUME UNCHANGED <<comment, reaction>> PROVE Goal BY <1>1, <1>7
<1>8. ASSUME NEW u \in Authors, NEW j \in CommentIds, NEW e \in Emojis,
             RemoveReaction(j, u, e)
      PROVE  Goal
  BY <1>1, <1>8 DEF RemoveReaction
<1>9. ASSUME NEW u \in Authors, NEW c \in CommentCalls, postComment(c, u) PROVE Goal
  <2>1. ASSUME NEW t \in CommentTasks, TopLevelComment(t, u) PROVE Goal
    BY <1>2, <2>1 DEF TopLevelComment
  <2>2. ASSUME NEW j \in CommentIds, Reply(c, j, u) PROVE Goal
    BY <1>7, <2>2 DEF Reply, BeginWrite
  <2>3. ASSUME WriteReply(c) PROVE Goal BY <1>2, <2>3 DEF WriteReply
  <2> HIDE DEF Goal
  <2> QED BY <1>9, <2>1, <2>2, <2>3 DEF postComment
<1>10. ASSUME NEW u \in Authors, NEW c \in CommentCalls, patchComment(c, u) PROVE Goal
  <2>1. ASSUME NEW j \in CommentIds, NEW b \in Bodies, UpdateComment(c, j, u, b) PROVE Goal
    BY <1>7, <2>1 DEF UpdateComment, BeginWrite
  <2> HIDE DEF Goal
  <2> QED BY <1>4, <1>10, <2>1 DEF patchComment
<1>11. ASSUME NEW u \in Authors, NEW c \in CommentCalls, postReaction(c, u) PROVE Goal
  <2>1. ASSUME NEW j \in CommentIds, NEW e \in Emojis, React(c, j, u, e) PROVE Goal
    BY <1>7, <2>1 DEF React, BeginWrite
  <2> HIDE DEF Goal
  <2> QED BY <1>5, <1>11, <2>1 DEF postReaction
<1>12. ASSUME NEW c \in CommentCalls, FailWrite(c) PROVE Goal BY <1>7, <1>12 DEF FailWrite
<1>13. ASSUME NEW t \in CommentTasks, DeleteCommentedTask(t) PROVE Goal
  BY <1>3, <1>13 DEF DeleteCommentedTask
<1>14. ASSUME UNCHANGED commentVars PROVE Goal BY <1>7, <1>14 DEF commentVars
<1> HIDE DEF Goal
<1>15. Goal
  BY <1>6, <1>8, <1>9, <1>10, <1>11, <1>12, <1>13, <1>14
  DEF CommentNext, deleteComment, deleteReaction
<1> QED BY <1>15 DEF Goal

\* A removed comment stays removed and is neither rewritten nor reacted to, but by calls
\* that had looked before.
THEOREM FrozenOnceDeletedHolds == CommentSpec => FrozenOnceDeleted
<1>1. CommentInv /\ [CommentNext]_commentVars => CommentInv' BY CommentsNext
<1>2. CommentInv /\ [CommentNext]_commentVars =>
        [\A i \in DOMAIN comment \cap DOMAIN comment' : comment[i].deleted =>
           /\ comment'[i].deleted
           /\ i \in overtaken \/ /\ comment'[i].body = comment[i].body
                                  /\ {r \in reaction' : r[1] = i} \subseteq reaction]_commentVars
  BY FrozenStep
<1> QED BY CommentsInit, <1>1, <1>2, PTL DEF CommentSpec, FrozenOnceDeleted

-----------------------------------------------------------------------------
(* Chat.                                                                    *)

\* Rows, calls and what was told have their types.
MessagesTyped ==
    /\ DOMAIN message \subseteq MessageIds
    /\ \A m \in DOMAIN message : message[m] \in MessageRow
    /\ sending \in [ChatCalls -> Sending \cup {NOCHAT}]
    /\ told \in [MessageIds -> MessageRow \cup {NOCHAT, UNKNOWN}]

\* What a call holds of a message that it alone works on.
CallFits(c, m) ==
    /\ sending[c].do = "edit" => sending[c].row = [message[m] EXCEPT !.body = sending[c].row.body]
    /\ sending[c].do # "edit" => sending[c].row = message[m]
    /\ sending[c].do # "publish" => told[m] = message[m]

\* As long as what was told of a message is followed, at most one call works on it,
\* with a copy that fits the row, and between calls the room knows the row.
MessageFits(m) ==
    m \in DOMAIN message /\ told[m] # UNKNOWN =>
        /\ \A c, d \in On(m) : c = d
        /\ \A c \in On(m) : CallFits(c, m)
        /\ On(m) = {} => told[m] = message[m]

ChatInv == MessagesTyped /\ \A m \in MessageIds : MessageFits(m)

\* A step that touches neither the row of a message nor a call on it.
LEMMA MessageApart ==
  ASSUME NEW m, MessageFits(m),
         m \in DOMAIN message' => m \in DOMAIN message /\ message'[m] = message[m],
         told'[m] \in {told[m], UNKNOWN}, 
         \A c \in ChatCalls : (c \in On(m)' <=> c \in On(m)) /\ (c \in On(m) => sending'[c] = sending[c])
  PROVE  MessageFits(m)'
<1>1. On(m)' = On(m) BY DEF On
<1>2. \A c \in On(m) : c \in ChatCalls /\ sending'[c] = sending[c] BY DEF On
<1> QED BY <1>1, <1>2 DEF MessageFits, CallFits

\* Steps on channels and members alone.
LEMMA ChannelKeeps ==
  ASSUME ChatInv, UNCHANGED <<message, sending, told>>
  PROVE  ChatInv'
BY DEF ChatInv, MessagesTyped, MessageFits, CallFits, On

\* Channels are deleted with their messages.
LEMMA ChannelsDropped ==
  ASSUME ChatInv, NEW ids, DropChannels(ids)
  PROVE  ChatInv'
<1> DEFINE gone == WithReplies({m \in DOMAIN message : message[m].channel \in ids})
<1>1. /\ message' = [m \in DOMAIN message \ gone |-> message[m]]
      /\ told' = [m \in MessageIds |-> IF m \in gone THEN UNKNOWN ELSE told[m]]
      /\ sending' = sending
  <2>1. DOMAIN message \ (DOMAIN message \ gone) \subseteq gone OBVIOUS
  <2> QED BY DEF DropChannels, Drop, Restrict
<1> HIDE DEF gone
<1>2. DOMAIN message' = DOMAIN message \ gone /\ \A m \in DOMAIN message' : message'[m] = message[m]
  BY <1>1
<1>3. MessagesTyped' BY <1>1, <1>2 DEF ChatInv, MessagesTyped
<1>4. ASSUME NEW m \in MessageIds PROVE MessageFits(m)'
  <2>1. On(m)' = On(m) BY <1>1 DEF On
  <2>2. told'[m] \in {told[m], UNKNOWN} BY <1>1
  <2> QED BY <1>1, <1>2, <2>1, <2>2, MessageApart DEF ChatInv
<1> QED BY <1>3, <1>4 DEF ChatInv

\* A call begins with a copy of the row, edited or not.
LEMMA CallBegins ==
  ASSUME ChatInv, NEW c \in ChatCalls, NEW m \in DOMAIN message, NEW do \in {"edit", "delete"},
         NEW row \in MessageRow, BeginSend(c, m, do, row), UNCHANGED message,
         do = "edit" => row = [message[m] EXCEPT !.body = row.body],
         do = "delete" => row = message[m]
  PROVE  ChatInv'
<1>1. PICK s : s = [id |-> m, do |-> do, row |-> row] OBVIOUS
<1>2. s \in Sending /\ s # NOCHAT /\ s.id = m /\ s.do = do /\ s.row = row
  <2>1. m \in MessageIds BY DEF ChatInv, MessagesTyped
  <2>2. s \in Sending BY <1>1, <2>1 DEF Sending
  <2> QED BY <1>1, <2>2, ChatConstants
<1>3. /\ sending' = [sending EXCEPT ![c] = s] /\ sending[c] = NOCHAT
      /\ told' = IF On(m) # {} THEN [told EXCEPT ![m] = UNKNOWN] ELSE told
  BY <1>1 DEF BeginSend
<1>4. /\ sending' \in [ChatCalls -> Sending \cup {NOCHAT}] /\ sending'[c] = s
      /\ \A d \in ChatCalls \ {c} : sending'[d] = sending[d]
  BY <1>2, <1>3 DEF ChatInv, MessagesTyped
<1>5. told' \in [MessageIds -> MessageRow \cup {NOCHAT, UNKNOWN}]
      /\ \A n \in MessageIds \ {m} : told'[n] = told[n]
  BY <1>3 DEF ChatInv, MessagesTyped
<1>6. ASSUME NEW n \in MessageIds, n # m PROVE MessageFits(n)'
  <2>1. \A d \in ChatCalls : (d \in On(n)' <=> d \in On(n)) /\ (d \in On(n) => sending'[d] = sending[d])
    BY <1>2, <1>3, <1>4, <1>6 DEF On
  <2> QED BY <1>5, <1>6, <2>1, MessageApart DEF ChatInv
<1>7. MessageFits(m)'
  <2>1. CASE On(m) # {}
    <3>1. told'[m] = UNKNOWN BY <1>3, <2>1 DEF ChatInv, MessagesTyped
    <3> QED BY <3>1 DEF MessageFits
  <2>2. CASE On(m) = {}
    <3>1. On(m)' = {c} BY <1>2, <1>4, <2>2 DEF On
    <3>2. told'[m] # UNKNOWN => told'[m] = message[m]
      BY <1>3, <2>2 DEF ChatInv, MessageFits, MessagesTyped
    <3>3. told'[m] # UNKNOWN => CallFits(c, m)'
      BY <1>2, <1>4, <3>2 DEF CallFits
    <3> QED BY <3>1, <3>3 DEF MessageFits
  <2> QED BY <2>1, <2>2
<1> QED BY <1>4, <1>5, <1>6, <1>7 DEF ChatInv, MessagesTyped

\* A message is inserted, its publication to follow.
LEMMA Posted ==
  ASSUME ChatInv, NEW c \in ChatCalls, NEW u \in ChatUsers, NEW h \in ChannelIds, NEW m \in MessageIds,
         NEW parent \in MessageIds \cup {NOCHAT}, PostMessage(c, u, h, m, parent)
  PROVE  ChatInv'
<1>1. PICK row : row = [channel |-> h, author |-> u, parent |-> parent,
                        body |-> CHOOSE b \in ChatBodies : TRUE, deleted |-> FALSE]
  OBVIOUS
<1>2. row \in MessageRow
  <2>1. (CHOOSE b \in ChatBodies : TRUE) \in ChatBodies BY ChatConstants
  <2> QED BY <1>1, <2>1 DEF MessageRow
<1>3. PICK s : s = [id |-> m, do |-> "publish", row |-> row] OBVIOUS
<1>4. s \in Sending /\ s # NOCHAT /\ s.id = m /\ s.do = "publish" /\ s.row = row
  <2>1. s \in Sending BY <1>2, <1>3 DEF Sending
  <2> QED BY <1>3, <2>1, ChatConstants
<1>5. /\ message' = Put(message, m, row) /\ On(m) = {}
      /\ sending[c] = NOCHAT /\ sending' = [sending EXCEPT ![c] = s] /\ told' = told
  BY <1>1, <1>3 DEF PostMessage, BeginSend
<1>6. /\ DOMAIN message' = DOMAIN message \cup {m} /\ message'[m] = row
      /\ \A n \in DOMAIN message \ {m} : message'[n] = message[n]
  BY <1>5 DEF Put
<1>7. /\ sending' \in [ChatCalls -> Sending \cup {NOCHAT}] /\ sending'[c] = s
      /\ \A d \in ChatCalls \ {c} : sending'[d] = sending[d]
  BY <1>4, <1>5 DEF ChatInv, MessagesTyped
<1>8. ASSUME NEW n \in MessageIds, n # m PROVE MessageFits(n)'
  <2>1. \A d \in ChatCalls : (d \in On(n)' <=> d \in On(n)) /\ (d \in On(n) => sending'[d] = sending[d])
    BY <1>4, <1>5, <1>7, <1>8 DEF On
  <2> QED BY <1>5, <1>6, <1>8, <2>1, MessageApart DEF ChatInv
<1>9. MessageFits(m)'
  <2>1. On(m)' = {c} BY <1>4, <1>5, <1>7 DEF On
  <2>2. CallFits(c, m)' BY <1>4, <1>6, <1>7 DEF CallFits
  <2> QED BY <2>1, <2>2 DEF MessageFits
<1>10. MessagesTyped' BY <1>2, <1>5, <1>6, <1>7 DEF ChatInv, MessagesTyped
<1> QED BY <1>8, <1>9, <1>10 DEF ChatInv

\* A call has stored what it holds, and goes on to publish it.
LEMMA CallStores ==
  ASSUME ChatInv, NEW c \in ChatCalls, NEW m \in MessageIds, sending[c] # NOCHAT, sending[c].id = m,
         NEW s \in Sending, s.id = m, s.do = "publish",
         sending' = [sending EXCEPT ![c] = s], UNCHANGED told,
         DOMAIN message' = DOMAIN message,
         \A n \in DOMAIN message \ {m} : message'[n] = message[n],
         m \in DOMAIN message => message'[m] \in MessageRow,
         m \in DOMAIN message /\ told[m] # UNKNOWN => message'[m] = s.row
  PROVE  ChatInv'
<1>1. s # NOCHAT BY ChatConstants
<1>2. /\ sending' \in [ChatCalls -> Sending \cup {NOCHAT}] /\ sending'[c] = s
      /\ \A d \in ChatCalls \ {c} : sending'[d] = sending[d]
  BY DEF ChatInv, MessagesTyped
<1>3. ASSUME NEW n \in MessageIds PROVE On(n)' = On(n)
  BY <1>1, <1>2 DEF On
<1>4. ASSUME NEW n \in MessageIds, n # m PROVE MessageFits(n)'
  <2>1. \A d \in ChatCalls : d \in On(n) => sending'[d] = sending[d]
    BY <1>2, <1>4 DEF On
  <2> QED BY <1>3, <1>4, <2>1, MessageApart DEF ChatInv
<1>5. MessageFits(m)'
  <2> SUFFICES ASSUME m \in DOMAIN message, told[m] # UNKNOWN
               PROVE  /\ \A d, e \in On(m)' : d = e
                      /\ \A d \in On(m)' : CallFits(d, m)'
                      /\ On(m)' = {} => told'[m] = message'[m]
    BY DEF MessageFits
  <2>1. On(m)' = {c}
    <3>1. c \in On(m) BY DEF On
    <3>2. \A d, e \in On(m) : d = e BY DEF ChatInv, MessageFits
    <3> QED BY <1>3, <3>1, <3>2
  <2>2. CallFits(c, m)' BY <1>2 DEF CallFits
  <2> QED BY <2>1, <2>2
<1>6. MessagesTyped' BY <1>2 DEF ChatInv, MessagesTyped
<1> QED BY <1>4, <1>5, <1>6 DEF ChatInv

\* The statement of an edit: the row has the new body, the call its copy.
LEMMA BodyUpdated == ASSUME ChatInv, NEW c \in ChatCalls, UpdateBody(c) PROVE ChatInv'
<1>1. PICK b, m : b = sending[c] /\ m = sending[c].id OBVIOUS
<1>2. b # NOCHAT /\ b \in Sending /\ m \in MessageIds /\ b.do = "edit" /\ b.row \in MessageRow /\ b.id = m
  BY <1>1 DEF UpdateBody, ChatInv, MessagesTyped, Sending
<1>3. PICK s : s = [b EXCEPT !.do = "publish"] OBVIOUS
<1>4. s \in Sending /\ s.id = m /\ s.do = "publish" /\ s.row = b.row BY <1>2, <1>3 DEF Sending
<1>5. sending' = [sending EXCEPT ![c] = s] /\ told' = told BY <1>1, <1>3 DEF UpdateBody
<1>6. message' = IF m \in DOMAIN message THEN [message EXCEPT ![m].body = b.row.body] ELSE message
  BY <1>1 DEF UpdateBody
<1>7. DOMAIN message' = DOMAIN message /\ \A n \in DOMAIN message \ {m} : message'[n] = message[n]
  BY <1>6
<1>8. m \in DOMAIN message => message'[m] = [message[m] EXCEPT !.body = b.row.body]
  BY <1>6
<1>9. m \in DOMAIN message => message'[m] \in MessageRow
  <2> SUFFICES ASSUME m \in DOMAIN message PROVE message'[m] \in MessageRow OBVIOUS
  <2>1. PICK r \in MessageRow : r = message[m] BY DEF ChatInv, MessagesTyped
  <2>2. b.row.body \in ChatBodies \cup {EMPTY} BY <1>2 DEF MessageRow
  <2>3. [r EXCEPT !.body = b.row.body] \in MessageRow BY <2>2 DEF MessageRow
  <2> QED BY <1>8, <2>1, <2>3
<1>10. m \in DOMAIN message /\ told[m] # UNKNOWN => message'[m] = s.row
  <2>1. c \in On(m) BY <1>1, <1>2 DEF On
  <2> QED BY <1>1, <1>2, <1>4, <1>8, <2>1 DEF ChatInv, MessageFits, CallFits
<1> QED BY <1>1, <1>2, <1>4, <1>5, <1>7, <1>9, <1>10, CallStores

\* The statement of a deletion: the row is marked.
LEMMA SoftDeleted == ASSUME ChatInv, NEW c \in ChatCalls, SoftDeleteMessage(c) PROVE ChatInv'
<1>1. PICK b, m : b = sending[c] /\ m = sending[c].id OBVIOUS
<1>2. b # NOCHAT /\ b \in Sending /\ m \in MessageIds /\ b.do = "delete" /\ b.row \in MessageRow /\ b.id = m
  BY <1>1 DEF SoftDeleteMessage, ChatInv, MessagesTyped, Sending
<1>3. PICK r : r = [b.row EXCEPT !.body = EMPTY, !.deleted = TRUE] OBVIOUS
<1>4. r \in MessageRow BY <1>2, <1>3 DEF MessageRow
<1>5. PICK s : s = [id |-> m, do |-> "publish", row |-> r] OBVIOUS
<1>6. s \in Sending /\ s.id = m /\ s.do = "publish" /\ s.row = r BY <1>2, <1>4, <1>5 DEF Sending
<1>7. sending' = [sending EXCEPT ![c] = s]
  <2>1. sending' = [sending EXCEPT ![c].do = "publish", ![c].row.body = EMPTY, ![c].row.deleted = TRUE]
    BY DEF SoftDeleteMessage
  <2>2. [[[b EXCEPT !.do = "publish"] EXCEPT !.row.body = EMPTY] EXCEPT !.row.deleted = TRUE] = s
    <3>1. PICK q : q = [b EXCEPT !.do = "publish"] OBVIOUS
    <3>2. q = [id |-> m, do |-> "publish", row |-> b.row] BY <1>2, <3>1 DEF Sending
    <3>3. PICK q2 : q2 = [q EXCEPT !.row.body = EMPTY] OBVIOUS
    <3>4. PICK r2 : r2 = [b.row EXCEPT !.body = EMPTY] OBVIOUS
    <3>5. q2 = [id |-> m, do |-> "publish", row |-> r2] BY <3>2, <3>3, <3>4
    <3>6. r = [r2 EXCEPT !.deleted = TRUE] BY <1>3, <3>4
    <3>7. [q2 EXCEPT !.row.deleted = TRUE] = s
      <4>1. PICK q3 : q3 = [q2 EXCEPT !.row.deleted = TRUE] OBVIOUS
      <4>2. PICK r3 : r3 = [r2 EXCEPT !.deleted = TRUE] OBVIOUS
      <4>3. q3 = [id |-> m, do |-> "publish", row |-> r3] BY <3>5, <4>1, <4>2
      <4>4. r3 = r BY <3>6, <4>2
      <4> QED BY <1>5, <4>1, <4>3, <4>4
    <3> QED BY <3>1, <3>3, <3>7
  <2> QED BY <1>1, <2>1, <2>2 DEF ChatInv, MessagesTyped
<1>8. /\ told' = told
      /\ message' = IF m \in DOMAIN message
                    THEN [message EXCEPT ![m].body = EMPTY, ![m].deleted = TRUE] ELSE message
  BY <1>1 DEF SoftDeleteMessage
<1>9. DOMAIN message' = DOMAIN message /\ \A n \in DOMAIN message \ {m} : message'[n] = message[n]
  BY <1>8
<1>10. ASSUME m \in DOMAIN message
       PROVE  message'[m] \in MessageRow /\ (message[m] = b.row => message'[m] = r)
  <2>1. PICK q \in MessageRow : q = message[m] BY <1>10 DEF ChatInv, MessagesTyped
  <2>2. message'[m] = [q EXCEPT !.body = EMPTY, !.deleted = TRUE] BY <1>8, <1>10, <2>1
  <2>3. [q EXCEPT !.body = EMPTY, !.deleted = TRUE] \in MessageRow BY DEF MessageRow
  <2> QED BY <1>3, <2>1, <2>2, <2>3
<1>11. m \in DOMAIN message /\ told[m] # UNKNOWN => message'[m] = s.row
  <2>1. c \in On(m) BY <1>1, <1>2 DEF On
  <2> QED BY <1>1, <1>2, <1>6, <1>10, <2>1 DEF ChatInv, MessageFits, CallFits
<1> QED BY <1>1, <1>2, <1>6, <1>7, <1>8, <1>9, <1>10, <1>11, CallStores

\* A call ends: what it held is told, or what it has told is no longer followed, or it
\* leaves what was told as it was.
LEMMA CallEnds ==
  ASSUME ChatInv, NEW c \in ChatCalls, publishMessage(c) \/ CutOff(c)
  PROVE  ChatInv'
<1>1. PICK s, m : s = sending[c] /\ m = sending[c].id OBVIOUS
<1>2. s # NOCHAT /\ s \in Sending /\ m \in MessageIds /\ s.row \in MessageRow /\ s.id = m
  BY <1>1 DEF publishMessage, CutOff, ChatInv, MessagesTyped, Sending
<1>3. sending' = [sending EXCEPT ![c] = NOCHAT] /\ message' = message BY DEF publishMessage, CutOff
<1>4. /\ sending' \in [ChatCalls -> Sending \cup {NOCHAT}] /\ sending'[c] = NOCHAT
      /\ \A d \in ChatCalls \ {c} : sending'[d] = sending[d]
  BY <1>3 DEF ChatInv, MessagesTyped
<1>5. /\ told' \in [MessageIds -> MessageRow \cup {NOCHAT, UNKNOWN}]
      /\ \A n \in MessageIds \ {m} : told'[n] = told[n]
      /\ \/ told'[m] = UNKNOWN
         \/ s.do = "publish" /\ told[m] # UNKNOWN /\ told'[m] = s.row
         \/ s.do # "publish" /\ told'[m] = told[m]
  BY <1>1, <1>2 DEF publishMessage, CutOff, ChatInv, MessagesTyped
<1>6. ASSUME NEW n \in MessageIds, n # m PROVE MessageFits(n)'
  <2>1. \A d \in ChatCalls : (d \in On(n)' <=> d \in On(n)) /\ (d \in On(n) => sending'[d] = sending[d])
    BY <1>1, <1>4, <1>6 DEF On
  <2> QED BY <1>3, <1>5, <1>6, <2>1, MessageApart DEF ChatInv
<1>7. MessageFits(m)'
  <2> SUFFICES ASSUME m \in DOMAIN message, told'[m] # UNKNOWN
               PROVE  On(m)' = {} /\ told'[m] = message[m]
    BY <1>3 DEF MessageFits
  <2>1. c \in On(m) BY <1>1, <1>2 DEF On
  <2>2. told[m] # UNKNOWN BY <1>5
  <2>3. On(m) = {c} /\ CallFits(c, m) BY <1>2, <2>1, <2>2 DEF ChatInv, MessageFits
  <2>4. On(m)' = {} BY <1>4, <2>3 DEF On
  <2>5. told'[m] = message[m] BY <1>1, <1>5, <2>3 DEF CallFits
  <2> QED BY <2>4, <2>5
<1>8. MessagesTyped' BY <1>3, <1>4, <1>5 DEF ChatInv, MessagesTyped
<1> QED BY <1>6, <1>7, <1>8 DEF ChatInv

\* Every step keeps the invariant.
LEMMA ChatStep == ASSUME ChatInv, [ChatNext]_chatVars PROVE ChatInv'
<1>1. CASE UNCHANGED chatVars BY <1>1, ChannelKeeps DEF chatVars
<1>2. CASE ChannelNext
  <2>1. ASSUME NEW h \in ChannelIds, NEW s, NEW u, NEW p, CreateChannel(h, s, u, p) PROVE ChatInv'
    BY <2>1, ChannelKeeps DEF CreateChannel, messagesFixed
  <2>2. ASSUME NEW h \in ChannelIds, NEW p, UpdateChannel(h, p) PROVE ChatInv'
    BY <2>2, ChannelKeeps DEF UpdateChannel, messagesFixed
  <2>3. ASSUME NEW h \in ChannelIds, NEW u, AddChannelMember(h, u) \/ RemoveChannelMember(h, u)
        PROVE  ChatInv'
    BY <2>3, ChannelKeeps DEF AddChannelMember, RemoveChannelMember, messagesFixed
  <2>4. ASSUME NEW h, DeleteChannel(h) PROVE ChatInv'
    BY <2>4, ChannelsDropped DEF DeleteChannel
  <2>5. ASSUME NEW s, DeleteChatSpace(s) PROVE ChatInv'
    BY <2>5, ChannelsDropped DEF DeleteChatSpace
  <2> QED BY <1>2, <2>1, <2>2, <2>3, <2>4, <2>5
        DEF ChannelNext, createForSpace, changeChannel, changeMembers
<1>3. ASSUME NEW c \in ChatCalls, NEW u \in ChatUsers, NEW m \in MessageIds, changeMessage(c, u, m)
      PROVE  ChatInv'
  <2>1. CASE DeleteMessage(c, u, m)
    BY <2>1, CallBegins DEF DeleteMessage, ChatInv, MessagesTyped
  <2>2. ASSUME NEW b \in ChatBodies, EditMessage(c, u, m, b) PROVE ChatInv'
    <3>1. PICK q \in MessageRow : q = message[m] /\ m \in DOMAIN message
      BY <2>2 DEF EditMessage, ChatInv, MessagesTyped
    <3>2. PICK row : row = [q EXCEPT !.body = b] OBVIOUS
    <3>3. row \in MessageRow /\ row.body = b BY <3>2 DEF MessageRow
    <3>4. BeginSend(c, m, "edit", row) /\ UNCHANGED message BY <2>2, <3>1, <3>2 DEF EditMessage
    <3> QED BY <3>1, <3>2, <3>3, <3>4, CallBegins
  <2> QED BY <1>3, <2>1, <2>2 DEF changeMessage
<1>4. ASSUME NEW c \in ChatCalls, NEW u \in ChatUsers, NEW m \in MessageIds, postMessage(c, u, m)
      PROVE  ChatInv'
  BY <1>4, Posted DEF postMessage
<1> QED BY <1>1, <1>2, <1>3, <1>4, BodyUpdated, SoftDeleted, CallEnds DEF ChatNext, MessageNext

\* Readers were told the row of a message that no call works on (service/chat: store first,
\* publish what is in memory), unless calls overlapped or one was cut off.
THEOREM RoomSeesRowHolds == ChatSpec => []RoomSeesRow
<1>1. ChatInit => ChatInv
  <2> SUFFICES ASSUME ChatInit PROVE ChatInv OBVIOUS
  <2>1. DOMAIN message = {} BY DEF ChatInit
  <2> QED BY <2>1 DEF ChatInit, ChatInv, MessagesTyped, MessageFits
<1>2. ChatInv => RoomSeesRow BY DEF ChatInv, MessagesTyped, MessageFits, RoomSeesRow
<1> QED BY <1>1, <1>2, ChatStep, PTL DEF ChatSpec

-----------------------------------------------------------------------------
(* Files and their rows.                                                    *)

OnFile == {"insertRow", "deleteRow", "removeFile"}

\* Every call in flight is a job.
Shaped == work = [c \in ContentCalls |-> Job(work[c].do, work[c].id, work[c].copy, work[c].task)]

\* While its row is missing, an upload has its file and its key to itself; who is to
\* remove a file has seen to it that there is no row, or was told so.
JobFits(c) ==
    /\ work[c].do = "insertRow" =>
         /\ work[c].id \in file \ DOMAIN attachment
         /\ \A d \in ContentCalls \ {c} : work[d].do \in OnFile => work[d].id # work[c].id
    /\ work[c].do = "removeFile" => work[c].id \notin DOMAIN attachment \ unsure

\* What RowHasFile rests on.
FileInv == Shaped /\ RowHasFile /\ \A c \in ContentCalls : JobFits(c)

\* The fields of a job.
LEMMA JobFields ==
  ASSUME NEW do, NEW id, NEW copy, NEW task
  PROVE  /\ Job(do, id, copy, task).do = do /\ Job(do, id, copy, task).id = id
         /\ Job(do, id, copy, task).copy = copy /\ Job(do, id, copy, task).task = task
BY DEF Job

\* One call gets another job.
LEMMA NewJob ==
  ASSUME Shaped, NEW c \in ContentCalls, NEW do, NEW id, NEW copy, NEW task,
         work' = [work EXCEPT ![c] = Job(do, id, copy, task)]
  PROVE  /\ Shaped' /\ work'[c].do = do /\ work'[c].id = id
         /\ \A d \in ContentCalls \ {c} : work'[d] = work[d]
<1> DEFINE job == Job(do, id, copy, task)
<1>1. job = Job(job.do, job.id, job.copy, job.task) /\ job.do = do /\ job.id = id
  BY JobFields
<1>2. DOMAIN work = ContentCalls BY DEF Shaped
<1> HIDE DEF job
<1>3. work' = [work EXCEPT ![c] = job] BY DEF job
<1>4. /\ work' = [d \in ContentCalls |-> work'[d]] /\ work'[c] = job
      /\ \A d \in ContentCalls \ {c} : work'[d] = work[d]
  BY <1>2, <1>3
<1>5. \A d \in ContentCalls :
        work'[d] = Job(work'[d].do, work'[d].id, work'[d].copy, work'[d].task)
  BY <1>1, <1>4 DEF Shaped
<1> QED BY <1>1, <1>4, <1>5 DEF Shaped

\* What the start of a job changes.
LEMMA StartWorkStep ==
  ASSUME Shaped, NEW c \in ContentCalls, NEW do, NEW id, NEW copy, NEW task,
         StartWork(c, Job(do, id, copy, task))
  PROVE  /\ Shaped' /\ work'[c].do = do /\ work'[c].id = id
         /\ \A d \in ContentCalls \ {c} : work'[d] = work[d]
BY NewJob DEF StartWork

\* What the end of a job changes.
LEMMA EndWorkStep ==
  ASSUME Shaped, NEW c \in ContentCalls, EndWork(c)
  PROVE  /\ Shaped' /\ work'[c].do = "none"
         /\ \A d \in ContentCalls \ {c} : work'[d] = work[d]
BY NewJob DEF EndWork, NoJob

\* What going on to the next step of a job changes.
LEMMA GoOnStep ==
  ASSUME Shaped, NEW c \in ContentCalls, NEW do, GoOn(c, do)
  PROVE  /\ Shaped' /\ work'[c].do = do /\ work'[c].id = work[c].id
         /\ \A d \in ContentCalls \ {c} : work'[d] = work[d]
<1>1. work[c] = Job(work[c].do, work[c].id, work[c].copy, work[c].task) BY DEF Shaped
<1>2. [work[c] EXCEPT !.do = do] = Job(do, work[c].id, work[c].copy, work[c].task)
  BY <1>1 DEF Job
<1>3. work' = [work EXCEPT ![c] = Job(do, work[c].id, work[c].copy, work[c].task)]
  BY <1>2 DEF GoOn
<1> QED BY <1>3, NewJob

\* A step that has nothing to do with files but deletes rows.
LEMMA Elsewhere ==
  ASSUME FileInv, Shaped', UNCHANGED <<file, unsure>>,
         DOMAIN attachment' \subseteq DOMAIN attachment,
         \A c \in ContentCalls : work'[c] = work[c] \/ work'[c].do \notin OnFile
  PROVE  FileInv'
<1>1. RowHasFile' BY DEF FileInv, RowHasFile
<1>2. ASSUME NEW c \in ContentCalls PROVE JobFits(c)'
  <2>1. JobFits(c) BY DEF FileInv
  <2>2. CASE work'[c] = work[c]
    <3>1. ASSUME NEW d \in ContentCalls \ {c}, work'[d].do \in OnFile PROVE work'[d] = work[d]
      BY <3>1
    <3> QED BY <2>1, <2>2, <3>1 DEF JobFits
  <2>3. CASE work'[c].do \notin OnFile BY <2>3 DEF JobFits, OnFile
  <2> QED BY <2>2, <2>3
<1> QED BY <1>1, <1>2 DEF FileInv

\* The rows left after a deletion.
LEMMA DropShrinks ==
  ASSUME NEW table, NEW ids
  PROVE  DOMAIN Drop(table, ids) = DOMAIN table \ ids
BY DEF Drop, Restrict

\* An upload stores its file under a new key.
LEMMA UploadKeeps ==
  ASSUME FileInv, NEW c \in ContentCalls, NEW a \in Uploads, NEW t, Upload(c, a, t)
  PROVE  FileInv'
<1>1. /\ a \notin DOMAIN attachment /\ \A d \in ContentCalls : work[d].id # a
      /\ file' = file \cup {a} /\ unsure' = unsure \ {a} /\ UNCHANGED attachment
      /\ StartWork(c, Job("insertRow", a, NOROW, t))
  BY DEF Upload, NewId, fileVars
<1>2. /\ Shaped' /\ work'[c].do = "insertRow" /\ work'[c].id = a
      /\ \A d \in ContentCalls \ {c} : work'[d] = work[d]
  BY <1>1, StartWorkStep DEF FileInv
<1>3. RowHasFile' BY <1>1 DEF FileInv, RowHasFile
<1>4. ASSUME NEW d \in ContentCalls PROVE JobFits(d)'
  <2>1. JobFits(d) BY DEF FileInv
  <2>2. CASE d = c BY <1>1, <1>2, <2>2 DEF JobFits
  <2>3. CASE d # c BY <1>1, <1>2, <2>1, <2>3 DEF JobFits
  <2> QED BY <2>2, <2>3
<1> QED BY <1>2, <1>3, <1>4 DEF FileInv

\* Its row is inserted, or refused when the task is gone.
LEMMA InsertAttachmentKeeps ==
  ASSUME FileInv, NEW c \in ContentCalls, InsertAttachment(c)
  PROVE  FileInv'
<1>1. /\ work[c].do = "insertRow" /\ UNCHANGED <<file, unsure>> /\ EndWork(c)
      /\ DOMAIN attachment' = DOMAIN attachment \cup {work[c].id}
  BY DEF InsertAttachment, Working, Put
<1>2. /\ Shaped' /\ work'[c].do = "none"
      /\ \A d \in ContentCalls \ {c} : work'[d] = work[d]
  BY <1>1, EndWorkStep DEF FileInv
<1>3. JobFits(c) BY DEF FileInv
<1>4. RowHasFile' BY <1>1, <1>3 DEF FileInv, RowHasFile, JobFits
<1>5. ASSUME NEW d \in ContentCalls PROVE JobFits(d)'
  <2>1. JobFits(d) BY DEF FileInv
  <2>2. CASE d = c BY <1>2, <2>2 DEF JobFits
  <2>3. CASE d # c BY <1>1, <1>2, <1>3, <2>1, <2>3 DEF JobFits, OnFile
  <2> QED BY <2>2, <2>3
<1> QED BY <1>2, <1>4, <1>5 DEF FileInv

\* The file of a row that is reported to have been refused is removed.
LEMMA UndoUploadKeeps ==
  ASSUME FileInv, NEW c \in ContentCalls, UndoUpload(c)
  PROVE  FileInv'
<1>1. /\ work[c].do = "insertRow" /\ UNCHANGED file /\ GoOn(c, "removeFile")
      /\ \/ UNCHANGED <<attachment, unsure>>
         \/ /\ DOMAIN attachment' = DOMAIN attachment \cup {work[c].id}
            /\ unsure' = unsure \cup {work[c].id}
  BY DEF UndoUpload, Working, Put
<1>2. /\ Shaped' /\ work'[c].do = "removeFile" /\ work'[c].id = work[c].id
      /\ \A d \in ContentCalls \ {c} : work'[d] = work[d]
  BY <1>1, GoOnStep DEF FileInv
<1>3. JobFits(c) BY DEF FileInv
<1>4. RowHasFile' BY <1>1 DEF FileInv, RowHasFile
<1>5. ASSUME NEW d \in ContentCalls PROVE JobFits(d)'
  <2>1. JobFits(d) BY DEF FileInv
  <2>2. CASE d = c BY <1>1, <1>2, <1>3, <2>2 DEF JobFits
  <2>3. CASE d # c BY <1>1, <1>2, <1>3, <2>1, <2>3 DEF JobFits, OnFile
  <2> QED BY <2>2, <2>3
<1> QED BY <1>2, <1>4, <1>5 DEF FileInv

\* A deletion reads the row.
LEMMA DeleteAttachmentKeeps ==
  ASSUME FileInv, NEW c \in ContentCalls, NEW a \in Uploads, DeleteAttachment(c, a)
  PROVE  FileInv'
<1>1. /\ a \in DOMAIN attachment /\ UNCHANGED <<attachment, file, unsure>>
      /\ StartWork(c, Job("deleteRow", a, NOROW, NOROW))
  BY DEF DeleteAttachment, fileVars
<1>2. /\ Shaped' /\ work'[c].do = "deleteRow" /\ work'[c].id = a
      /\ \A d \in ContentCalls \ {c} : work'[d] = work[d]
  BY <1>1, StartWorkStep DEF FileInv
<1>3. RowHasFile' BY <1>1 DEF FileInv, RowHasFile
<1>4. ASSUME NEW d \in ContentCalls PROVE JobFits(d)'
  <2>1. JobFits(d) BY DEF FileInv
  <2>2. CASE d = c BY <1>2, <2>2 DEF JobFits
  <2>3. CASE d # c BY <1>1, <1>2, <2>1, <2>3 DEF JobFits
  <2> QED BY <2>2, <2>3
<1> QED BY <1>2, <1>3, <1>4 DEF FileInv

\* The row is deleted first.
LEMMA DeleteAttachmentRowKeeps ==
  ASSUME FileInv, NEW c \in ContentCalls, DeleteAttachmentRow(c)
  PROVE  FileInv'
<1>1. /\ work[c].do = "deleteRow" /\ UNCHANGED <<file, unsure>> /\ GoOn(c, "removeFile")
      /\ DOMAIN attachment' = DOMAIN attachment \ {work[c].id}
  BY DropShrinks DEF DeleteAttachmentRow, Working
<1>2. /\ Shaped' /\ work'[c].do = "removeFile" /\ work'[c].id = work[c].id
      /\ \A d \in ContentCalls \ {c} : work'[d] = work[d]
  BY <1>1, GoOnStep DEF FileInv
<1>3. RowHasFile' BY <1>1 DEF FileInv, RowHasFile
<1>4. ASSUME NEW d \in ContentCalls PROVE JobFits(d)'
  <2>1. JobFits(d) BY DEF FileInv
  <2>2. CASE d = c BY <1>1, <1>2, <2>2 DEF JobFits
  <2>3. CASE d # c BY <1>1, <1>2, <2>1, <2>3 DEF JobFits, OnFile
  <2> QED BY <2>2, <2>3
<1> QED BY <1>2, <1>3, <1>4 DEF FileInv

\* The file is removed second.
LEMMA RemoveFileKeeps ==
  ASSUME FileInv, NEW c \in ContentCalls, RemoveFile(c)
  PROVE  FileInv'
<1>1. /\ work[c].do = "removeFile" /\ EndWork(c) /\ UNCHANGED <<attachment, unsure>>
      /\ file' = file \ {work[c].id}
  BY DEF RemoveFile, Working
<1>2. /\ Shaped' /\ work'[c].do = "none"
      /\ \A d \in ContentCalls \ {c} : work'[d] = work[d]
  BY <1>1, EndWorkStep DEF FileInv
<1>3. JobFits(c) BY DEF FileInv
<1>4. RowHasFile' BY <1>1, <1>3 DEF FileInv, RowHasFile, JobFits
<1>5. ASSUME NEW d \in ContentCalls PROVE JobFits(d)'
  <2>1. JobFits(d) BY DEF FileInv
  <2>2. CASE d = c BY <1>2, <2>2 DEF JobFits
  <2>3. CASE d # c BY <1>1, <1>2, <2>1, <2>3 DEF JobFits, OnFile
  <2> QED BY <2>2, <2>3
<1> QED BY <1>2, <1>4, <1>5 DEF FileInv

\* Three forms of the steps elsewhere.
LEMMA Untouched ==
  ASSUME FileInv, UNCHANGED <<work, file, unsure>>,
         DOMAIN attachment' \subseteq DOMAIN attachment
  PROVE  FileInv'
BY Elsewhere DEF FileInv, Shaped

\* Jobs that have nothing to do with files begin.
LEMMA Starting ==
  ASSUME FileInv, UNCHANGED fileVars, NEW c \in ContentCalls, NEW do, do \notin OnFile,
         NEW id, NEW copy, NEW task, StartWork(c, Job(do, id, copy, task))
  PROVE  FileInv'
<1>1. /\ Shaped' /\ work'[c].do = do /\ \A d \in ContentCalls \ {c} : work'[d] = work[d]
  BY StartWorkStep DEF FileInv
<1>2. \A d \in ContentCalls : work'[d] = work[d] \/ work'[d].do \notin OnFile BY <1>1
<1> QED BY <1>1, <1>2, Elsewhere DEF fileVars

\* A job ends.
LEMMA Ending ==
  ASSUME FileInv, UNCHANGED fileVars, NEW c \in ContentCalls, EndWork(c)
  PROVE  FileInv'
<1>1. /\ Shaped' /\ work'[c].do = "none" /\ \A d \in ContentCalls \ {c} : work'[d] = work[d]
  BY EndWorkStep DEF FileInv
<1>2. \A d \in ContentCalls : work'[d] = work[d] \/ work'[d].do \notin OnFile
  BY <1>1 DEF OnFile
<1> QED BY <1>1, <1>2, Elsewhere DEF fileVars

\* Lists are deleted with their tasks and the attachments of these.
LEMMA DropListsKeeps == ASSUME FileInv, NEW ids, DropLists(ids) PROVE FileInv'
<1>1. /\ UNCHANGED <<work, file, unsure>>
      /\ \E gone : attachment' = Drop(attachment, gone)
  BY DEF DropLists
<1>2. PICK gone : attachment' = Drop(attachment, gone) BY <1>1
<1>3. DOMAIN attachment' \subseteq DOMAIN attachment BY <1>2 DEF Drop, Restrict
<1> QED BY <1>1, <1>3, Untouched

\* The steps on spaces, folders and lists.
LEMMA HierarchyKeeps == ASSUME FileInv, HierarchyNext PROVE FileInv'
<1>1. ASSUME NEW s \in HomeSpaces, SpaceCreate(s) \/ SpaceDelete(s) PROVE FileInv'
  BY <1>1, Untouched, DropListsKeeps DEF SpaceCreate, SpaceDelete, fileVars
<1>2. ASSUME NEW d \in Folders, folderCalls(d) PROVE FileInv'
  BY <1>2, Untouched, DropListsKeeps DEF folderCalls, FolderCreate, FolderDelete, fileVars
<1>3. ASSUME NEW l \in ContentLists, postList(l) PROVE FileInv'
  BY <1>3, Untouched DEF postList, ListCreate, fileVars
<1>4. ASSUME NEW c \in ContentCalls, NEW l \in ContentLists, changeList(c, l) PROVE FileInv'
  <2>1. ASSUME ListDelete(l) PROVE FileInv' BY <2>1, DropListsKeeps DEF ListDelete
  <2>2. ASSUME NEW to \in BOOLEAN, Archive(c, l, to) PROVE FileInv'
    <3> DEFINE do == IF to THEN "archive" ELSE "unarchive"
    <3>1. StartWork(c, Job(do, l, NOROW, NOROW)) /\ UNCHANGED fileVars
      BY <2>2 DEF Archive
    <3>2. do \notin OnFile BY DEF OnFile
    <3> HIDE DEF do
    <3> QED BY <3>1, <3>2, Starting
  <2> QED BY <1>4, <2>1, <2>2 DEF changeList
<1>5. ASSUME NEW c \in ContentCalls, SetArchived(c) PROVE FileInv'
  BY <1>5, Ending DEF SetArchived
<1> QED BY <1>1, <1>2, <1>3, <1>4, <1>5 DEF HierarchyNext

\* The steps on tasks.
LEMMA TaskKeeps == ASSUME FileInv, TaskNext PROVE FileInv'
<1>1. ASSUME NEW t \in ContentTasks, TaskDelete(t) PROVE FileInv'
  BY <1>1, Untouched, DropShrinks DEF TaskDelete, DropTasks
<1>2. ASSUME NEW t \in ContentTasks, NEW l \in ContentLists, TaskAdd(t, l) PROVE FileInv'
  BY <1>2, Untouched DEF TaskAdd, fileVars
<1>3. ASSUME NEW l \in ContentLists, NEW s \in HomeSpaces, ListCreate(l, s, NOROW)
      PROVE  FileInv'
  BY <1>3, Untouched DEF ListCreate, fileVars
<1>4. ASSUME NEW c \in ContentCalls, FailWork(c) PROVE FileInv'
  BY <1>4, Ending DEF FailWork
<1> QED BY <1>1, <1>2, <1>3, <1>4 DEF TaskNext

\* The steps on forms.
LEMMA FormKeeps == ASSUME FileInv, FormNext PROVE FileInv'
<1>1. ASSUME NEW c \in ContentCalls, NEW f \in Forms, formCalls(c, f) PROVE FileInv'
  <2>1. ASSUME FormDelete(f) PROVE FileInv' BY <2>1, Untouched DEF FormDelete, fileVars
  <2>2. ASSUME NEW l \in ContentLists, NEW p \in BOOLEAN, FormCreate(f, l, p) PROVE FileInv'
    BY <2>2, Untouched DEF FormCreate, fileVars
  <2>3. ASSUME NEW p \in BOOLEAN, FormUpdate(c, f, p) PROVE FileInv'
    BY <2>3, Starting DEF FormUpdate, OnFile
  <2> QED BY <1>1, <2>1, <2>2, <2>3 DEF formCalls
<1>2. ASSUME NEW c \in ContentCalls, NEW f \in Forms, Submit(c, f) PROVE FileInv'
  BY <1>2, Starting DEF Submit, OnFile
<1>3. ASSUME NEW c \in ContentCalls, SubmitTask(c) PROVE FileInv'
  <2>1. UNCHANGED fileVars BY <1>3 DEF SubmitTask
  <2>2. PICK t : work' = [work EXCEPT ![c] = Job("record", work[c].id, work[c].copy, t)]
    <3>1. work[c] = Job(work[c].do, work[c].id, work[c].copy, work[c].task)
      BY DEF FileInv, Shaped
    <3>2. CASE GoOn(c, "record")
      <4>1. [work[c] EXCEPT !.do = "record"]
              = Job("record", work[c].id, work[c].copy, work[c].task)
        BY <3>1 DEF Job
      <4> QED BY <3>2, <4>1 DEF GoOn
    <3> QED BY <1>3, <3>2 DEF SubmitTask
  <2>3. /\ Shaped' /\ work'[c].do = "record"
        /\ \A d \in ContentCalls \ {c} : work'[d] = work[d]
    BY <2>2, NewJob DEF FileInv
  <2>4. \A d \in ContentCalls : work'[d] = work[d] \/ work'[d].do \notin OnFile
    BY <2>3 DEF OnFile
  <2> QED BY <2>1, <2>3, <2>4, Elsewhere DEF fileVars
<1>4. ASSUME NEW c \in ContentCalls, RecordSubmission(c) PROVE FileInv'
  BY <1>4, Ending DEF RecordSubmission
<1>5. ASSUME NEW c \in ContentCalls, StoreForm(c) PROVE FileInv'
  BY <1>5, Ending DEF StoreForm
<1> QED BY <1>1, <1>2, <1>3, <1>4, <1>5 DEF FormNext, publicSubmit

\* The steps on files.
LEMMA FileKeeps == ASSUME FileInv, FileNext PROVE FileInv'
BY UploadKeeps, InsertAttachmentKeeps, UndoUploadKeeps, DeleteAttachmentKeeps,
   DeleteAttachmentRowKeeps, RemoveFileKeeps
DEF FileNext, postAttachment, deleteAttachment

\* A listed attachment has its file, for any number of calls, uploads and tasks, wherever
\* a call is cut off, unless its row was stored by an insert that reported an error
\* (service/attachment, Upload removes the file on any error).
THEOREM RowHasFileHolds == ContentSpec => []RowHasFile
<1>1. ContentInit => FileInv
  <2> SUFFICES ASSUME ContentInit PROVE FileInv
    OBVIOUS
  <2>1. DOMAIN attachment = {} BY DEF ContentInit
  <2>2. work = [c \in ContentCalls |-> NoJob] BY DEF ContentInit
  <2>3. NoJob.do = "none" /\ NoJob = Job(NoJob.do, NoJob.id, NoJob.copy, NoJob.task)
    BY JobFields DEF NoJob
  <2>4. Shaped BY <2>2, <2>3 DEF Shaped
  <2>5. ASSUME NEW c \in ContentCalls PROVE JobFits(c) BY <2>2, <2>3 DEF JobFits
  <2> QED BY <2>1, <2>4, <2>5 DEF FileInv, RowHasFile
<1>2. FileInv /\ [ContentNext]_contentVars => FileInv'
  <2> SUFFICES ASSUME FileInv, [ContentNext]_contentVars PROVE FileInv'
    OBVIOUS
  <2>1. CASE UNCHANGED contentVars BY <2>1, Untouched DEF contentVars, fileVars
  <2> QED BY <2>1, HierarchyKeeps, TaskKeeps, FormKeeps, FileKeeps DEF ContentNext
<1>3. FileInv => RowHasFile BY DEF FileInv
<1> QED BY <1>1, <1>2, <1>3, PTL DEF ContentSpec

-----------------------------------------------------------------------------
(* Forms and their submissions.                                             *)

\* The stored submissions of a form.
SubmittedTo(f) == {s \in DOMAIN submission : submission[s].form = f}

\* Rows and references of the forms and their submissions, as far as the count needs them.
SubmissionInv ==
    /\ DOMAIN submission \subseteq 1..MaxSubmissions
    /\ submission = [s \in DOMAIN submission |-> submission[s]]
    /\ \A s \in DOMAIN submission : /\ submission[s].form \in DOMAIN form
                                    /\ DOMAIN submission[s] = {"form", "task"}
    /\ form = [f \in DOMAIN form |-> form[f]]
    /\ \A f \in DOMAIN form : DOMAIN form[f] = {"list", "public", "count"}
    /\ SubmissionsCounted

\* Forms go with their submissions; tasks go and leave them.
LEMMA FewerSubmissions ==
  ASSUME SubmissionInv, NEW forms, NEW tasks,
         form' = Drop(form, forms),
         submission' = [s \in {r \in DOMAIN submission : submission[r].form \notin forms} |->
             IF submission[s].task \in tasks THEN [submission[s] EXCEPT !.task = NOROW]
             ELSE submission[s]]
  PROVE  SubmissionInv'
<1> DEFINE left == {r \in DOMAIN submission : submission[r].form \notin forms}
<1>1. DOMAIN form' = DOMAIN form \ forms /\ \A f \in DOMAIN form' : form'[f] = form[f]
  BY DEF Drop, Restrict
<1>2. DOMAIN submission' = left /\ left \subseteq DOMAIN submission OBVIOUS
<1>3. \A s \in left : submission'[s].form = submission[s].form /\ DOMAIN submission'[s] = {"form", "task"}
  <2> SUFFICES ASSUME NEW s \in left
               PROVE  submission'[s].form = submission[s].form /\ DOMAIN submission'[s] = {"form", "task"}
    OBVIOUS
  <2>1. PICK row : row = submission[s] OBVIOUS
  <2>2. DOMAIN row = {"form", "task"} BY <2>1 DEF SubmissionInv
  <2>3. [row EXCEPT !.task = NOROW].form = row.form /\ DOMAIN [row EXCEPT !.task = NOROW] = DOMAIN row
    BY <2>2
  <2>4. submission'[s] = row \/ submission'[s] = [row EXCEPT !.task = NOROW] BY <2>1
  <2> QED BY <2>1, <2>2, <2>3, <2>4
<1>4. \A f \in DOMAIN form' : SubmittedTo(f)' = SubmittedTo(f)
  BY <1>1, <1>2, <1>3 DEF SubmittedTo
<1>5. SubmissionsCounted'
  BY <1>1, <1>4 DEF SubmissionInv, SubmissionsCounted, SubmittedTo
<1>6. submission' = [s \in DOMAIN submission' |-> submission'[s]] OBVIOUS
<1>7. form' = [f \in DOMAIN form' |-> form'[f]] BY DEF Drop, Restrict
<1> HIDE DEF left
<1> QED BY <1>1, <1>2, <1>3, <1>5, <1>6, <1>7 DEF SubmissionInv

\* A form appears without submissions, or keeps its count and where it is.
LEMMA FormsPut ==
  ASSUME SubmissionInv, NEW f, NEW row, DOMAIN row = {"list", "public", "count"},
         form' = Put(form, f, row), UNCHANGED submission,
         row.count = IF f \in DOMAIN form THEN form[f].count ELSE 0
  PROVE  SubmissionInv'
<1>1. DOMAIN form' = DOMAIN form \cup {f} /\ form'[f] = row
      /\ \A g \in DOMAIN form \ {f} : form'[g] = form[g]
  BY DEF Put
<1>2. f \notin DOMAIN form => {s \in DOMAIN submission : submission[s].form = f} = {}
  BY DEF SubmissionInv
<1>3. SubmissionsCounted'
  <2> SUFFICES ASSUME NEW g \in DOMAIN form'
               PROVE  form'[g].count = Cardinality({s \in DOMAIN submission : submission[s].form = g})
    BY DEF SubmissionsCounted
  <2>1. g # f \/ f \in DOMAIN form => form'[g].count = form[g].count /\ g \in DOMAIN form
    BY <1>1
  <2>2. CASE g # f \/ f \in DOMAIN form BY <2>1, <2>2 DEF SubmissionInv, SubmissionsCounted
  <2>3. CASE g = f /\ f \notin DOMAIN form BY <1>1, <1>2, <2>3, FS_EmptySet
  <2> QED BY <2>2, <2>3
<1>4. form' = [g \in DOMAIN form' |-> form'[g]] BY DEF Put
<1> QED BY <1>1, <1>3, <1>4 DEF SubmissionInv

\* One statement inserts the row and counts it (repository/form).
LEMMA SubmissionRecorded ==
  ASSUME SubmissionInv, NEW c, RecordSubmission(c)
  PROVE  SubmissionInv'
<1>0. PICK f, t : f = work[c].id /\ t = work[c].task OBVIOUS
<1>1. PICK s \in 1..MaxSubmissions :
        /\ f \in DOMAIN form /\ s \notin DOMAIN submission
        /\ submission' = Put(submission, s, [form |-> f, task |-> t])
        /\ form' = [form EXCEPT ![f].count = @ + 1]
  BY <1>0 DEF RecordSubmission
<1>2. PICK row : row = [form |-> f, task |-> t] OBVIOUS
<1>3. row.form = f /\ DOMAIN row = {"form", "task"} BY <1>2
<1>4. DOMAIN submission' = DOMAIN submission \cup {s} /\ submission'[s] = row
      /\ \A r \in DOMAIN submission : submission'[r] = submission[r]
  BY <1>1, <1>2 DEF Put
<1>5. PICK counted : counted = [form[f] EXCEPT !.count = form[f].count + 1] OBVIOUS
<1>6. counted.count = form[f].count + 1 /\ DOMAIN counted = {"list", "public", "count"}
  BY <1>1, <1>5 DEF SubmissionInv
<1>7. DOMAIN form' = DOMAIN form /\ form'[f] = counted
      /\ \A g \in DOMAIN form \ {f} : form'[g] = form[g]
  BY <1>1, <1>5 DEF SubmissionInv
<1>8. SubmissionsCounted'
  <2> SUFFICES ASSUME NEW g \in DOMAIN form
               PROVE  form'[g].count = Cardinality({r \in DOMAIN submission' : submission'[r].form = g})
    BY <1>7 DEF SubmissionsCounted
  <2> DEFINE S == {r \in DOMAIN submission : submission[r].form = g}
             T == {r \in DOMAIN submission' : submission'[r].form = g}
  <2>1. form[g].count = Cardinality(S) BY DEF SubmissionInv, SubmissionsCounted
  <2>2. IsFiniteSet(S)
    <3>1. S \subseteq 1..MaxSubmissions BY DEF SubmissionInv
    <3>2. IsFiniteSet(1..MaxSubmissions) BY ContentConstants, FS_Interval
    <3> QED BY <3>1, <3>2, FS_Subset
  <2>3. CASE g = f
    <3>1. T = S \cup {s} /\ s \notin S BY <1>1, <1>3, <1>4, <2>3
    <3>2. Cardinality(T) = Cardinality(S) + 1 BY <2>2, <3>1, FS_AddElement
    <3> QED BY <1>6, <1>7, <2>1, <2>3, <3>2
  <2>4. CASE g # f
    <3>1. T = S BY <1>3, <1>4, <2>4
    <3> QED BY <1>7, <2>1, <2>4, <3>1
  <2> QED BY <2>3, <2>4
<1>9. submission' = [r \in DOMAIN submission' |-> submission'[r]] BY <1>1 DEF Put
<1>10. form' = [g \in DOMAIN form' |-> form'[g]] BY <1>1
<1>11. DOMAIN submission' \subseteq 1..MaxSubmissions BY <1>1, <1>4 DEF SubmissionInv
<1>12. \A g \in DOMAIN form' : DOMAIN form'[g] = {"list", "public", "count"}
  BY <1>6, <1>7 DEF SubmissionInv
<1>13. \A r \in DOMAIN submission' : /\ submission'[r].form \in DOMAIN form'
                                     /\ DOMAIN submission'[r] = {"form", "task"}
  BY <1>1, <1>3, <1>4, <1>7 DEF SubmissionInv
<1> QED BY <1>8, <1>9, <1>10, <1>11, <1>12, <1>13 DEF SubmissionInv

\* Steps that touch no form.
LEMMA FormsUntouched ==
  ASSUME SubmissionInv, UNCHANGED formVars PROVE SubmissionInv'
BY DEF SubmissionInv, SubmissionsCounted, formVars

\* Lists go, and tasks go.
LEMMA ListsDropped == ASSUME SubmissionInv, NEW ids, DropLists(ids) PROVE SubmissionInv'
<1> DEFINE forms == {f \in DOMAIN form : form[f].list \in ids}
           tasks == {t \in DOMAIN contentTask : contentTask[t] \in ids}
<1>1. /\ form' = Drop(form, forms)
      /\ submission' = [s \in {r \in DOMAIN submission : submission[r].form \notin forms} |->
             IF submission[s].task \in tasks THEN [submission[s] EXCEPT !.task = NOROW]
             ELSE submission[s]]
  BY DEF DropLists
<1> HIDE DEF forms, tasks
<1> QED BY <1>1, FewerSubmissions

\* The tasks of submissions are deleted: the reference goes, the row stays.
LEMMA TaskDropped ==
  ASSUME SubmissionInv, NEW ids, DropTasks(ids), UNCHANGED form PROVE SubmissionInv'
<1>1. form' = Drop(form, {})
  <2>1. form = [f \in DOMAIN form |-> form[f]] BY DEF SubmissionInv
  <2>2. DOMAIN form \ {} = DOMAIN form OBVIOUS
  <2>3. Drop(form, {}) = [f \in DOMAIN form |-> form[f]] BY <2>2 DEF Drop, Restrict
  <2> QED BY <2>1, <2>3
<1>2. submission' = [s \in {r \in DOMAIN submission : submission[r].form \notin {}} |->
             IF submission[s].task \in ids THEN [submission[s] EXCEPT !.task = NOROW]
             ELSE submission[s]]
  <2>1. {r \in DOMAIN submission : submission[r].form \notin {}} = DOMAIN submission OBVIOUS
  <2> QED BY <2>1 DEF DropTasks
<1> QED BY <1>1, <1>2, FewerSubmissions

\* The steps on forms.
LEMMA FormStep == ASSUME SubmissionInv, FormNext PROVE SubmissionInv'
<1>1. ASSUME NEW c \in ContentCalls, NEW f \in Forms, formCalls(c, f) PROVE SubmissionInv'
  <2>1. ASSUME FormDelete(f) PROVE SubmissionInv'
    <3>1. /\ form' = Drop(form, {f})
          /\ submission' = Drop(submission, {s \in DOMAIN submission : submission[s].form = f})
      BY <2>1 DEF FormDelete
    <3>2. DOMAIN submission \ {s \in DOMAIN submission : submission[s].form = f}
            = {r \in DOMAIN submission : submission[r].form \notin {f}}
      OBVIOUS
    <3>3. submission' = [s \in {r \in DOMAIN submission : submission[r].form \notin {f}} |->
             IF submission[s].task \in {} THEN [submission[s] EXCEPT !.task = NOROW]
             ELSE submission[s]]
      <4>1. submission' = [s \in DOMAIN submission \ {r \in DOMAIN submission : submission[r].form = f}
                             |-> submission[s]]
        BY <3>1 DEF Drop, Restrict
      <4> QED BY <4>1, <3>2
    <3> DEFINE forms == {f}
               tasks == {}
    <3>4. /\ form' = Drop(form, forms)
          /\ submission' = [s \in {r \in DOMAIN submission : submission[r].form \notin forms} |->
                IF submission[s].task \in tasks THEN [submission[s] EXCEPT !.task = NOROW]
                ELSE submission[s]]
      BY <3>1, <3>3
    <3> HIDE DEF forms, tasks
    <3> QED BY <3>4, FewerSubmissions
  <2>2. ASSUME NEW l \in ContentLists, NEW p \in BOOLEAN, FormCreate(f, l, p) PROVE SubmissionInv'
    <3>1. PICK row : row = [list |-> l, public |-> p, count |-> 0] OBVIOUS
    <3>2. form' = Put(form, f, row) /\ UNCHANGED submission /\ f \notin DOMAIN form
      BY <2>2, <3>1 DEF FormCreate
    <3>3. DOMAIN row = {"list", "public", "count"} /\ row.count = 0 BY <3>1
    <3> QED BY <3>2, <3>3, FormsPut
  <2>3. ASSUME NEW p \in BOOLEAN, FormUpdate(c, f, p) PROVE SubmissionInv'
    BY <2>3, FormsUntouched DEF FormUpdate
  <2> QED BY <1>1, <2>1, <2>2, <2>3 DEF formCalls
<1>2. ASSUME NEW c \in ContentCalls, NEW f \in Forms, Submit(c, f) PROVE SubmissionInv'
  BY <1>2, FormsUntouched DEF Submit
<1>3. ASSUME NEW c \in ContentCalls, SubmitTask(c) PROVE SubmissionInv'
  BY <1>3, FormsUntouched DEF SubmitTask
<1>4. ASSUME NEW c \in ContentCalls, RecordSubmission(c) PROVE SubmissionInv'
  BY <1>4, SubmissionRecorded
<1>5. ASSUME NEW c \in ContentCalls, StoreForm(c) PROVE SubmissionInv'
  <2>1. CASE UNCHANGED form
    BY <1>5, <2>1, FormsUntouched DEF StoreForm, formVars
  <2>2. CASE form' # form
    <3>1. PICK f, p : /\ f \in DOMAIN form /\ form' = [form EXCEPT ![f].public = p]
                      /\ UNCHANGED submission
      BY <1>5, <2>2 DEF StoreForm
    <3>2. PICK row : row = [form[f] EXCEPT !.public = p] OBVIOUS
    <3>3. DOMAIN form[f] = {"list", "public", "count"} BY <3>1 DEF SubmissionInv
    <3>4. DOMAIN row = {"list", "public", "count"} /\ row.count = form[f].count
      BY <3>2, <3>3
    <3>5. form' = Put(form, f, row)
      <4>1. form' = [g \in DOMAIN form |-> IF g = f THEN row ELSE form[g]]
        BY <3>1, <3>2 DEF SubmissionInv
      <4>2. DOMAIN form \cup {f} = DOMAIN form BY <3>1
      <4> QED BY <4>1, <4>2 DEF Put
    <3> QED BY <3>1, <3>4, <3>5, FormsPut
  <2> QED BY <2>1, <2>2
<1> QED BY <1>1, <1>2, <1>3, <1>4, <1>5 DEF FormNext, publicSubmit

\* Every step keeps the invariant.
LEMMA SubmissionStep == ASSUME SubmissionInv, [ContentNext]_contentVars PROVE SubmissionInv'
<1>1. CASE UNCHANGED contentVars BY <1>1, FormsUntouched DEF contentVars
<1>2. ASSUME HierarchyNext PROVE SubmissionInv'
  <2>1. ASSUME NEW s \in HomeSpaces, SpaceCreate(s) \/ SpaceDelete(s) PROVE SubmissionInv'
    BY <2>1, FormsUntouched, ListsDropped DEF SpaceCreate, SpaceDelete
  <2>2. ASSUME NEW d \in Folders, folderCalls(d) PROVE SubmissionInv'
    BY <2>2, FormsUntouched, ListsDropped DEF folderCalls, FolderCreate, FolderDelete
  <2>3. ASSUME NEW l \in ContentLists, postList(l) PROVE SubmissionInv'
    BY <2>3, FormsUntouched DEF postList, ListCreate
  <2>4. ASSUME NEW c \in ContentCalls, NEW l \in ContentLists, changeList(c, l)
        PROVE  SubmissionInv'
    BY <2>4, FormsUntouched, ListsDropped DEF changeList, ListDelete, Archive
  <2>5. ASSUME NEW c \in ContentCalls, SetArchived(c) PROVE SubmissionInv'
    BY <2>5, FormsUntouched DEF SetArchived
  <2> QED BY <1>2, <2>1, <2>2, <2>3, <2>4, <2>5 DEF HierarchyNext
<1>3. ASSUME TaskNext PROVE SubmissionInv'
  <2>1. ASSUME NEW t \in ContentTasks, TaskDelete(t) PROVE SubmissionInv'
    BY <2>1, TaskDropped DEF TaskDelete
  <2>2. ASSUME NEW t \in ContentTasks, NEW l \in ContentLists, TaskAdd(t, l) PROVE SubmissionInv'
    BY <2>2, FormsUntouched DEF TaskAdd
  <2>3. ASSUME NEW l \in ContentLists, NEW s \in HomeSpaces, ListCreate(l, s, NOROW)
        PROVE  SubmissionInv'
    BY <2>3, FormsUntouched DEF ListCreate
  <2>4. ASSUME NEW c \in ContentCalls, FailWork(c) PROVE SubmissionInv'
    BY <2>4, FormsUntouched DEF FailWork
  <2> QED BY <1>3, <2>1, <2>2, <2>3, <2>4 DEF TaskNext
<1>4. ASSUME FileNext PROVE SubmissionInv'
  BY <1>4, FormsUntouched
     DEF FileNext, postAttachment, deleteAttachment, Upload, InsertAttachment, UndoUpload,
         DeleteAttachment, DeleteAttachmentRow, RemoveFile
<1> QED BY <1>1, <1>2, <1>3, <1>4, FormStep DEF ContentNext

\* The counter of a form is the number of its stored submissions (repository/form), although
\* editors write the form back from older copies.
THEOREM SubmissionsCountedHolds == ContentSpec => []SubmissionsCounted
<1>1. ContentInit => SubmissionInv
  BY DEF ContentInit, SubmissionInv, SubmissionsCounted
<1>2. SubmissionInv => SubmissionsCounted BY DEF SubmissionInv
<1> QED BY <1>1, <1>2, SubmissionStep, PTL DEF ContentSpec

-----------------------------------------------------------------------------
(* Edits of the rows of a workspace.                                        *)

RowFields == {"kind", "mark", "under", "name", "body", "version"}
EditFields == {"do", "id", "row", "named", "clean", "made"}

\* The columns the update statement of a table writes, and whether it counts a version.
ColumnsOf(kind) ==
    IF kind = "doc" THEN {"name", "body", "under"}
    ELSE IF kind = "view" THEN {"name", "body", "mark"}
    ELSE IF kind = "dashboard" THEN {"name"} ELSE {"name", "body"}
Versioned(kind) == kind \in {"doc", "whiteboard"}

\* A row and its history.
RowFits(i) ==
    /\ DOMAIN item[i] = RowFields /\ DOMAIN wanted[i] = Fields \cup {"updates"}
    /\ wanted[i].updates \in Nat
    /\ \A f \in Fields : wanted[i][f] \in {item[i][f], BLURRED}
    /\ Versioned(item[i].kind) => item[i].version = 1 + wanted[i].updates

\* A call that is about to store: what it names are columns, and of a row that nobody has
\* stored since, the other fields of its copy are those of the row.
EditFits(c) ==
    LET i == edit[c].id  copy == edit[c].row IN
    edit[c].do = "store" =>
        /\ DOMAIN copy = RowFields /\ copy.kind # "tag"
        /\ edit[c].named \subseteq ColumnsOf(copy.kind)
        /\ i \in DOMAIN item =>
             /\ item[i].kind = copy.kind
             /\ edit[c].clean => \A f \in Fields \ edit[c].named : copy[f] = item[i][f]

RowsFit == DOMAIN wanted = DOMAIN item /\ \A i \in DOMAIN item : RowFits(i)
EditsFit == /\ DOMAIN edit = EditCalls
            /\ \A c \in EditCalls : DOMAIN edit[c] = EditFields /\ EditFits(c)
CatalogInv == RowsFit /\ EditsFit

\* An editor that does nothing.
LEMMA IdlingIs == DOMAIN Idling = EditFields /\ Idling.do = "none"
BY DEF Idling, EditFields

\* A step that touches neither rows nor edits.
LEMMA CatalogKept == ASSUME CatalogInv, UNCHANGED <<item, wanted, edit>> PROVE CatalogInv'
BY DEF CatalogInv, RowsFit, EditsFit, RowFits, EditFits

\* A call whose next step is no store has nothing to fit.
LEMMA EditEnds ==
  ASSUME CatalogInv, NEW c \in EditCalls, NEW e, DOMAIN e = EditFields, e.do # "store",
         edit' = [edit EXCEPT ![c] = e], UNCHANGED <<item, wanted>>
  PROVE  CatalogInv'
<1>1. RowsFit' BY DEF CatalogInv, RowsFit, RowFits
<1>2. DOMAIN edit' = EditCalls /\ edit'[c] = e /\ \A d \in EditCalls \ {c} : edit'[d] = edit[d]
  BY DEF CatalogInv, EditsFit
<1>3. ASSUME NEW d \in EditCalls PROVE DOMAIN edit'[d] = EditFields /\ EditFits(d)'
  <2>1. CASE d = c BY <1>2, <2>1 DEF EditFits
  <2>2. CASE d # c BY <1>2, <2>2 DEF EditFits, CatalogInv, EditsFit
  <2> QED BY <2>1, <2>2
<1> QED BY <1>1, <1>2, <1>3 DEF CatalogInv, EditsFit

\* A new row has what was asked for, and no call holds a copy of it.
LEMMA RowInserted ==
  ASSUME CatalogInv, NEW i \in Items, NEW kind, NEW mark, NEW under, NEW name, NEW body,
         Insert(i, kind, mark, under, name, body)
  PROVE  /\ RowsFit'
         /\ \A c \in EditCalls : edit'[c] = edit[c] => EditFits(c)'
<1>1. PICK row : row = [kind |-> kind, mark |-> mark, under |-> under, name |-> name, body |-> body,
                        version |-> 1]
  OBVIOUS
<1>2. DOMAIN row = RowFields /\ row.version = 1 BY <1>1 DEF RowFields
<1>3. PICK asked : asked = Asked(row, 0) OBVIOUS
<1>4. DOMAIN asked = Fields \cup {"updates"} /\ asked.updates = 0 /\ \A f \in Fields : asked[f] = row[f]
  BY <1>3 DEF Asked, Fields
<1>5. /\ item' = Put(item, i, row) /\ wanted' = Put(wanted, i, asked)
      /\ i \notin DOMAIN item /\ \A c \in EditCalls : edit[c].id # i
  BY <1>1, <1>3 DEF Insert, Smallest, Vacant
<1>6. /\ DOMAIN item' = DOMAIN item \cup {i} /\ DOMAIN wanted' = DOMAIN wanted \cup {i}
      /\ item'[i] = row /\ wanted'[i] = asked
      /\ \A j \in DOMAIN item : item'[j] = item[j]
      /\ \A j \in DOMAIN wanted : j # i => wanted'[j] = wanted[j]
  BY <1>5 DEF Put
<1>7. ASSUME NEW j \in DOMAIN item' PROVE RowFits(j)'
  <2>1. CASE j = i BY <1>2, <1>4, <1>6, <2>1 DEF RowFits
  <2>2. CASE j # i BY <1>6, <2>2 DEF RowFits, CatalogInv, RowsFit
  <2> QED BY <2>1, <2>2
<1>8. RowsFit' BY <1>6, <1>7 DEF CatalogInv, RowsFit
<1>9. ASSUME NEW c \in EditCalls, edit'[c] = edit[c] PROVE EditFits(c)'
  BY <1>5, <1>6, <1>9 DEF EditFits, CatalogInv, EditsFit
<1> QED BY <1>8, <1>9

\* A row is created with version one.
LEMMA Created ==
  ASSUME CatalogInv, NEW kind, NEW mark, NEW under, NEW name, NEW body,
         Create(kind, mark, under, name, body)
  PROVE  CatalogInv'
<1>1. PICK i \in Items : Insert(i, kind, mark, under, name, body) BY DEF Create
<1>2. UNCHANGED edit BY DEF Create
<1> QED BY <1>1, <1>2, RowInserted DEF CatalogInv, EditsFit

\* A row is deleted with those below it.
LEMMA Deleted == ASSUME CatalogInv, NEW i, Delete(i) PROVE CatalogInv'
<1>1. PICK gone : gone = Subtree(i) OBVIOUS
<1>2. /\ item' = [j \in DOMAIN item \ gone |-> item[j]]
      /\ wanted' = [j \in DOMAIN wanted \ gone |-> wanted[j]]
      /\ UNCHANGED edit
  BY <1>1 DEF Delete, Drop, Restrict
<1> QED BY <1>2 DEF CatalogInv, RowsFit, EditsFit, RowFits, EditFits

\* A call begins with the row as it is, save for the fields it names.
LEMMA EditBegins ==
  ASSUME CatalogInv, NEW c \in EditCalls, NEW i \in DOMAIN item, NEW patch, BeginEdit(c, i, patch),
         item[i].kind # "tag", Named(patch) \subseteq ColumnsOf(item[i].kind)
  PROVE  CatalogInv'
<1>1. PICK copy, named : copy = Patched(item[i], patch) /\ named = Named(patch) OBVIOUS
<1>2. PICK e : e = [Idling EXCEPT !.do = "store", !.id = i, !.row = copy, !.named = named] OBVIOUS
<1>3. e.do = "store" /\ e.id = i /\ e.row = copy /\ e.named = named /\ DOMAIN e = EditFields
  BY <1>2 DEF Idling, EditFields
<1>4. edit' = [edit EXCEPT ![c] = e] /\ UNCHANGED <<item, wanted>>
  BY <1>1, <1>2 DEF BeginEdit
<1>5. DOMAIN edit' = EditCalls /\ edit'[c] = e /\ \A d \in EditCalls \ {c} : edit'[d] = edit[d]
  BY <1>4 DEF CatalogInv, EditsFit
<1>6. DOMAIN copy = RowFields /\ \A f \in RowFields \ named : copy[f] = item[i][f]
  BY <1>1 DEF Patched, Named, CatalogInv, RowsFit, RowFits
<1>7. copy.kind = item[i].kind BY <1>1, <1>6 DEF ColumnsOf, RowFields
<1>8. EditFits(c)'
  BY <1>1, <1>3, <1>4, <1>5, <1>6, <1>7 DEF EditFits, Fields, RowFields
<1>9. ASSUME NEW d \in EditCalls PROVE DOMAIN edit'[d] = EditFields /\ EditFits(d)'
  <2>1. CASE d = c BY <1>3, <1>5, <1>8, <2>1
  <2>2. CASE d # c BY <1>4, <1>5, <2>2 DEF EditFits, CatalogInv, EditsFit
  <2> QED BY <2>1, <2>2
<1>10. RowsFit' BY <1>4 DEF CatalogInv, RowsFit, RowFits
<1> QED BY <1>5, <1>9, <1>10 DEF CatalogInv, EditsFit

\* A store of the columns of a table.
LEMMA CopyStored ==
  ASSUME CatalogInv, NEW c \in EditCalls, NEW kind, NEW columns, NEW versioned \in BOOLEAN,
         columns = ColumnsOf(kind), versioned <=> Versioned(kind),
         Storing(c, kind), Store(c, columns, versioned)
  PROVE  CatalogInv'
<1>1. PICK i, copy, named, clean :
        i = edit[c].id /\ copy = edit[c].row /\ named = edit[c].named /\ clean = edit[c].clean
  OBVIOUS
<1>2. DOMAIN copy = RowFields /\ copy.kind = kind /\ kind # "tag" /\ named \subseteq ColumnsOf(kind)
  BY <1>1 DEF Storing, CatalogInv, EditsFit, EditFits
<1>3. i \in DOMAIN item =>
        /\ item[i].kind = kind
        /\ clean => \A f \in Fields \ named : copy[f] = item[i][f]
  BY <1>1, <1>2 DEF Storing, CatalogInv, EditsFit, EditFits
<1>4. edit' = [d \in EditCalls |->
         IF d = c THEN Idling
         ELSE IF edit[d].id = i THEN [edit[d] EXCEPT !.clean = FALSE] ELSE edit[d]]
  BY <1>1 DEF Store
<1>5. CASE i \notin DOMAIN item
  <2>1. UNCHANGED <<item, wanted>> BY <1>1, <1>5 DEF Store
  <2>2. RowsFit' BY <2>1 DEF CatalogInv, RowsFit, RowFits
  <2>3. ASSUME NEW d \in EditCalls PROVE DOMAIN edit'[d] = EditFields /\ EditFits(d)'
    <3>1. CASE d = c BY <1>4, <3>1, IdlingIs DEF EditFits
    <3>2. CASE d # c /\ edit[d].id = i
      <4>1. PICK e : e = edit[d] OBVIOUS
      <4>2. DOMAIN e = EditFields /\ e.id = i BY <3>2, <4>1 DEF CatalogInv, EditsFit
      <4>3. PICK e2 : e2 = [e EXCEPT !.clean = FALSE] OBVIOUS
      <4>4. DOMAIN e2 = EditFields /\ e2.do = e.do /\ e2.id = e.id /\ e2.row = e.row /\ e2.named = e.named
        BY <4>2, <4>3 DEF EditFields
      <4>5. edit'[d] = e2 BY <1>4, <3>2, <4>1, <4>3
      <4> QED BY <1>5, <2>1, <3>2, <4>1, <4>2, <4>4, <4>5 DEF EditFits, CatalogInv, EditsFit
    <3>3. CASE d # c /\ edit[d].id # i
      BY <1>4, <2>1, <3>3 DEF EditFits, CatalogInv, EditsFit
    <3> QED BY <3>1, <3>2, <3>3
  <2> QED BY <1>4, <2>2, <2>3 DEF CatalogInv, EditsFit
<1>6. CASE i \in DOMAIN item
  <2>1. PICK row : row = [f \in RowFields |-> IF f \in columns THEN copy[f]
                            ELSE IF f = "version" /\ versioned THEN VersionAfter(c, i)
                            ELSE item[i][f]]
    OBVIOUS
  <2>2. PICK asked : asked = [f \in DOMAIN wanted[i] |->
            IF f = "updates" THEN wanted[i][f] + 1
            ELSE IF f \in named THEN copy[f]
            ELSE IF clean \/ f \notin columns \/ copy[f] = item[i][f] THEN wanted[i][f]
            ELSE BLURRED]
    OBVIOUS
  <2>3. item' = [item EXCEPT ![i] = row]
    BY <1>1, <1>2, <1>6, <2>1 DEF Store
  <2>4. wanted' = [wanted EXCEPT ![i] = asked]
    BY <1>1, <1>2, <1>6, <2>2 DEF Store
  <2>5. /\ DOMAIN item' = DOMAIN item /\ item'[i] = row
        /\ \A j \in DOMAIN item \ {i} : item'[j] = item[j]
        /\ DOMAIN wanted' = DOMAIN item /\ wanted'[i] = asked
        /\ \A j \in DOMAIN item \ {i} : wanted'[j] = wanted[j]
    BY <1>6, <2>3, <2>4 DEF CatalogInv, RowsFit
  <2>6. DOMAIN row = RowFields /\ row.kind = kind /\ (Versioned(kind) => row.version = item[i].version + 1)
    BY <1>3, <1>6, <2>1 DEF RowFields, ColumnsOf, VersionAfter
  <2>7. DOMAIN asked = Fields \cup {"updates"} /\ asked.updates = wanted[i].updates + 1
    BY <1>6, <2>2 DEF CatalogInv, RowsFit, RowFits
  <2>8. ASSUME NEW f \in Fields PROVE asked[f] \in {row[f], BLURRED}
    <3>1. f \in RowFields /\ f # "version" /\ f # "updates" BY DEF Fields, RowFields
    <3>2. row[f] = IF f \in columns THEN copy[f] ELSE item[i][f] BY <2>1, <3>1
    <3>3. wanted[i][f] \in {item[i][f], BLURRED} /\ f \in DOMAIN wanted[i]
      BY <1>6 DEF CatalogInv, RowsFit, RowFits
    <3>4. asked[f] = IF f \in named THEN copy[f]
                     ELSE IF clean \/ f \notin columns \/ copy[f] = item[i][f] THEN wanted[i][f]
                     ELSE BLURRED
      BY <2>2, <3>1, <3>3
    <3> QED BY <1>2, <1>3, <1>6, <3>2, <3>3, <3>4
  <2>9. RowFits(i)'
    <3>1. wanted[i].updates \in Nat /\ (Versioned(kind) => item[i].version = 1 + wanted[i].updates)
      BY <1>3, <1>6 DEF CatalogInv, RowsFit, RowFits
    <3>2. asked.updates \in Nat /\ (Versioned(kind) => row.version = 1 + asked.updates)
      BY <2>6, <2>7, <3>1
    <3> QED BY <2>5, <2>6, <2>7, <2>8, <3>2 DEF RowFits
  <2>10. ASSUME NEW j \in DOMAIN item \ {i} PROVE RowFits(j)'
    BY <2>5 DEF CatalogInv, RowsFit, RowFits
  <2>11. RowsFit' BY <2>5, <2>9, <2>10 DEF RowsFit
  <2>12. ASSUME NEW d \in EditCalls PROVE DOMAIN edit'[d] = EditFields /\ EditFits(d)'
    <3>1. CASE d = c BY <1>4, <3>1, IdlingIs DEF EditFits
    <3>2. CASE d # c /\ edit[d].id = i
      <4>1. PICK e : e = edit[d] OBVIOUS
      <4>2. DOMAIN e = EditFields /\ e.id = i BY <3>2, <4>1 DEF CatalogInv, EditsFit
      <4>3. PICK e2 : e2 = [e EXCEPT !.clean = FALSE] OBVIOUS
      <4>4. /\ DOMAIN e2 = EditFields /\ e2.do = e.do /\ e2.id = e.id /\ e2.row = e.row
            /\ e2.named = e.named /\ ~e2.clean
        BY <4>2, <4>3 DEF EditFields
      <4>5. edit'[d] = e2 BY <1>4, <3>2, <4>1, <4>3
      <4>6. item'[i].kind = item[i].kind BY <1>3, <1>6, <2>5, <2>6
      <4> QED BY <1>6, <2>5, <3>2, <4>1, <4>2, <4>4, <4>5, <4>6 DEF EditFits, CatalogInv, EditsFit
    <3>3. CASE d # c /\ edit[d].id # i
      BY <1>4, <2>5, <3>3 DEF EditFits, CatalogInv, EditsFit
    <3> QED BY <3>1, <3>2, <3>3
  <2> QED BY <1>4, <2>11, <2>12 DEF CatalogInv, EditsFit
<1> QED BY <1>5, <1>6

\* The update statements, each with its own columns.
LEMMA CopyWritten ==
  ASSUME CatalogInv, NEW c \in EditCalls,
         DocStore(c) \/ WhiteboardStore(c) \/ ViewStore(c) \/ DashboardStore(c) \/ WidgetStore(c)
           \/ FieldStore(c) \/ StatusStore(c) \/ CredentialStore(c) \/ SearchStore(c) \/ TemplateStore(c)
  PROVE  CatalogInv'
<1>1. CASE DocStore(c)
  BY <1>1, CopyStored DEF DocStore, ColumnsOf, Versioned
<1>2. CASE WhiteboardStore(c)
  BY <1>2, CopyStored DEF WhiteboardStore, ColumnsOf, Versioned
<1>3. CASE ViewStore(c)
  BY <1>3, CopyStored DEF ViewStore, ColumnsOf, Versioned
<1>4. CASE DashboardStore(c)
  BY <1>4, CopyStored DEF DashboardStore, ColumnsOf, Versioned
<1>5. CASE WidgetStore(c)
  BY <1>5, CopyStored DEF WidgetStore, ColumnsOf, Versioned
<1>6. CASE FieldStore(c)
  BY <1>6, CopyStored DEF FieldStore, ColumnsOf, Versioned
<1>7. CASE StatusStore(c)
  BY <1>7, CopyStored DEF StatusStore, ColumnsOf, Versioned
<1>8. CASE CredentialStore(c)
  BY <1>8, CopyStored DEF CredentialStore, ColumnsOf, Versioned
<1>9. CASE SearchStore(c)
  BY <1>9, CopyStored DEF SearchStore, ColumnsOf, Versioned
<1>10. CASE TemplateStore(c)
  BY <1>10, CopyStored DEF TemplateStore, ColumnsOf, Versioned
<1> QED BY <1>1, <1>2, <1>3, <1>4, <1>5, <1>6, <1>7, <1>8, <1>9, <1>10

\* A tag is given another colour; tags are never edited through a copy.
LEMMA TagMade == ASSUME CatalogInv, NEW name, NEW color, TagCreate(name, color) PROVE CatalogInv'
<1>1. CASE Create("tag", NOITEM, NOITEM, name, color) BY <1>1, Created
<1>2. ASSUME NEW i \in DOMAIN item, item[i].kind = "tag",
             item' = [item EXCEPT ![i].body = color], wanted' = [wanted EXCEPT ![i].body = color],
             UNCHANGED edit
      PROVE  CatalogInv'
  <2>1. PICK row, asked : row = item[i] /\ asked = wanted[i] OBVIOUS
  <2>2. DOMAIN row = RowFields /\ DOMAIN asked = Fields \cup {"updates"} /\ RowFits(i)
    BY <2>1 DEF CatalogInv, RowsFit, RowFits
  <2>3. PICK row2, asked2 : row2 = [row EXCEPT !.body = color] /\ asked2 = [asked EXCEPT !.body = color]
    OBVIOUS
  <2>4. /\ DOMAIN row2 = RowFields /\ row2.body = color /\ \A f \in RowFields \ {"body"} : row2[f] = row[f]
        /\ DOMAIN asked2 = Fields \cup {"updates"} /\ asked2.body = color
        /\ \A f \in (Fields \cup {"updates"}) \ {"body"} : asked2[f] = asked[f]
    BY <2>2, <2>3 DEF RowFields, Fields
  <2>5. /\ DOMAIN item' = DOMAIN item /\ item'[i] = row2
        /\ \A j \in DOMAIN item \ {i} : item'[j] = item[j]
        /\ DOMAIN wanted' = DOMAIN item /\ wanted'[i] = asked2
        /\ \A j \in DOMAIN item \ {i} : wanted'[j] = wanted[j]
    BY <1>2, <2>1, <2>3 DEF CatalogInv, RowsFit
  <2>6. \A f \in Fields : asked2[f] \in {row2[f], BLURRED}
    BY <2>1, <2>2, <2>4 DEF RowFits, Fields, RowFields
  <2>7. asked2.updates \in Nat /\ row2.kind = "tag"
    BY <1>2, <2>1, <2>2, <2>4 DEF RowFits, Fields, RowFields
  <2>8. RowFits(i)' BY <2>4, <2>5, <2>6, <2>7 DEF RowFits, Versioned
  <2>9. \A j \in DOMAIN item \ {i} : RowFits(j)' BY <2>5 DEF CatalogInv, RowsFit, RowFits
  <2>10. \A c \in EditCalls : EditFits(c)'
    BY <1>2, <2>5 DEF CatalogInv, EditsFit, EditFits
  <2> QED BY <1>2, <2>5, <2>8, <2>9, <2>10 DEF CatalogInv, RowsFit, EditsFit
<1> QED BY <1>1, <1>2 DEF TagCreate

\* One more entry of a template is made.
LEMMA TemplateApplied == ASSUME CatalogInv, NEW c \in EditCalls, ApplyNext(c) PROVE CatalogInv'
<1> DEFINE snapshot == Snapshot(edit[c].row.mark)
           n == Len(edit[c].made) + 1
           up == IF snapshot[n].under = 0 THEN NOITEM ELSE edit[c].made[snapshot[n].under]
<1>1. ASSUME NEW i, NEW p \in BOOLEAN,
             edit' = [edit EXCEPT ![c] = IF p THEN Idling ELSE [edit[c] EXCEPT !.made = Append(edit[c].made, i)]]
      PROVE  \E e : edit' = [edit EXCEPT ![c] = e] /\ DOMAIN e = EditFields /\ e.do # "store"
  <2>1. PICK e : e = edit[c] OBVIOUS
  <2>2. PICK made : made = Append(e.made, i) OBVIOUS
  <2>3. DOMAIN e = EditFields /\ e.do = "apply" BY <2>1 DEF ApplyNext, CatalogInv, EditsFit
  <2>4. PICK e2 : e2 = [e EXCEPT !.made = made] OBVIOUS
  <2>5. DOMAIN e2 = EditFields /\ e2.do = "apply" BY <2>3, <2>4 DEF EditFields
  <2>6. CASE p
    <3>1. edit' = [edit EXCEPT ![c] = Idling] BY <1>1, <2>6
    <3> QED BY <3>1, IdlingIs
  <2>7. CASE ~p
    <3>1. edit' = [edit EXCEPT ![c] = [edit[c] EXCEPT !.made = Append(edit[c].made, i)]] BY <1>1, <2>7
    <3>2. edit' = [edit EXCEPT ![c] = e2] BY <2>1, <2>2, <2>4, <3>1
    <3> QED BY <2>5, <3>2
  <2> QED BY <2>6, <2>7
<1>2. ASSUME NEW i \in Items,
             Insert(i, snapshot[n].kind, NOITEM, up, UNTITLED, BLANK),
             edit' = [edit EXCEPT ![c] =
                      IF n = Len(snapshot) \/ (n = 1 /\ i = NOITEM) THEN Idling
                      ELSE [edit[c] EXCEPT !.made = Append(edit[c].made, i)]]
      PROVE  CatalogInv'
  <2>1. PICK p \in BOOLEAN : p = (n = Len(snapshot) \/ (n = 1 /\ i = NOITEM)) OBVIOUS
  <2>2. edit' = [edit EXCEPT ![c] = IF p THEN Idling ELSE [edit[c] EXCEPT !.made = Append(edit[c].made, i)]]
    BY <1>2, <2>1
  <2>3. PICK e : edit' = [edit EXCEPT ![c] = e] /\ DOMAIN e = EditFields /\ e.do # "store"
    BY <1>1, <2>2
  <2>4. DOMAIN edit' = EditCalls /\ edit'[c] = e /\ \A d \in EditCalls \ {c} : edit'[d] = edit[d]
    BY <2>3 DEF CatalogInv, EditsFit
  <2>5. RowsFit' /\ \A d \in EditCalls : edit'[d] = edit[d] => EditFits(d)'
    BY <1>2, RowInserted
  <2>6. ASSUME NEW d \in EditCalls PROVE DOMAIN edit'[d] = EditFields /\ EditFits(d)'
    <3>1. CASE d = c BY <2>3, <2>4, <3>1 DEF EditFits
    <3>2. CASE d # c BY <2>4, <2>5, <3>2 DEF CatalogInv, EditsFit
    <3> QED BY <3>1, <3>2
  <2> QED BY <2>4, <2>5, <2>6 DEF CatalogInv, EditsFit
<1>3. ASSUME edit' = [edit EXCEPT ![c] =
                      IF n = Len(snapshot) \/ (n = 1 /\ NOITEM = NOITEM) THEN Idling
                      ELSE [edit[c] EXCEPT !.made = Append(edit[c].made, NOITEM)]],
             UNCHANGED <<item, wanted>>
      PROVE  CatalogInv'
  <2>1. PICK p \in BOOLEAN : p = (n = Len(snapshot) \/ (n = 1 /\ NOITEM = NOITEM)) OBVIOUS
  <2>2. edit' = [edit EXCEPT ![c] = IF p THEN Idling ELSE [edit[c] EXCEPT !.made = Append(edit[c].made, NOITEM)]]
    BY <1>3, <2>1
  <2>3. PICK e : edit' = [edit EXCEPT ![c] = e] /\ DOMAIN e = EditFields /\ e.do # "store"
    BY <1>1, <2>2
  <2> QED BY <1>3, <2>3, EditEnds
<1>4. ApplyNext(c) OBVIOUS
<1> QED BY <1>2, <1>3, <1>4 DEF ApplyNext

\* A template is about to be applied.
LEMMA ApplyBegins == ASSUME CatalogInv, NEW c \in EditCalls, NEW i, Apply(c, i) PROVE CatalogInv'
<1>1. PICK row : row = item[i] OBVIOUS
<1>2. PICK e : e = [Idling EXCEPT !.do = "apply", !.id = i, !.row = row] OBVIOUS
<1>3. e.do = "apply" /\ DOMAIN e = EditFields BY <1>2 DEF Idling, EditFields
<1>4. edit' = [edit EXCEPT ![c] = e] /\ UNCHANGED <<item, wanted>> BY <1>1, <1>2 DEF Apply
<1> QED BY <1>3, <1>4, EditEnds

\* An edit is cut off.
LEMMA EditFails == ASSUME CatalogInv, NEW c \in EditCalls, FailEdit(c) PROVE CatalogInv'
BY EditEnds, IdlingIs DEF FailEdit

\* What each request may name.
LEMMA NamedAre ==
  /\ \A n, b, u : Named([name |-> n, body |-> b, under |-> u]) \subseteq {"name", "body", "under"}
  /\ \A n, b, m : Named([name |-> n, body |-> b, mark |-> m]) \subseteq {"name", "body", "mark"}
  /\ \A n, b : Named([name |-> n, body |-> b]) \subseteq {"name", "body"}
  /\ \A n : Named([name |-> n]) \subseteq {"name"}
BY DEF Named

\* A request reads its row and edits its copy.
LEMMA Edits ==
  ASSUME CatalogInv, NEW c \in EditCalls, NEW i, NEW n, NEW b, NEW u,
         \/ DocUpdate(c, i, n, b, u) \/ WhiteboardUpdate(c, i, n, b) \/ ViewUpdate(c, i, n, b, u)
         \/ DashboardUpdate(c, i, n) \/ UpdateWidget(c, i, n, b) \/ FieldUpdate(c, i, n, b)
         \/ StatusUpdate(c, i, n, b) \/ CredentialUpdate(c, u, i, n, b) \/ SearchUpdate(c, u, i, n, b)
         \/ TemplateUpdate(c, i, n, b)
  PROVE  CatalogInv'
<1>1. CASE DocUpdate(c, i, n, b, u)
  BY <1>1, EditBegins, NamedAre DEF DocUpdate, Is, ColumnsOf
<1>2. CASE WhiteboardUpdate(c, i, n, b)
  BY <1>2, EditBegins, NamedAre DEF WhiteboardUpdate, Is, ColumnsOf
<1>3. CASE ViewUpdate(c, i, n, b, u)
  BY <1>3, EditBegins, NamedAre DEF ViewUpdate, Is, ColumnsOf
<1>4. CASE DashboardUpdate(c, i, n)
  BY <1>4, EditBegins, NamedAre DEF DashboardUpdate, Is, ColumnsOf
<1>5. CASE UpdateWidget(c, i, n, b)
  BY <1>5, EditBegins, NamedAre DEF UpdateWidget, Is, ColumnsOf
<1>6. CASE FieldUpdate(c, i, n, b)
  BY <1>6, EditBegins, NamedAre DEF FieldUpdate, Is, ColumnsOf
<1>7. CASE StatusUpdate(c, i, n, b)
  BY <1>7, EditBegins, NamedAre DEF StatusUpdate, Is, ColumnsOf
<1>8. CASE CredentialUpdate(c, u, i, n, b)
  BY <1>8, EditBegins, NamedAre DEF CredentialUpdate, Is, ColumnsOf
<1>9. CASE SearchUpdate(c, u, i, n, b)
  BY <1>9, EditBegins, NamedAre DEF SearchUpdate, Is, ColumnsOf
<1>10. CASE TemplateUpdate(c, i, n, b)
  BY <1>10, EditBegins, NamedAre DEF TemplateUpdate, Is, ColumnsOf
<1> QED BY <1>1, <1>2, <1>3, <1>4, <1>5, <1>6, <1>7, <1>8, <1>9, <1>10

\* Every step keeps the invariant.
LEMMA CatalogStep == ASSUME CatalogInv, [CatalogNext]_catalogVars PROVE CatalogInv'
<1>1. CASE UNCHANGED catalogVars BY <1>1, CatalogKept DEF catalogVars
<1>2. ASSUME NEW t, TaskGone(t) PROVE CatalogInv' BY <1>2, CatalogKept DEF TaskGone
<1>3. ASSUME NEW c \in EditCalls, docNext(c) \/ whiteboardNext(c) PROVE CatalogInv'
  BY <1>3, Created, Deleted, Edits, CopyWritten, EditFails
     DEF docNext, postDoc, DocCreate, changeDoc, DocDelete,
         whiteboardNext, postWhiteboard, WhiteboardCreate, changeWhiteboard, WhiteboardDelete
<1>4. ASSUME NEW c \in EditCalls, viewNext(c) PROVE CatalogInv'
  BY <1>4, Created, Deleted, Edits, CopyWritten, EditFails
     DEF viewNext, postView, ViewCreate, changeView, ViewDelete
<1>5. ASSUME NEW c \in EditCalls, dashboardNext(c) PROVE CatalogInv'
  BY <1>5, Created, Deleted, Edits, CopyWritten, EditFails
     DEF dashboardNext, postDashboard, DashboardCreate, changeDashboard, DashboardDelete,
         widgetCalls, AddWidget, DeleteWidget
<1>6. ASSUME NEW c \in EditCalls, fieldNext(c) PROVE CatalogInv'
  <2>1. ASSUME NEW t, NEW i, NEW v, DeleteValue(t, i) \/ UpsertValue(t, i, v) PROVE CatalogInv'
    BY <2>1, CatalogKept DEF DeleteValue, UpsertValue
  <2> QED BY <1>2, <1>6, <2>1, Created, Deleted, Edits, CopyWritten, EditFails
          DEF fieldNext, postField, FieldCreate, changeField, FieldDelete, valueCalls
<1>7. ASSUME NEW c \in EditCalls, statusNext(c) PROVE CatalogInv'
  BY <1>7, Created, Deleted, Edits, CopyWritten, EditFails
     DEF statusNext, postStatus, StatusCreate, changeStatus, StatusDelete
<1>8. ASSUME NEW c \in EditCalls, credentialNext(c) PROVE CatalogInv'
  BY <1>8, Created, Deleted, Edits, CopyWritten, EditFails
     DEF credentialNext, postCredential, CredentialCreate, changeCredential, CredentialDelete
<1>9. ASSUME NEW c \in EditCalls, searchNext(c) PROVE CatalogInv'
  BY <1>9, Created, Deleted, Edits, CopyWritten, EditFails
     DEF searchNext, postSearch, SearchCreate, changeSearch, SearchDelete
<1>10. ASSUME NEW c \in EditCalls, templateNext(c) PROVE CatalogInv'
  BY <1>10, Created, Deleted, Edits, CopyWritten, EditFails, ApplyBegins, TemplateApplied
     DEF templateNext, postTemplate, TemplateCreate, changeTemplate, TemplateDelete, MadeDelete
<1>11. ASSUME tagNext PROVE CatalogInv'
  <2>1. ASSUME NEW t, NEW i, AttachToTask(t, i) \/ DetachFromTask(t, i) PROVE CatalogInv'
    BY <2>1, CatalogKept DEF AttachToTask, DetachFromTask
  <2> QED BY <1>2, <1>11, <2>1, TagMade DEF tagNext, postTag, tagging
<1> QED BY <1>1, <1>3, <1>4, <1>5, <1>6, <1>7, <1>8, <1>9, <1>10, <1>11 DEF CatalogNext

\* The inductive invariant of the catalogue always holds.
LEMMA CatalogInvariant == CatalogSpec => []CatalogInv
<1>1. CatalogInit => CatalogInv
  <2> SUFFICES ASSUME CatalogInit PROVE CatalogInv OBVIOUS
  <2>1. DOMAIN item = {} /\ DOMAIN wanted = {} BY DEF CatalogInit
  <2>2. DOMAIN edit = EditCalls /\ \A c \in EditCalls : edit[c] = Idling BY DEF CatalogInit
  <2> QED BY <2>1, <2>2, IdlingIs DEF CatalogInv, RowsFit, EditsFit, EditFits
<1> QED BY <1>1, CatalogStep, PTL DEF CatalogSpec

\* A field of a row holds what the last request to name it asked for, in ten kinds of rows
\* whose services write every column back, unless two edits of the row overlapped.
THEOREM FieldsKeptHolds == CatalogSpec => []FieldsKept
<1>1. CatalogInv => FieldsKept BY DEF CatalogInv, RowsFit, RowFits, FieldsKept
<1> QED BY <1>1, CatalogInvariant, PTL

\* The version of a doc or a whiteboard counts the updates stored, overlapping ones too
\* (the statement itself adds one).
THEOREM VersionCountsHolds == CatalogSpec => []VersionCounts
<1>1. CatalogInv => VersionCounts BY DEF CatalogInv, RowsFit, RowFits, VersionCounts, Versioned
<1> QED BY <1>1, CatalogInvariant, PTL
=============================================================================
