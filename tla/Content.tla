------------------------------- MODULE Content -------------------------------
(***************************************************************************)
(* What a workspace is made of: spaces, folders and lists with their forms *)
(* and tasks, and the files attached to tasks. service/space, folder,      *)
(* list, form and attachment with their handlers and repositories, and     *)
(* storage. A call reads first and writes afterwards, one statement at a   *)
(* time; the server may stop between two of them.                          *)
(***************************************************************************)
EXTENDS Rows, Integers, FiniteSets

CONSTANTS HomeSpaces, Folders, ContentLists, Forms, ContentTasks, Uploads,
    MaxSubmissions,     \* bound on the submissions of a form
    ContentCalls, NOROW

ASSUME ContentConstants == MaxSubmissions \in Nat

VARIABLES
    homeSpace,      \* the spaces that exist
    folder,         \* table folders: the space of each
    contentList,    \* table lists: space, folder and archived of each
    form,           \* table forms: list, is_public and submit_count of each
    submission,     \* table form_submissions: form and task of each
    contentTask,    \* table tasks: the list of each
    attachment,     \* table attachments: the task of each
    file,           \* the files in the store; the key names the upload
    unsure,         \* history: uploads whose row was stored while the insert reported an error
    work            \* the calls in flight

hierarchyVars == <<homeSpace, folder, contentList>>
formVars == <<form, submission>>
fileVars == <<attachment, file, unsure>>
contentVars == <<hierarchyVars, formVars, contentTask, fileVars, work>>

\* A call in flight: what it does next, to which row, and what it has read.
Job(do, id, copy, task) == [do |-> do, id |-> id, copy |-> copy, task |-> task]
NoJob == Job("none", NOROW, NOROW, NOROW)

ContentTypeOK ==
    /\ homeSpace \subseteq HomeSpaces
    /\ DOMAIN folder \subseteq Folders /\ Range(folder) \subseteq homeSpace
    /\ DOMAIN contentList \subseteq ContentLists
    /\ \A l \in DOMAIN contentList : /\ contentList[l].space \in homeSpace
                                     /\ contentList[l].folder \in DOMAIN folder \cup {NOROW}
    /\ DOMAIN contentTask \subseteq ContentTasks /\ Range(contentTask) \subseteq DOMAIN contentList
    /\ DOMAIN form \subseteq Forms
    /\ \A f \in DOMAIN form : form[f].list \in DOMAIN contentList /\ form[f].count \in Nat
    /\ \A s \in DOMAIN submission : /\ submission[s].form \in DOMAIN form
                                    /\ submission[s].task \in DOMAIN contentTask \cup {NOROW}
    /\ DOMAIN attachment \subseteq Uploads /\ Range(attachment) \subseteq DOMAIN contentTask
    /\ file \subseteq Uploads /\ unsure \subseteq Uploads

ContentInit ==
    /\ homeSpace = HomeSpaces
    /\ folder = <<>> /\ contentList = <<>> /\ contentTask = <<>>
    /\ form = <<>> /\ submission = <<>>
    /\ attachment = <<>> /\ file = {} /\ unsure = {}
    /\ work = [c \in ContentCalls |-> NoJob]

-----------------------------------------------------------------------------
(* Calls, ids and cascades.                                                *)

StartWork(c, job) == work[c] = NoJob /\ work' = [work EXCEPT ![c] = job]
Working(c, do) == work[c].do = do
GoOn(c, do) == work' = [work EXCEPT ![c].do = do]
EndWork(c) == work' = [work EXCEPT ![c] = NoJob]
\* Ids are random: no call has read a row of a new one.
NewId(id) == \A c \in ContentCalls : work[c].id # id /\ work[c].task # id

\* The rows of a task's attachments go with it, the files stay; "submissions are
\* retained" and lose their task.
DropTasks(ids) ==
    /\ contentTask' = Drop(contentTask, ids)
    /\ attachment' = Drop(attachment, {a \in DOMAIN attachment : attachment[a] \in ids})
    /\ submission' = [s \in DOMAIN submission |->
         IF submission[s].task \in ids THEN [submission[s] EXCEPT !.task = NOROW] ELSE submission[s]]

\* Lists take their tasks and forms along, forms their submissions.
DropLists(ids) ==
    LET forms == {f \in DOMAIN form : form[f].list \in ids}
        tasks == {t \in DOMAIN contentTask : contentTask[t] \in ids}
        left  == {s \in DOMAIN submission : submission[s].form \notin forms}
    IN  /\ contentList' = Drop(contentList, ids)
        /\ form' = Drop(form, forms)
        /\ contentTask' = Drop(contentTask, tasks)
        /\ attachment' = Drop(attachment, {a \in DOMAIN attachment : attachment[a] \in tasks})
        /\ submission' = [s \in left |->
             IF submission[s].task \in tasks THEN [submission[s] EXCEPT !.task = NOROW]
             ELSE submission[s]]
        /\ UNCHANGED <<file, unsure, work>>

-----------------------------------------------------------------------------
(* service/space, folder and list. Who may call them is the policy's       *)
(* answer; a refusal changes nothing.                                      *)

SpaceCreate(s) ==
    /\ s \notin homeSpace /\ NewId(s)
    /\ homeSpace' = homeSpace \cup {s}
    /\ UNCHANGED <<folder, contentList, formVars, contentTask, fileVars, work>>

\* A folder or a list is deleted with its space, a list with its folder.
SpaceDelete(s) ==
    /\ s \in homeSpace
    /\ homeSpace' = homeSpace \ {s}
    /\ LET gone == {d \in DOMAIN folder : folder[d] = s} IN
         /\ folder' = Drop(folder, gone)
         /\ DropLists({l \in DOMAIN contentList :
                         contentList[l].space = s \/ contentList[l].folder \in gone})

FolderCreate(d, s) ==
    /\ d \notin DOMAIN folder /\ NewId(d) /\ s \in homeSpace
    /\ folder' = Put(folder, d, s)
    /\ UNCHANGED <<homeSpace, contentList, formVars, contentTask, fileVars, work>>

FolderDelete(d) ==
    /\ d \in DOMAIN folder
    /\ folder' = Drop(folder, {d})
    /\ DropLists({l \in DOMAIN contentList : contentList[l].folder = d})
    /\ UNCHANGED homeSpace

\* Nothing asks that the folder be of the space.
ListCreate(l, s, d) ==
    /\ l \notin DOMAIN contentList /\ NewId(l)
    /\ s \in homeSpace /\ d \in DOMAIN folder \cup {NOROW}
    /\ contentList' = Put(contentList, l, [space |-> s, folder |-> d, archived |-> FALSE])
    /\ UNCHANGED <<homeSpace, folder, formVars, contentTask, fileVars, work>>

ListDelete(l) ==
    /\ l \in DOMAIN contentList
    /\ DropLists({l}) /\ UNCHANGED <<homeSpace, folder>>

\* Archive and unarchive read the row and are done when it is as asked for.
Archive(c, l, to) ==
    /\ l \in DOMAIN contentList /\ contentList[l].archived # to
    /\ StartWork(c, Job(IF to THEN "archive" ELSE "unarchive", l, NOROW, NOROW))
    /\ UNCHANGED <<hierarchyVars, formVars, contentTask, fileVars>>

SetArchived(c) ==
    /\ Working(c, "archive") \/ Working(c, "unarchive")
    /\ contentList' = IF work[c].id \in DOMAIN contentList
                      THEN [contentList EXCEPT ![work[c].id].archived = Working(c, "archive")]
                      ELSE contentList
    /\ EndWork(c)
    /\ UNCHANGED <<homeSpace, folder, formVars, contentTask, fileVars>>

TaskCreate(t, l) ==
    /\ t \notin DOMAIN contentTask /\ NewId(t) /\ l \in DOMAIN contentList
    /\ contentTask' = Put(contentTask, t, l)
TaskAdd(t, l) == TaskCreate(t, l) /\ UNCHANGED <<hierarchyVars, formVars, fileVars, work>>

TaskDelete(t) ==
    /\ t \in DOMAIN contentTask
    /\ DropTasks({t}) /\ UNCHANGED <<hierarchyVars, form, file, unsure, work>>

-----------------------------------------------------------------------------
(* service/form.                                                           *)

FormCreate(f, l, public) ==
    /\ f \notin DOMAIN form /\ NewId(f) /\ l \in DOMAIN contentList
    /\ form' = Put(form, f, [list |-> l, public |-> public, count |-> 0])
    /\ UNCHANGED <<hierarchyVars, submission, contentTask, fileVars, work>>

\* The row is read and changed here, and written below.
FormUpdate(c, f, public) ==
    /\ f \in DOMAIN form
    /\ StartWork(c, Job("storeForm", f, [form[f] EXCEPT !.public = public], NOROW))
    /\ UNCHANGED <<hierarchyVars, formVars, contentTask, fileVars>>

\* Mutated form: every column of the copy is written.
StoreFormWhole(c) ==
    /\ Working(c, "storeForm")
    /\ form' = IF work[c].id \in DOMAIN form THEN Put(form, work[c].id, work[c].copy) ELSE form
    /\ EndWork(c)
    /\ UNCHANGED <<hierarchyVars, submission, contentTask, fileVars>>

\* Of the columns the editor shows, all are written; submit_count is none of them.
StoreForm(c) ==
    /\ Working(c, "storeForm")
    /\ form' = IF work[c].id \in DOMAIN form
               THEN [form EXCEPT ![work[c].id].public = work[c].copy.public] ELSE form
    /\ EndWork(c)
    /\ UNCHANGED <<hierarchyVars, submission, contentTask, fileVars>>

FormDelete(f) ==
    /\ f \in DOMAIN form
    /\ form' = Drop(form, {f})
    /\ submission' = Drop(submission, {s \in DOMAIN submission : submission[s].form = f})
    /\ UNCHANGED <<hierarchyVars, contentTask, fileVars, work>>

\* The form must be public when it is read, and the required fields filled in.
Submit(c, f) ==
    /\ f \in DOMAIN form /\ form[f].public
    /\ StartWork(c, Job("createTask", f, form[f], NOROW))
    /\ UNCHANGED <<hierarchyVars, formVars, contentTask, fileVars>>

\* The submission goes on without a task when none can be created.
SubmitTask(c) ==
    /\ Working(c, "createTask")
    /\ \/ \E t \in ContentTasks :
            /\ TaskCreate(t, work[c].copy.list)
            /\ work' = [work EXCEPT ![c] = Job("record", @.id, @.copy, t)]
       \/ GoOn(c, "record") /\ UNCHANGED contentTask
    /\ UNCHANGED <<hierarchyVars, formVars, fileVars>>

\* One statement inserts and counts; it needs the form and the task to be there.
RecordSubmission(c) ==
    LET f == work[c].id IN
    /\ Working(c, "record") /\ f \in DOMAIN form
    /\ work[c].task \in DOMAIN contentTask \cup {NOROW}
    /\ \E s \in 1..MaxSubmissions :
         /\ s \notin DOMAIN submission /\ \A r \in 1..s - 1 : r \in DOMAIN submission
         /\ submission' = Put(submission, s, [form |-> f, task |-> work[c].task])
    /\ form' = [form EXCEPT ![f].count = @ + 1]
    /\ EndWork(c)
    /\ UNCHANGED <<hierarchyVars, contentTask, fileVars>>

-----------------------------------------------------------------------------
(* service/attachment and storage.                                         *)

\* The file is stored under a new key before the row is inserted.
Upload(c, a, t) ==
    /\ a \notin file \cup DOMAIN attachment /\ NewId(a)
    /\ file' = file \cup {a} /\ unsure' = unsure \ {a}
    /\ StartWork(c, Job("insertRow", a, NOROW, t))
    /\ UNCHANGED <<hierarchyVars, formVars, contentTask, attachment>>

InsertAttachment(c) ==
    /\ Working(c, "insertRow") /\ work[c].task \in DOMAIN contentTask
    /\ attachment' = Put(attachment, work[c].id, work[c].task)
    /\ EndWork(c)
    /\ UNCHANGED <<hierarchyVars, formVars, contentTask, file, unsure>>

\* The insert returns an error, of which the row may know nothing: the request was
\* cancelled after the commit. The file is removed again whatever the error is.
UndoUpload(c) ==
    /\ Working(c, "insertRow")
    /\ \/ UNCHANGED <<attachment, unsure>>
       \/ /\ work[c].task \in DOMAIN contentTask
          /\ attachment' = Put(attachment, work[c].id, work[c].task)
          /\ unsure' = unsure \cup {work[c].id}
    /\ GoOn(c, "removeFile")
    /\ UNCHANGED <<hierarchyVars, formVars, contentTask, file>>

\* Mutated form: the file goes first.
DeleteAttachmentFileFirst(c, a) ==
    /\ a \in DOMAIN attachment
    /\ file' = file \ {a}
    /\ StartWork(c, Job("deleteRow", a, NOROW, NOROW))
    /\ UNCHANGED <<hierarchyVars, formVars, contentTask, attachment, unsure>>

\* The row is read, then deleted, before its file is.
DeleteAttachment(c, a) ==
    /\ a \in DOMAIN attachment
    /\ StartWork(c, Job("deleteRow", a, NOROW, NOROW))
    /\ UNCHANGED <<hierarchyVars, formVars, contentTask, fileVars>>

DeleteAttachmentRow(c) ==
    /\ Working(c, "deleteRow")
    /\ attachment' = Drop(attachment, {work[c].id})
    /\ GoOn(c, "removeFile")
    /\ UNCHANGED <<hierarchyVars, formVars, contentTask, file, unsure>>

RemoveFile(c) ==
    /\ Working(c, "removeFile")
    /\ file' = file \ {work[c].id}
    /\ EndWork(c)
    /\ UNCHANGED <<hierarchyVars, formVars, contentTask, attachment, unsure>>

\* A statement fails, a row it needs is gone, or the server stops. A failed insert
\* of a running server is undone above; a file left without a row stays.
FailWork(c) ==
    /\ work[c] # NoJob
    /\ EndWork(c)
    /\ UNCHANGED <<hierarchyVars, formVars, contentTask, fileVars>>

-----------------------------------------------------------------------------
(* The handlers.                                                           *)

folderCalls(d) == FolderDelete(d) \/ \E s \in HomeSpaces : FolderCreate(d, s)
postList(l) == \E s \in HomeSpaces, d \in Folders \cup {NOROW} : ListCreate(l, s, d)
changeList(c, l) == ListDelete(l) \/ \E to \in BOOLEAN : Archive(c, l, to)
HierarchyNext ==
    \/ \E s \in HomeSpaces : SpaceCreate(s) \/ SpaceDelete(s)
    \/ \E d \in Folders : folderCalls(d)
    \/ \E c \in ContentCalls, l \in ContentLists : postList(l) \/ changeList(c, l)
    \/ \E c \in ContentCalls : SetArchived(c)

TaskNext ==
    \/ \E t \in ContentTasks : TaskDelete(t) \/ \E l \in ContentLists : TaskAdd(t, l)
    \/ \E l \in ContentLists, s \in HomeSpaces : ListCreate(l, s, NOROW)
    \/ \E c \in ContentCalls : FailWork(c)

formCalls(c, f) ==
    \/ FormDelete(f)
    \/ \E l \in ContentLists, p \in BOOLEAN : FormCreate(f, l, p)
    \/ \E p \in BOOLEAN : FormUpdate(c, f, p)
publicSubmit(c) == (\E f \in Forms : Submit(c, f)) \/ SubmitTask(c) \/ RecordSubmission(c)
FormNext == \E c \in ContentCalls :
    publicSubmit(c) \/ StoreForm(c) \/ \E f \in Forms : formCalls(c, f)

postAttachment(c) == (\E a \in Uploads, t \in ContentTasks : Upload(c, a, t)) \/ InsertAttachment(c)
deleteAttachment(c) == (\E a \in Uploads : DeleteAttachment(c, a)) \/ DeleteAttachmentRow(c)
FileNext == \E c \in ContentCalls :
    postAttachment(c) \/ UndoUpload(c) \/ deleteAttachment(c) \/ RemoveFile(c)

ContentNext == HierarchyNext \/ TaskNext \/ FormNext \/ FileNext

ContentSpec == ContentInit /\ [][ContentNext]_contentVars

-----------------------------------------------------------------------------
\* "So the counter stays consistent": a form's submit_count is the number of its stored
\* submissions, while others edit the form from a copy read earlier and the tasks made
\* for submissions are deleted.
SubmissionsCounted ==
    \A f \in DOMAIN form :
        form[f].count = Cardinality({s \in DOMAIN submission : submission[s].form = f})

\* An attachment that is listed can be opened: its file is in the store, whichever upload
\* or deletion was cut off where and whatever was deleted meanwhile, unless its own insert
\* was reported to have failed and had not.
RowHasFile == DOMAIN attachment \ unsure \subseteq file

=============================================================================
