------------------------------- MODULE Catalog -------------------------------
(***************************************************************************)
(* The rows a workspace keeps beside its tasks: docs, whiteboards, views,  *)
(* dashboards and their widgets, custom fields and statuses, templates,    *)
(* tags, credentials and saved searches (the service, handler and          *)
(* repository of each). All are edited in the same way: the row is read,   *)
(* the fields a request names are changed in the copy, and the copy is     *)
(* written back, whatever was stored in between. Requests that only read   *)
(* leave no trace here, nor does a saved search's time of last use.        *)
(***************************************************************************)
EXTENDS Rows, Integers, FiniteSets, Sequences

CONSTANTS
    Items,          \* ids of rows, numbered as they appear
    Owners, Words,
    BLANK,          \* the empty word, one of Words
    UNTITLED,       \* the title of a doc that was given none
    MaxUpdates,     \* bound on the updates of a row
    Edited,         \* bound: the ids whose rows are updated at all
    Single, Double, \* bounds: the kinds whose rows take the first id, or the first two
    TaggedTasks, EditCalls,
    NOITEM, KEEP,   \* no row; a field that a request leaves out
    BLURRED         \* a field that an overlapping call has set back

VARIABLES
    item,           \* the rows of all these tables
    wanted,         \* history: what the last call to name a field asked for, and the updates
    edit,           \* the calls in flight
    liveTask,       \* the tasks that exist
    tagged,         \* table task_tags
    value           \* table task_custom_values

catalogVars == <<item, wanted, edit, liveTask, tagged, value>>

\* mark: whose row it is, or what a template is of; under: the row it hangs on; body:
\* content, snapshot, config, colour or password.
Kinds == {"doc", "whiteboard", "view", "dashboard", "widget", "field", "status", "template",
          "tag", "credential", "search", "list", "task"}
ItemRow == [kind: Kinds, mark: Owners \cup {NOITEM, "list", "task", "doc"},
            under: Items \cup {NOITEM}, name: Words \cup {UNTITLED}, body: Words, version: Nat]
Fields == {"mark", "under", "name", "body"}

\* A call in flight: the copy it holds, the fields it was asked to set, whether nobody
\* has stored the row since; of a template being applied, the rows made so far.
Idling == [do |-> "none", id |-> NOITEM, row |-> NOITEM, named |-> {}, clean |-> TRUE, made |-> <<>>]

CatalogTypeOK ==
    /\ DOMAIN item \subseteq Items /\ Range(item) \subseteq ItemRow
    /\ \A i \in DOMAIN item : item[i].under \in DOMAIN item \cup {NOITEM}
    /\ DOMAIN wanted = DOMAIN item
    /\ \A c \in EditCalls : edit[c].do \in {"none", "store", "apply"}
    /\ tagged \subseteq liveTask \X DOMAIN item
    /\ DOMAIN value \subseteq liveTask \X DOMAIN item /\ Range(value) \subseteq Words

CatalogInit ==
    /\ item = <<>> /\ wanted = <<>>
    /\ edit = [c \in EditCalls |-> Idling]
    /\ liveTask = TaggedTasks /\ tagged = {} /\ value = <<>>

-----------------------------------------------------------------------------
(* Statements.                                                             *)

Is(i, kind) == i \in DOMAIN item /\ item[i].kind = kind
Asked(row, updates) == [f \in Fields \cup {"updates"} |-> IF f = "updates" THEN updates ELSE row[f]]

\* The next id no call remembers.
Vacant(i) ==
    /\ i \in Items \ DOMAIN item /\ \A c \in EditCalls : edit[c].id # i
    /\ \A c \in EditCalls : \A n \in DOMAIN edit[c].made : edit[c].made[n] # i
Smallest(i) == Vacant(i) /\ \A j \in Items : Vacant(j) => i <= j

Insert(i, kind, mark, under, name, body) ==
    LET row == [kind |-> kind, mark |-> mark, under |-> under, name |-> name, body |-> body,
                version |-> 1]
    IN  /\ Smallest(i) /\ under \in DOMAIN item \cup {NOITEM}
        /\ item' = Put(item, i, row) /\ wanted' = Put(wanted, i, Asked(row, 0))

Create(kind, mark, under, name, body) ==
    /\ \E i \in Items :
         /\ kind \in Single => i = 1
         /\ kind \in Double => i <= 2
         /\ Insert(i, kind, mark, under, name, body)
    /\ UNCHANGED <<edit, liveTask, tagged, value>>

\* What hangs on a row, directly or not, goes with it.
Subtree(i) ==
    LET grown[n \in 0..Cardinality(DOMAIN item)] ==
          IF n = 0 THEN {i}
          ELSE grown[n - 1] \cup {j \in DOMAIN item : item[j].under \in grown[n - 1]}
    IN  grown[Cardinality(DOMAIN item)]

Delete(i) ==
    LET gone == Subtree(i) IN
    /\ item' = Drop(item, gone) /\ wanted' = Drop(wanted, gone)
    /\ tagged' = {p \in tagged : p[2] \notin gone}
    /\ value' = Drop(value, {p \in DOMAIN value : p[2] \in gone})
    /\ UNCHANGED <<edit, liveTask>>

\* Mutated form: a field the request leaves out is emptied.
PatchedOver(row, patch) ==
    [f \in DOMAIN row |-> IF f \notin DOMAIN patch THEN row[f]
                          ELSE IF patch[f] = KEEP THEN IF f = "body" THEN BLANK ELSE row[f]
                          ELSE patch[f]]
\* What a request may say of a field: content cannot be emptied.
NewName == Words \cup {KEEP}
NewContent == (Words \ {BLANK}) \cup {KEEP}

\* The copy with the fields that were named.
Patched(row, patch) ==
    [f \in DOMAIN row |-> IF f \in DOMAIN patch /\ patch[f] # KEEP THEN patch[f] ELSE row[f]]

Named(patch) == {f \in DOMAIN patch : patch[f] # KEEP}

BeginEdit(c, i, patch) ==
    /\ edit[c] = Idling /\ i \in Edited /\ wanted[i].updates < MaxUpdates
    /\ edit' = [edit EXCEPT ![c] = [Idling EXCEPT !.do = "store", !.id = i,
                  !.row = Patched(item[i], patch), !.named = Named(patch)]]
    /\ UNCHANGED <<item, wanted, liveTask, tagged, value>>

\* Mutated form: one more than in the copy.
VersionAfterCopy(c, i) == edit[c].row.version + 1
\* The statement counts on what is stored.
VersionAfter(c, i) == item[i].version + 1

Storing(c, kind) == edit[c].do = "store" /\ edit[c].row.kind = kind

\* Writes the columns of the copy; a row that is gone is not missed.
Store(c, columns, versioned) ==
    LET i == edit[c].id  copy == edit[c].row IN
    /\ item' = IF i \notin DOMAIN item THEN item
               ELSE [item EXCEPT ![i] = [f \in DOMAIN copy |->
                       IF f \in columns THEN copy[f]
                       ELSE IF f = "version" /\ versioned THEN VersionAfter(c, i)
                       ELSE item[i][f]]]
    /\ wanted' = IF i \notin DOMAIN item THEN wanted
                 ELSE [wanted EXCEPT ![i] = [f \in DOMAIN @ |->
                         IF f = "updates" THEN @[f] + 1
                         ELSE IF f \in edit[c].named THEN copy[f]
                         ELSE IF edit[c].clean \/ f \notin columns \/ copy[f] = item[i][f]
                         THEN @[f] ELSE BLURRED]]
    /\ edit' = [d \in EditCalls |->
         IF d = c THEN Idling
         ELSE IF edit[d].id = i THEN [edit[d] EXCEPT !.clean = FALSE] ELSE edit[d]]
    /\ UNCHANGED <<liveTask, tagged, value>>

\* A statement fails, a constraint refuses, or the server stops.
FailEdit(c) ==
    /\ edit[c] # Idling
    /\ edit' = [edit EXCEPT ![c] = Idling]
    /\ UNCHANGED <<item, wanted, liveTask, tagged, value>>

\* No other row of the kind and the owner has the name.
NameTaken(i, kind, mark, name) ==
    \E j \in DOMAIN item \ {i} : item[j].kind = kind /\ item[j].mark = mark /\ item[j].name = name

-----------------------------------------------------------------------------
(* service/doc and service/whiteboard: the version is counted in the table.*)

DocCreate(parent, title, content) ==
    Create("doc", NOITEM, parent, IF title = BLANK THEN UNTITLED ELSE title, content)
\* Nothing asks that the new parent be no descendant.
DocUpdate(c, i, title, content, parent) ==
    Is(i, "doc") /\ BeginEdit(c, i, [name |-> title, body |-> content, under |-> parent])
DocStore(c) ==
    /\ Storing(c, "doc") /\ edit[c].row.under \in DOMAIN item \cup {NOITEM}
    /\ Store(c, {"name", "body", "under"}, TRUE)
DocDelete(i) == Is(i, "doc") /\ Delete(i)

postDoc == \E p \in Items \cup {NOITEM}, n \in Words : DocCreate(p, n, BLANK)
changeDoc(c) ==
    \/ \E i \in Items, n \in NewName, b \in NewContent, p \in DOMAIN item \cup {KEEP} : DocUpdate(c, i, n, b, p)
    \/ \E i \in Items : DocDelete(i)
    \/ DocStore(c) \/ FailEdit(c)

WhiteboardCreate(name) == name # BLANK /\ Create("whiteboard", NOITEM, NOITEM, name, BLANK)
WhiteboardUpdate(c, i, name, snapshot) ==
    Is(i, "whiteboard") /\ BeginEdit(c, i, [name |-> name, body |-> snapshot])
WhiteboardStore(c) == Storing(c, "whiteboard") /\ Store(c, {"name", "body"}, TRUE)
WhiteboardDelete(i) == Is(i, "whiteboard") /\ Delete(i)

postWhiteboard == \E n \in Words : WhiteboardCreate(n)
changeWhiteboard(c) ==
    \/ \E i \in Items, n \in NewName, b \in NewContent : WhiteboardUpdate(c, i, n, b)
    \/ \E i \in Items : WhiteboardDelete(i)
    \/ WhiteboardStore(c) \/ FailEdit(c)

-----------------------------------------------------------------------------
(* service/view, service/dashboard, service/customfield, service/status.   *)

\* The config remembers who made the view.
ViewCreate(u, name) == name # BLANK /\ Create("view", u, NOITEM, name, BLANK)
\* A new config without a creator gets the one the stored config has.
Creator(config, creator) == IF config = KEEP \/ creator = NOITEM THEN KEEP ELSE creator
ViewUpdate(c, i, name, config, creator) ==
    /\ Is(i, "view")
    /\ BeginEdit(c, i, [name |-> name, body |-> config, mark |-> Creator(config, creator)])
ViewStore(c) == Storing(c, "view") /\ Store(c, {"name", "body", "mark"}, FALSE)
ViewDelete(i) == Is(i, "view") /\ Delete(i)

postView == \E u \in Owners, n \in Words : ViewCreate(u, n)
changeView(c) ==
    \/ \E i \in Items, n, b \in NewName, u \in Owners \cup {NOITEM} : ViewUpdate(c, i, n, b, u)
    \/ \E i \in Items : ViewDelete(i)
    \/ ViewStore(c) \/ FailEdit(c)

DashboardCreate(name) == name # BLANK /\ Create("dashboard", NOITEM, NOITEM, name, BLANK)
\* Which space it is of is left out, a request that names only that is not.
DashboardUpdate(c, i, name) == Is(i, "dashboard") /\ BeginEdit(c, i, [name |-> name])
DashboardStore(c) == Storing(c, "dashboard") /\ Store(c, {"name"}, FALSE)
DashboardDelete(i) == Is(i, "dashboard") /\ Delete(i)
AddWidget(i, title, config) == Is(i, "dashboard") /\ Create("widget", NOITEM, i, title, config)
UpdateWidget(c, i, title, config) ==
    Is(i, "widget") /\ BeginEdit(c, i, [name |-> title, body |-> config])
WidgetStore(c) == Storing(c, "widget") /\ Store(c, {"name", "body"}, FALSE)
DeleteWidget(i) == Is(i, "widget") /\ Delete(i)

postDashboard == \E n \in Words : DashboardCreate(n)
changeDashboard(c) ==
    \/ \E i \in Items, n \in NewName : DashboardUpdate(c, i, n)
    \/ \E i \in Items : DashboardDelete(i)
    \/ DashboardStore(c) \/ FailEdit(c)
widgetCalls(c) ==
    \/ \E i \in Items, n, b \in Words : AddWidget(i, n, b)
    \/ \E i \in Items, n \in NewName, b \in NewContent : UpdateWidget(c, i, n, b)
    \/ \E i \in Items : DeleteWidget(i)
    \/ WidgetStore(c)

FieldCreate(name) == name # BLANK /\ Create("field", NOITEM, NOITEM, name, BLANK)
FieldUpdate(c, i, name, config) == Is(i, "field") /\ BeginEdit(c, i, [name |-> name, body |-> config])
FieldStore(c) == Storing(c, "field") /\ Store(c, {"name", "body"}, FALSE)
FieldDelete(i) == Is(i, "field") /\ Delete(i)
\* A value needs its task and its field.
UpsertValue(t, i, v) ==
    /\ t \in liveTask /\ Is(i, "field")
    /\ value' = Put(value, <<t, i>>, v)
    /\ UNCHANGED <<item, wanted, edit, liveTask, tagged>>
DeleteValue(t, i) ==
    /\ value' = Drop(value, {<<t, i>>})
    /\ UNCHANGED <<item, wanted, edit, liveTask, tagged>>

postField == \E n \in Words : FieldCreate(n)
changeField(c) ==
    \/ \E i \in Items, n \in NewName, b \in NewContent : FieldUpdate(c, i, n, b)
    \/ \E i \in Items : FieldDelete(i)
    \/ FieldStore(c) \/ FailEdit(c)
valueCalls ==
    \E t \in TaggedTasks, i \in Items : DeleteValue(t, i) \/ \E v \in Words : UpsertValue(t, i, v)

\* UNIQUE (list_id, name); all rows here are of one list.
StatusCreate(name) ==
    /\ name # BLANK /\ ~NameTaken(NOITEM, "status", NOITEM, name)
    /\ Create("status", NOITEM, NOITEM, name, BLANK)
StatusUpdate(c, i, name, category) ==
    Is(i, "status") /\ BeginEdit(c, i, [name |-> name, body |-> category])
StatusStore(c) ==
    /\ Storing(c, "status") /\ ~NameTaken(edit[c].id, "status", NOITEM, edit[c].row.name)
    /\ Store(c, {"name", "body"}, FALSE)
StatusDelete(i) == Is(i, "status") /\ Delete(i)

postStatus == \E n \in Words : StatusCreate(n)
changeStatus(c) ==
    \/ \E i \in Items, n, b \in NewName : StatusUpdate(c, i, n, b)
    \/ \E i \in Items : StatusDelete(i)
    \/ StatusStore(c) \/ FailEdit(c)

-----------------------------------------------------------------------------
(* service/tag, service/credential, service/savedsearch.                   *)

\* A tag of the name is given the colour instead.
TagCreate(name, color) ==
    LET same == {i \in DOMAIN item : item[i].kind = "tag" /\ item[i].name = name} IN
    /\ name # BLANK
    /\ \/ same = {} /\ Create("tag", NOITEM, NOITEM, name, color)
       \/ \E i \in same : /\ item' = [item EXCEPT ![i].body = color]
                          /\ wanted' = [wanted EXCEPT ![i].body = color]
                          /\ UNCHANGED <<edit, liveTask, tagged, value>>
AttachToTask(t, i) ==
    /\ t \in liveTask /\ Is(i, "tag")
    /\ tagged' = tagged \cup {<<t, i>>}
    /\ UNCHANGED <<item, wanted, edit, liveTask, value>>
DetachFromTask(t, i) ==
    /\ tagged' = tagged \ {<<t, i>>}
    /\ UNCHANGED <<item, wanted, edit, liveTask, value>>

\* A task takes its tags and values along.
TaskGone(t) ==
    /\ t \in liveTask
    /\ liveTask' = liveTask \ {t}
    /\ tagged' = {p \in tagged : p[1] # t}
    /\ value' = Drop(value, {t} \X Items)
    /\ UNCHANGED <<item, wanted, edit>>

postTag == \E n, b \in Words : TagCreate(n, b)
tagging == \E t \in TaggedTasks, i \in Items : AttachToTask(t, i) \/ DetachFromTask(t, i)

\* Everybody keeps their own: the row is looked up with the caller's id.
CredentialCreate(u, name, password) ==
    name # BLANK /\ password # BLANK /\ Create("credential", u, NOITEM, name, password)
CredentialUpdate(c, u, i, name, password) ==
    /\ Is(i, "credential") /\ item[i].mark = u
    /\ name # BLANK /\ password # BLANK
    /\ BeginEdit(c, i, [name |-> name, body |-> password])
CredentialStore(c) == Storing(c, "credential") /\ Store(c, {"name", "body"}, FALSE)
CredentialDelete(u, i) == Is(i, "credential") /\ item[i].mark = u /\ Delete(i)

postCredential == \E u \in Owners, n, b \in Words : CredentialCreate(u, n, b)
changeCredential(c) == \E u \in Owners :
    \/ \E i \in Items, n, b \in NewName : CredentialUpdate(c, u, i, n, b)
    \/ \E i \in Items : CredentialDelete(u, i)
    \/ CredentialStore(c) \/ FailEdit(c)

SearchCreate(u, name, query) ==
    /\ name # BLANK /\ ~NameTaken(NOITEM, "search", u, name)
    /\ Create("search", u, NOITEM, name, query)
\* Every field is set, named or not.
SearchUpdate(c, u, i, name, query) ==
    /\ Is(i, "search") /\ item[i].mark = u /\ name # BLANK
    /\ BeginEdit(c, i, [name |-> name, body |-> query])
SearchStore(c) ==
    /\ Storing(c, "search") /\ ~NameTaken(edit[c].id, "search", edit[c].row.mark, edit[c].row.name)
    /\ Store(c, {"name", "body"}, FALSE)
SearchDelete(u, i) == Is(i, "search") /\ item[i].mark = u /\ Delete(i)

postSearch == \E u \in Owners, n, b \in Words : SearchCreate(u, n, b)
changeSearch(c) == \E u \in Owners :
    \/ \E i \in Items, n, b \in Words : SearchUpdate(c, u, i, n, b)
    \/ \E i \in Items : SearchDelete(u, i)
    \/ SearchStore(c) \/ FailEdit(c)

-----------------------------------------------------------------------------
(* service/template.                                                       *)

TemplateCreate(of, name) == name # BLANK /\ Create("template", of, NOITEM, name, BLANK)
TemplateUpdate(c, i, name, snapshot) ==
    Is(i, "template") /\ BeginEdit(c, i, [name |-> name, body |-> snapshot])
TemplateStore(c) == Storing(c, "template") /\ Store(c, {"name", "body"}, FALSE)
TemplateDelete(i) == Is(i, "template") /\ Delete(i)

\* What a snapshot lists, each entry with the one it is made under: a list with a
\* status and a task, or three levels of subtasks or pages.
Snapshot(of) ==
    IF of = "list" THEN <<[kind |-> "list", under |-> 0], [kind |-> "status", under |-> 1],
                          [kind |-> "task", under |-> 1]>>
    ELSE <<[kind |-> of, under |-> 0], [kind |-> of, under |-> 1], [kind |-> of, under |-> 2]>>

\* Bound: once at a time, when what was made before has been deleted.
Apply(c, i) ==
    /\ Is(i, "template") /\ edit[c] = Idling
    /\ DOMAIN item = {i} /\ \A d \in EditCalls : edit[d].do # "apply"
    /\ edit' = [edit EXCEPT ![c] = [Idling EXCEPT !.do = "apply", !.id = i, !.row = item[i]]]
    /\ UNCHANGED <<item, wanted, liveTask, tagged, value>>

\* Entry by entry. Without the first there is no result; another one that fails is
\* left out, and what is under it is not tried.
ApplyNext(c) ==
    LET snapshot == Snapshot(edit[c].row.mark)
        n == Len(edit[c].made) + 1
        up == IF snapshot[n].under = 0 THEN NOITEM ELSE edit[c].made[snapshot[n].under]
        after(i) == edit' = [edit EXCEPT ![c] =
                      IF n = Len(snapshot) \/ (n = 1 /\ i = NOITEM) THEN Idling
                      ELSE [edit[c] EXCEPT !.made = Append(edit[c].made, i)]]
    IN  /\ edit[c].do = "apply"
        /\ \/ /\ n = 1 \/ up # NOITEM
              /\ \E i \in Items : Insert(i, snapshot[n].kind, NOITEM, up, UNTITLED, BLANK) /\ after(i)
           \/ after(NOITEM) /\ UNCHANGED <<item, wanted>>
        /\ UNCHANGED <<liveTask, tagged, value>>

\* The rows made can be deleted again at any time.
MadeDelete(i) == i \in DOMAIN item /\ item[i].kind \in {"list", "status", "task", "doc"} /\ Delete(i)

postTemplate == \E of \in {"list", "task", "doc"}, n \in Words : TemplateCreate(of, n)
changeTemplate(c) ==
    \/ \E i \in Items, n \in NewName, b \in NewContent : TemplateUpdate(c, i, n, b)
    \/ \E i \in Items : TemplateDelete(i) \/ Apply(c, i) \/ MadeDelete(i)
    \/ TemplateStore(c) \/ ApplyNext(c) \/ FailEdit(c)

-----------------------------------------------------------------------------
docNext(c) == postDoc \/ changeDoc(c)
whiteboardNext(c) == postWhiteboard \/ changeWhiteboard(c)
viewNext(c) == postView \/ changeView(c)
dashboardNext(c) == postDashboard \/ changeDashboard(c) \/ widgetCalls(c)
fieldNext(c) == postField \/ changeField(c) \/ valueCalls \/ \E t \in TaggedTasks : TaskGone(t)
statusNext(c) == postStatus \/ changeStatus(c)
tagNext == postTag \/ tagging \/ \E t \in TaggedTasks : TaskGone(t)
credentialNext(c) == postCredential \/ changeCredential(c)
searchNext(c) == postSearch \/ changeSearch(c)
templateNext(c) == postTemplate \/ changeTemplate(c)

CatalogNext ==
    \/ \E c \in EditCalls :
         \/ docNext(c) \/ whiteboardNext(c) \/ viewNext(c) \/ dashboardNext(c) \/ fieldNext(c)
         \/ statusNext(c) \/ credentialNext(c) \/ searchNext(c) \/ templateNext(c)
    \/ tagNext

CatalogSpec == CatalogInit /\ [][CatalogNext]_catalogVars

-----------------------------------------------------------------------------
\* A field holds what the last request that named it asked for, whichever fields later
\* requests left out, unless two of them overlapped and the later to write set it back.
FieldsKept ==
    \A i \in DOMAIN item : \A f \in Fields : wanted[i][f] \in {item[i][f], BLURRED}

\* The version of a doc or a whiteboard counts the updates that were stored, also those
\* that overlapped: a reader can tell by it that something was written.
VersionCounts ==
    \A i \in DOMAIN item : item[i].kind \in {"doc", "whiteboard"} =>
        item[i].version = 1 + wanted[i].updates

=============================================================================
