------------------------------ MODULE TaskService ------------------------------
(* The task service (internal/service/task) over the tasks, task_assignees and *)
(* automation_fires tables.                                                    *)
(*                                                                             *)
(* A call of the service is a short program of database statements and event   *)
(* dispatches with no transaction around it: it reads the row once, edits its  *)
(* private copy, and then writes, dispatches and clears one step at a time,    *)
(* interleaved with every other call.  call[c].todo is what remains of the     *)
(* program of the call the goroutine c is in; it is fixed when the row is      *)
(* read, because every later branch of the code tests only the copy and what   *)
(* it was read as.                                                             *)
EXTENDS Integers, Sequences, FiniteSets

CONSTANTS Task,        \* primary keys; a key is never used twice
          User,
          Caller,      \* goroutines that can be inside the service
          Client,      \* those of them that serve an HTTP request
          Status,      \* rows of the statuses table (a row stands for its name too)
          DoneStatus,  \* rows whose category is done or closed
          Automation,  \* rows of the automations table
          MaxDue,      \* due dates are 0..MaxDue, a recurrence is the next date
          Verbs,       \* the kinds of request the clients send
          Edits,       \* bodies of PATCH /tasks/{id} the clients send
          Moves,       \* bodies of PATCH /tasks/{id}/position the clients send
          Drafts,      \* tasks the clients create
          FirstRows,   \* the table the behaviour starts from
          QueueCap,    \* capacity of the engine's queue (256 in the code)
          MaxFaults,   \* bound: database statements that may fail
          Unborn,      \* a key not used yet
          Deleted,     \* a key whose row is gone
          Keep,        \* a field absent from a request
          NULL

Due  == 0..MaxDue
Text == {"open", "completed"} \cup Status

Row == [txt  : Text,                            \* tasks.status
        sid  : Status \cup {NULL},              \* tasks.status_id
        done : BOOLEAN,                         \* tasks.completed_at IS NOT NULL
        arch : BOOLEAN,                         \* tasks.archived
        due  : Due \cup {NULL},                 \* tasks.due_at
        rule : BOOLEAN,                         \* tasks.recurring_rule IS NOT NULL
        root : Task \cup {NULL}]                \* tasks.recurring_parent_id

EditBody == [txt : Text \cup {Keep}, sid : Status \cup {Keep}, due : Due \cup {Keep},
             done : {TRUE, Keep}, arch : BOOLEAN \cup {Keep}, rule : BOOLEAN \cup {Keep}]
MoveBody == [txt : Text \cup {Keep}, sid : Status \cup {Keep}]

Trigger == {"created", "changed", "completed", "assigned", "due_soon"}
Event   == [type : Trigger, id : Task, snap : Row, who : User \cup {NULL}]

DbStep == {"insert", "enlist", "write", "place", "mark", "spawn", "inherit", "clear",
           "archive", "unarchive", "delete", "assign", "unassign", "reread"}
Step   == DbStep \cup {"changed", "completed", "announce", "tell"}

\* A call: the steps left, the task and the private copy of its row, and the
\* task it has inserted with the row it was inserted with.
NoCall == [todo |-> <<>>, id |-> NULL, t |-> NULL, kid |-> NULL, born |-> NULL, who |-> NULL]
Call   == [todo : Seq(Step), id : Task \cup {NULL}, t : Row \cup {NULL},
           kid : Task \cup {NULL}, born : Row \cup {NULL}, who : User \cup {NULL}]

ASSUME TaskServiceAssumption ==
    /\ Client \subseteq Caller
    /\ DoneStatus \subseteq Status
    /\ MaxDue \in Nat /\ QueueCap \in Nat /\ MaxFaults \in Nat
    /\ Edits \subseteq EditBody
    /\ Moves \subseteq MoveBody
    /\ Drafts \subseteq {d \in Row : ~d.done /\ ~d.arch /\ d.root = NULL}
    /\ FirstRows \in [Task -> Row \cup {Unborn}]
    /\ \A k \in Task : FirstRows[k] \in Row => FirstRows[k].root = NULL
    /\ NULL \notin Task /\ NULL \notin User /\ NULL \notin Row
    /\ Unborn \notin Row /\ Deleted \notin Row /\ Unborn # Deleted

VARIABLES rows,      \* the tasks table
          assigned,  \* the task_assignees table
          fires,     \* the automation_fires table
          queue,     \* Engine.queue
          call,      \* the service calls in progress
          faults     \* statements that have failed so far

taskVars == <<rows, assigned, fires, queue, call, faults>>

Exists(k)   == rows[k] \notin {Unborn, Deleted}
Idle(c)     == call[c] = NoCall
At(c, step) == ~Idle(c) /\ Head(call[c].todo) = step

-----------------------------------------------------------------------------
(* What a request does to the private copy of the row. *)

Or(field, old) == IF field = Keep THEN old ELSE field

\* Status text: "completed" completes, any other text reopens.
WithText(t, x) == IF x = Keep THEN t ELSE [t EXCEPT !.txt = x, !.done = (x = "completed")]

\* Status row: its category decides the completion, after the text has.
WithStatus(t, s) == IF s = Keep THEN t ELSE [t EXCEPT !.sid = s, !.done = (s \in DoneStatus)]

Edited(row, in) ==
    LET t == WithStatus(WithText(row, in.txt), in.sid)
    IN  [t EXCEPT !.due = Or(in.due, t.due), !.done = Or(in.done, t.done),
                  !.arch = Or(in.arch, t.arch), !.rule = Or(in.rule, t.rule)]

StatusChanged(was, t) == was.txt # t.txt \/ was.sid # t.sid
Completes(was, t)     == ~was.done /\ t.done

\* A drag takes the column's name with it, and completes the task when the
\* column is new and a done one; it never reopens.
Moved(row, in) ==
    LET t == [row EXCEPT !.sid = Or(in.sid, row.sid),
                         !.txt = IF in.sid # Keep THEN in.sid ELSE Or(in.txt, row.txt)]
    IN  [t EXCEPT !.done = t.done \/ (StatusChanged(row, t) /\ t.sid \in DoneStatus)]

\* due_at of the next occurrence: a date of the rule after due_at, or after the
\* present when the task has none.
NextDates(due) == {d \in Due : due # NULL => d > due}

\* Mutant: the occurrence points at the task just completed.
OccurrenceOfLast(id, t, date) ==
    [txt |-> "open", sid |-> NULL, done |-> FALSE, arch |-> FALSE, due |-> date,
     rule |-> t.rule, root |-> id]

Occurrence(id, t, date) ==
    [txt |-> "open", sid |-> NULL, done |-> FALSE, arch |-> FALSE, due |-> date,
     rule |-> t.rule, root |-> IF t.root # NULL THEN t.root ELSE id]

When(cond, steps) == IF cond THEN steps ELSE <<>>

\* The tail Update and Reorder share: events, then the next occurrence.
Aftermath(was, t) ==
    When(StatusChanged(was, t), <<"changed">>)
    \o When(Completes(was, t), <<"completed">>)
    \o When(Completes(was, t) /\ t.rule, <<"spawn", "inherit", "announce">>)

\* Mutants: "status changed" is dispatched for every update; the dedup rows are
\* cleared only when the completion changes.
UpdatePlanAlwaysChanged(was, t) ==
    <<"write", "changed">> \o When(Completes(was, t), <<"completed">>)
    \o When(was.due # t.due \/ was.done # t.done, <<"clear">>)
UpdatePlanClearsOnCompletion(was, t) ==
    <<"write">> \o Aftermath(was, t) \o When(was.done # t.done, <<"clear">>)

UpdatePlan(was, t) ==
    <<"write">> \o Aftermath(was, t) \o When(was.due # t.due \/ was.done # t.done, <<"clear">>)

ReorderPlan(was, t) ==
    <<"place">> \o When(Completes(was, t), <<"mark">>) \o Aftermath(was, t)

-----------------------------------------------------------------------------
(* Entering the service: the row is read (GetByID) and the call planned.  A   *)
(* request for a missing row returns "not found" and changes nothing.         *)

Enter(c, k, plan, user) ==
    call' = [call EXCEPT ![c] = [NoCall EXCEPT !.todo = plan, !.id = k, !.who = user]]

Edit(c, k, t, plan) ==
    call' = [call EXCEPT ![c] = [NoCall EXCEPT !.todo = plan, !.id = k, !.t = t]]

BeginUpdate(c, k, in) ==
    /\ Idle(c) /\ Exists(k)
    /\ LET t == Edited(rows[k], in) IN Edit(c, k, t, UpdatePlan(rows[k], t))
    /\ UNCHANGED <<rows, assigned, fires, queue, faults>>

BeginReorder(c, k, in) ==
    /\ Idle(c) /\ Exists(k)
    /\ LET t == Moved(rows[k], in) IN Edit(c, k, t, ReorderPlan(rows[k], t))
    /\ UNCHANGED <<rows, assigned, fires, queue, faults>>

BeginArchive(c, k) ==
    /\ Idle(c) /\ Exists(k) /\ rows[k].done /\ ~rows[k].arch
    /\ Enter(c, k, <<"archive">>, NULL)
    /\ UNCHANGED <<rows, assigned, fires, queue, faults>>

BeginUnarchive(c, k) ==
    /\ Idle(c) /\ Exists(k) /\ rows[k].arch
    /\ Enter(c, k, <<"unarchive">>, NULL)
    /\ UNCHANGED <<rows, assigned, fires, queue, faults>>

BeginDelete(c, k) ==
    /\ Idle(c) /\ Exists(k)
    /\ Enter(c, k, <<"delete">>, NULL)
    /\ UNCHANGED <<rows, assigned, fires, queue, faults>>

\* AddAssignee inserts before it reads the task.
BeginAssign(c, k, u) ==
    /\ Idle(c) /\ Exists(k)
    /\ Enter(c, k, <<"assign", "reread", "tell">>, u)
    /\ UNCHANGED <<rows, assigned, fires, queue, faults>>

BeginUnassign(c, k, u) ==
    /\ Idle(c) /\ Exists(k)
    /\ Enter(c, k, <<"unassign">>, u)
    /\ UNCHANGED <<rows, assigned, fires, queue, faults>>

BeginCreate(c, draft) ==
    /\ Idle(c)
    /\ call' = [call EXCEPT ![c] = [NoCall EXCEPT !.todo = <<"insert", "enlist", "announce">>,
                                                  !.t = draft]]
    /\ UNCHANGED <<rows, assigned, fires, queue, faults>>

-----------------------------------------------------------------------------
(* The steps of a call. *)

\* The rest of a call after its first n steps.
After(r, n) == IF Len(r.todo) <= n THEN NoCall
               ELSE [r EXCEPT !.todo = SubSeq(r.todo, n + 1, Len(r.todo))]

Proceed(c) == call' = [call EXCEPT ![c] = After(@, 1)]
Return(c)  == call' = [call EXCEPT ![c] = NoCall]

\* recurring_parent_id REFERENCES tasks(id)
RootExists(t) == t.root # NULL => Exists(t.root)

\* UPDATE ... WHERE id=$1 with every column of the copy.  A row deleted since
\* is not an error: the call goes on as if it had written.
WriteRow(k, t) == rows' = IF Exists(k) THEN [rows EXCEPT ![k] = t] ELSE rows

Write(c) ==
    /\ At(c, "write")
    /\ LET r == call[c] IN
       IF Exists(r.id) /\ ~RootExists(r.t)
       THEN Return(c) /\ UNCHANGED rows
       ELSE Proceed(c) /\ WriteRow(r.id, r.t)
    /\ UNCHANGED <<assigned, fires, queue, faults>>

\* Repo.Reorder writes the status columns alone.
Place(c) ==
    /\ At(c, "place")
    /\ LET r == call[c] IN
       rows' = IF Exists(r.id) THEN [rows EXCEPT ![r.id].txt = r.t.txt, ![r.id].sid = r.t.sid]
               ELSE rows
    /\ Proceed(c)
    /\ UNCHANGED <<assigned, fires, queue, faults>>

\* Reorder's completion: the whole copy, its error ignored.
Mark(c) ==
    /\ At(c, "mark")
    /\ LET r == call[c] IN
       IF Exists(r.id) /\ ~RootExists(r.t) THEN UNCHANGED rows ELSE WriteRow(r.id, r.t)
    /\ Proceed(c)
    /\ UNCHANGED <<assigned, fires, queue, faults>>

SetArchived(c) ==
    /\ At(c, "archive") \/ At(c, "unarchive")
    /\ LET k == call[c].id IN
       rows' = IF Exists(k) THEN [rows EXCEPT ![k].arch = At(c, "archive")] ELSE rows
    /\ Proceed(c)
    /\ UNCHANGED <<assigned, fires, queue, faults>>

\* DELETE FROM tasks: dedup rows and assignees go with it, occurrences lose
\* their root (ON DELETE SET NULL).
Delete(c) ==
    /\ At(c, "delete")
    /\ LET k == call[c].id IN
       /\ rows' = [j \in Task |-> IF j = k THEN Deleted
                                  ELSE IF Exists(j) /\ rows[j].root = k
                                       THEN [rows[j] EXCEPT !.root = NULL] ELSE rows[j]]
       /\ assigned' = {x \in assigned : x[1] # k}
       /\ fires' = {f \in fires : f[2] # k}
    /\ Proceed(c)
    /\ UNCHANGED <<queue, faults>>

\* The keys an INSERT may take; none is left only because Task is finite, and
\* the INSERT then fails.
FreeKeys == {k \in Task : rows[k] = Unborn}

\* Create's INSERT, and that of the next occurrence.
Born(c, t) ==
    \E k \in FreeKeys :
       /\ rows' = [rows EXCEPT ![k] = t]
       /\ call' = [call EXCEPT ![c] = After([@ EXCEPT !.kid = k, !.born = t], 1)]

Insert(c) ==
    /\ At(c, "insert")
    /\ \/ Born(c, call[c].t)
       \/ FreeKeys = {} /\ Return(c) /\ UNCHANGED rows
    /\ UNCHANGED <<assigned, fires, queue, faults>>

\* maybeSpawnRecurring: when the rule has ended, or the insert fails, the
\* occurrence is skipped in silence.
Spawn(c) ==
    /\ At(c, "spawn")
    /\ LET r == call[c] IN
       \/ \E date \in NextDates(r.t.due) :
            LET kid == Occurrence(r.id, r.t, date) IN RootExists(kid) /\ Born(c, kid)
       \/ call' = [call EXCEPT ![c] = After(@, 3)] /\ UNCHANGED rows
    /\ UNCHANGED <<assigned, fires, queue, faults>>

Inherit(c) ==
    /\ At(c, "inherit")
    /\ LET r == call[c] IN
       assigned' = assigned \cup {<<r.kid, x[2]>> : x \in {y \in assigned : y[1] = r.id /\ Exists(r.kid)}}
    /\ Proceed(c)
    /\ UNCHANGED <<rows, fires, queue, faults>>

Enlist(c) ==
    /\ At(c, "enlist")
    /\ \E team \in SUBSET User :
         assigned' = assigned \cup {<<call[c].kid, u>> : u \in IF Exists(call[c].kid) THEN team ELSE {}}
    /\ Proceed(c)
    /\ UNCHANGED <<rows, fires, queue, faults>>

Assign(c) ==
    /\ At(c, "assign")
    /\ LET r == call[c] IN
       IF Exists(r.id) THEN assigned' = assigned \cup {<<r.id, r.who>>} /\ Proceed(c)
                       ELSE Return(c) /\ UNCHANGED assigned
    /\ UNCHANGED <<rows, fires, queue, faults>>

Unassign(c) ==
    /\ At(c, "unassign")
    /\ assigned' = assigned \ {<<call[c].id, call[c].who>>}
    /\ Proceed(c)
    /\ UNCHANGED <<rows, fires, queue, faults>>

Reread(c) ==
    /\ At(c, "reread")
    /\ IF Exists(call[c].id)
       THEN call' = [call EXCEPT ![c] = After([@ EXCEPT !.t = rows[call[c].id]], 1)]
       ELSE Return(c)
    /\ UNCHANGED <<rows, assigned, fires, queue, faults>>

\* Engine.ClearTaskFires
ClearTaskFires(c) ==
    /\ At(c, "clear")
    /\ fires' = {f \in fires : f[2] # call[c].id}
    /\ Proceed(c)
    /\ UNCHANGED <<rows, assigned, queue, faults>>

\* Mutants: the queue has no bound; a full queue loses its oldest event; a full
\* queue blocks its sender.
DispatchUncapped(e) == queue' = Append(queue, e)
DispatchDropsOldest(e) ==
    queue' = Append(IF Len(queue) < QueueCap THEN queue ELSE Tail(queue), e)
DispatchBlocks(e) == Len(queue) < QueueCap /\ queue' = Append(queue, e)

\* Engine.Dispatch never blocks: an event that finds the queue full is dropped.
Dispatch(e) == queue' = IF Len(queue) < QueueCap THEN Append(queue, e) ELSE queue

EventOf(r) ==
    CASE Head(r.todo) = "changed"   -> [type |-> "changed",   id |-> r.id,  snap |-> r.t, who |-> NULL]
      [] Head(r.todo) = "completed" -> [type |-> "completed", id |-> r.id,  snap |-> r.t, who |-> NULL]
      [] Head(r.todo) = "announce"  -> [type |-> "created",   id |-> r.kid, snap |-> r.born, who |-> NULL]
      [] OTHER                      -> [type |-> "assigned",  id |-> r.id,  snap |-> r.t, who |-> r.who]

Emit(c) ==
    /\ At(c, "changed") \/ At(c, "completed") \/ At(c, "announce") \/ At(c, "tell")
    /\ Dispatch(EventOf(call[c]))
    /\ Proceed(c)
    /\ UNCHANGED <<rows, assigned, fires, faults>>

\* A database statement fails (cancelled request, lost connection): most
\* calls return the error, some swallow it and go on.
Fail(c) ==
    /\ ~Idle(c) /\ Head(call[c].todo) \in DbStep
    /\ faults < MaxFaults
    /\ faults' = faults + 1
    /\ call' = [call EXCEPT ![c] =
                  CASE At(c, "mark") \/ At(c, "inherit") \/ At(c, "enlist") \/ At(c, "clear")
                                       -> After(@, 1)
                    [] At(c, "spawn")  -> After(@, 3)
                    [] OTHER           -> NoCall]
    /\ UNCHANGED <<rows, assigned, fires, queue>>

Run(c) ==
    \/ Write(c) \/ Place(c) \/ Mark(c) \/ SetArchived(c) \/ Delete(c)
    \/ Insert(c) \/ Spawn(c) \/ Inherit(c) \/ Enlist(c)
    \/ Assign(c) \/ Unassign(c) \/ Reread(c) \/ ClearTaskFires(c) \/ Emit(c)

-----------------------------------------------------------------------------
(* The handlers. Verbs are the routes an instance uses.                    *)

create(c)         == "create"    \in Verbs /\ \E d \in Drafts : BeginCreate(c, d)
update(c)         == "update"    \in Verbs /\ \E k \in Task, in \in Edits : BeginUpdate(c, k, in)
reorder(c)        == "reorder"   \in Verbs /\ \E k \in Task, in \in Moves : BeginReorder(c, k, in)
delete(c)         == "delete"    \in Verbs /\ \E k \in Task : BeginDelete(c, k)
archive(c)        == "archive"   \in Verbs /\ \E k \in Task : BeginArchive(c, k)
unarchive(c)      == "unarchive" \in Verbs /\ \E k \in Task : BeginUnarchive(c, k)
addAssignee(c)    == "assign"    \in Verbs /\ \E k \in Task, u \in User : BeginAssign(c, k, u)
removeAssignee(c) == "unassign"  \in Verbs /\ \E k \in Task, u \in User : BeginUnassign(c, k, u)

Request(c) ==
    \/ create(c) \/ update(c) \/ reorder(c) \/ delete(c)
    \/ archive(c) \/ unarchive(c) \/ addAssignee(c) \/ removeAssignee(c)

TaskInit ==
    /\ rows = FirstRows
    /\ assigned = {}
    /\ fires = {}
    /\ queue = <<>>
    /\ call = [c \in Caller |-> NoCall]
    /\ faults = 0

TaskNext ==
    \/ \E c \in Client : Request(c)
    \/ \E c \in Caller : Run(c) \/ Fail(c)
-----------------------------------------------------------------------------
(* Safety *)

TaskTypeOK ==
    /\ rows \in [Task -> Row \cup {Unborn, Deleted}]
    /\ assigned \subseteq Task \X User
    /\ fires \subseteq Automation \X Task
    /\ queue \in Seq(Event) /\ Len(queue) <= QueueCap
    /\ call \in [Caller -> Call]
    /\ faults \in 0..MaxFaults

\* The occurrences of a recurring task form a flat series: each points at the
\* first task of the series, which exists and points nowhere, whatever copies
\* are written late and whichever member is deleted (maybeSpawnRecurring).
SeriesFlat ==
    \A k \in Task : (Exists(k) /\ rows[k].root # NULL) =>
        Exists(rows[k].root) /\ rows[rows[k].root].root = NULL
=============================================================================
