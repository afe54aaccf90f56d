------------------------------ MODULE Sprints -------------------------------
(***************************************************************************)
(* The sprints of one list and the tasks in them: service/sprint with its  *)
(* handler and repository, and what task updates do to the same rows.      *)
(* Close is three statements (close, look for the next sprint, move the    *)
(* open tasks); Update writes a whole row back from a copy.                *)
(***************************************************************************)
EXTENDS Integers, FiniteSets

CONSTANTS SprintIds, SprintTasks, SprintCalls, LastDay, NONE, LOST

ASSUME SprintConstants ==
    /\ LastDay \in Nat
    /\ NONE # LOST
    /\ {NONE, LOST} \cap SprintIds = {}

VARIABLES
    sprint,     \* table sprints: NONE before, LOST after a row's life
    inSprint,   \* column tasks.sprint_id
    finished,   \* the tasks that are completed
    closing,    \* the calls in flight: NONE or their progress
    sprintRace, \* history: two of these calls were in flight together
    lateOpen,   \* history: sprints that got an open task while closed, were
                \* closed by an edit, or whose closing failed half way
    newcomers   \* history: sprints made since a closing looked for the next one

sprintVars == <<sprint, inSprint, finished, closing, sprintRace, lateOpen, newcomers>>

Days == 0..LastDay
\* Planned and active sprints are treated alike: both are open.
Statuses == {"active", "closed"}
SprintRow == [start: Days, end: Days, status: Statuses]

\* A call: the sprint, the row it will write, its next statement, its target.
SprintCall == [id: SprintIds, row: SprintRow,
               step: {"edit", "close", "next", "move"}, to: SprintIds \cup {NONE}]

ASSUME SprintMarkers == NONE \notin SprintCall /\ {NONE, LOST} \cap SprintRow = {}

SprintTypeOK ==
    /\ sprint \in [SprintIds -> SprintRow \cup {NONE, LOST}]
    /\ inSprint \in [SprintTasks -> SprintIds \cup {NONE}]
    /\ finished \in SUBSET SprintTasks
    /\ closing \in [SprintCalls -> SprintCall \cup {NONE}]
    /\ sprintRace \in BOOLEAN
    /\ lateOpen \in SUBSET SprintIds
    /\ newcomers \in SUBSET SprintIds

SprintInit ==
    /\ sprint = [s \in SprintIds |-> NONE]
    /\ inSprint = [t \in SprintTasks |-> NONE]
    /\ finished = {}
    /\ closing = [c \in SprintCalls |-> NONE]
    /\ sprintRace = FALSE
    /\ lateOpen = {}
    /\ newcomers = {}

Existing == {s \in SprintIds : sprint[s] \notin {NONE, LOST}}
Closed == {s \in Existing : sprint[s].status = "closed"}
OpenTasksOf(s) == {t \in SprintTasks \ finished : inSprint[t] = s}

-----------------------------------------------------------------------------
(* Statements of the repository.                                           *)

UpdateSprint(s, row) ==
    sprint' = IF s \in Existing THEN [sprint EXCEPT ![s] = row] ELSE sprint

\* Mutated form: the order of the rows is left to the database.
NextOpenSprintUnordered(day) ==
    LET later == {s \in Existing \ Closed : sprint[s].start >= day}
    IN  IF later = {} THEN {NONE} ELSE later

\* The earliest sprint that is not closed and starts on or after the day.
NextOpenSprint(day) ==
    LET later == {s \in Existing \ Closed : sprint[s].start >= day}
    IN  IF later = {} THEN {NONE}
        ELSE {s \in later : \A r \in later : sprint[s].start <= sprint[r].start}

\* Mutated form: without a next sprint the tasks are left where they are.
MoveOpenTasksOnlyOn(s, to) ==
    inSprint' = [t \in SprintTasks |->
        IF t \in OpenTasksOf(s) /\ to # NONE THEN to ELSE inSprint[t]]

MoveOpenTasks(s, to) ==
    inSprint' = [t \in SprintTasks |-> IF t \in OpenTasksOf(s) THEN to ELSE inSprint[t]]

-----------------------------------------------------------------------------
(* The service.                                                            *)

CreateSprint(s, start, end, status) ==
    /\ sprint[s] = NONE
    /\ end >= start
    /\ sprint' = [sprint EXCEPT ![s] = [start |-> start, end |-> end, status |-> status]]
    /\ newcomers' = IF \E c \in SprintCalls : closing[c] # NONE /\ closing[c].step = "move"
                    THEN newcomers \cup {s} ELSE newcomers
    /\ UNCHANGED <<inSprint, finished, closing, sprintRace, lateOpen>>

BeginSprintCall(c, s, row, step) ==
    /\ closing[c] = NONE
    /\ closing' = [closing EXCEPT ![c] = [id |-> s, row |-> row, step |-> step, to |-> NONE]]
    /\ sprintRace' = (sprintRace \/ \E d \in SprintCalls : closing[d] # NONE)
    /\ UNCHANGED <<sprint, inSprint, finished, lateOpen, newcomers>>

\* First statement of Update: the row is read and the new one made from it.
EditSprint(c, s, row) ==
    /\ s \in Existing
    /\ row.end >= row.start
    /\ BeginSprintCall(c, s, row, "edit")

WriteSprint(c) ==
    /\ closing[c] # NONE /\ closing[c].step = "edit"
    /\ UpdateSprint(closing[c].id, closing[c].row)
    /\ closing' = [closing EXCEPT ![c] = NONE]
    /\ lateOpen' = IF closing[c].row.status = "closed"
                   THEN lateOpen \cup {closing[c].id} ELSE lateOpen \ {closing[c].id}
    /\ UNCHANGED <<inSprint, finished, sprintRace, newcomers>>

\* Close returns at once for a closed sprint.
CloseSprint(c, s) ==
    /\ s \in Existing \ Closed
    /\ BeginSprintCall(c, s, [sprint[s] EXCEPT !.status = "closed"], "close")

CloseWrite(c) ==
    /\ closing[c] # NONE /\ closing[c].step = "close"
    /\ UpdateSprint(closing[c].id, closing[c].row)
    /\ closing' = [closing EXCEPT ![c].step = "next"]
    /\ UNCHANGED <<inSprint, finished, sprintRace, lateOpen, newcomers>>

CloseFindNext(c) ==
    /\ closing[c] # NONE /\ closing[c].step = "next"
    /\ \E s \in NextOpenSprint(closing[c].row.end) :
         closing' = [closing EXCEPT ![c].step = "move", ![c].to = s]
    /\ newcomers' = {}
    /\ UNCHANGED <<sprint, inSprint, finished, sprintRace, lateOpen>>

\* A target deleted in the meantime fails on the foreign key.
CloseMove(c) ==
    /\ closing[c] # NONE /\ closing[c].step = "move"
    /\ closing[c].to \in Existing \cup {NONE}
    /\ MoveOpenTasks(closing[c].id, closing[c].to)
    /\ closing' = [closing EXCEPT ![c] = NONE]
    /\ lateOpen' = IF closing[c].to \in Closed /\ OpenTasksOf(closing[c].id) # {}
                   THEN lateOpen \cup {closing[c].to} ELSE lateOpen
    /\ UNCHANGED <<sprint, finished, sprintRace, newcomers>>

FailSprintCall(c) ==
    /\ closing[c] # NONE
    /\ closing' = [closing EXCEPT ![c] = NONE]
    /\ lateOpen' = IF closing[c].step \in {"next", "move"}
                   THEN lateOpen \cup {closing[c].id} ELSE lateOpen
    /\ UNCHANGED <<sprint, inSprint, finished, sprintRace, newcomers>>

\* ON DELETE SET NULL on tasks.sprint_id.
DeleteSprint(s) ==
    /\ s \in Existing
    /\ sprint' = [sprint EXCEPT ![s] = LOST]
    /\ inSprint' = [t \in SprintTasks |-> IF inSprint[t] = s THEN NONE ELSE inSprint[t]]
    /\ UNCHANGED <<finished, closing, sprintRace, lateOpen, newcomers>>

\* The task service puts a task into any sprint, closed ones too, and
\* completes and reopens it there.
UpdateTask(t, s, done) ==
    /\ s \in Existing \cup {NONE}
    /\ inSprint' = [inSprint EXCEPT ![t] = s]
    /\ finished' = IF done THEN finished \cup {t} ELSE finished \ {t}
    /\ lateOpen' = IF s \in Closed /\ ~done THEN lateOpen \cup {s} ELSE lateOpen
    /\ UNCHANGED <<sprint, closing, sprintRace, newcomers>>

-----------------------------------------------------------------------------
(* The handler.                                                            *)

PostSprint ==
    \E s \in SprintIds, a, b \in Days, st \in Statuses : CreateSprint(s, a, b, st)

PatchSprint ==
    \E c \in SprintCalls, s \in SprintIds, row \in SprintRow : EditSprint(c, s, row)

PostSprintClose == \E c \in SprintCalls, s \in SprintIds : CloseSprint(c, s)

DeleteSprintById == \E s \in SprintIds : DeleteSprint(s)

SprintNext ==
    \/ PostSprint \/ PatchSprint \/ PostSprintClose \/ DeleteSprintById
    \/ \E t \in SprintTasks, s \in SprintIds \cup {NONE}, done \in BOOLEAN :
         UpdateTask(t, s, done)
    \/ \E c \in SprintCalls : WriteSprint(c) \/ CloseWrite(c) \/ CloseFindNext(c)
                              \/ CloseMove(c) \/ FailSprintCall(c)

SprintSpec == SprintInit /\ [][SprintNext]_sprintVars

-----------------------------------------------------------------------------
\* A sprint whose closing is over holds no open task, unless somebody put one
\* there afterwards, an edit closed it, or the closing failed half way: a second
\* Close finds it closed and moves nothing.
ClosedIsEmpty ==
    sprintRace \/ \A s \in Closed \ lateOpen :
        \/ OpenTasksOf(s) = {}
        \/ \E c \in SprintCalls : closing[c] # NONE /\ closing[c].id = s

\* Where open tasks could have gone when the call looked, as far as it still exists.
Candidates(day) == {s \in Existing \ (Closed \cup newcomers) : sprint[s].start >= day}

\* Open tasks roll forward, whatever is created, deleted and moved between the look for
\* the next sprint and the moving: to the FIRST sprint that starts when theirs ends or
\* later, which is still open when they arrive, and to none only if there is no such
\* sprint. A sprint made after the look does not count; with a target deleted after it
\* the moving fails. Nothing is said once two closings or edits have overlapped.
RollsForward ==
    sprintRace \/ \A c \in SprintCalls :
        closing[c] # NONE /\ closing[c].step = "move" =>
            LET id   == closing[c].id
                from == IF id \in Existing THEN sprint[id] ELSE closing[c].row
                to   == closing[c].to
            IN  /\ to = NONE => Candidates(from.end) = {}
                /\ to \in Existing =>
                     /\ to \notin Closed /\ sprint[to].start >= from.end
                     /\ \A s \in Candidates(from.end) : sprint[to].start <= sprint[s].start
=============================================================================
