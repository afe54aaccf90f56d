-------------------------- MODULE AutomationEngine ---------------------------
(* The rule engine (internal/automation) over the task service.               *)
(*                                                                             *)
(* Two goroutines: the worker takes task events from the bounded queue, and    *)
(* the scanner sweeps for tasks whose due date comes near.  Both run the       *)
(* actions of the rules they matched, one after the other, and the actions     *)
(* call the task service again, which may dispatch further events into the     *)
(* queue the worker itself empties.  Rules are matched against the copy of the *)
(* row the event carries; the actions work on the row of the moment.           *)
EXTENDS TaskService

CONSTANTS Worker, Scanner,
          Rule,        \* [Automation -> trigger, condition and actions of its row]
          Age,         \* [Automation -> Nat], the order of created_at
          Switchable,  \* the rules users switch on and off
          MaxNow,      \* bound: the clock stops there
          MaxCrashes   \* bound: restarts of the server

Goroutine == {Worker, Scanner}

\* UpdateInput{StatusID: &statusID}
ChangeStatus(s) ==
    [txt |-> Keep, sid |-> s, due |-> Keep, done |-> Keep, arch |-> Keep, rule |-> Keep]

\* The actions that change a task; the others (add_tag, add_comment, notify)
\* have no effect on what the engine does next.
Action == [type : {"change_status"}, sid : Status] \cup [type : {"assign_user"}, user : User]
          \cup [type : {"notify"}]

RuleRow == [on   : Trigger,
            to   : Status \cup {NULL},   \* trigger.to_status_id, or the condition status_id eq
            user : User \cup {NULL},     \* trigger.user_id
            lead : Nat,                  \* trigger.lead_days
            acts : Seq(Action)]

ASSUME EngineAssumption ==
    /\ Goroutine \subseteq Caller /\ Goroutine \cap Client = {} /\ Worker # Scanner
    /\ Rule \in [Automation -> RuleRow]
    /\ Age \in [Automation -> Nat]
    /\ Switchable \subseteq Automation
    /\ MaxNow \in Nat /\ MaxCrashes \in Nat

VARIABLES enabled,  \* automations.enabled
          job,      \* the event each goroutine is handling, rules and actions left
          hand,     \* firings the sweep claimed and has not yet handled
          now,      \* the clock due dates are compared with
          crashes,  \* restarts so far
          spare,    \* history: dedup rows removed minus firings handled, per pair
          dueAt,    \* history: the due date a pair's dedup row was inserted for
          overlaps  \* history: the tasks two calls have worked on at the same time

engineVars  == <<enabled, job, hand, now, crashes>>
historyVars == <<spare, dueAt, overlaps>>
vars        == <<taskVars, engineVars, historyVars>>

Pair   == Automation \X Task
Firing == [auto : Automation, id : Task, snap : Row]

NoJob == [ev |-> NULL, left |-> {}, acts |-> <<>>]
Job   == [ev : Event \cup {NULL}, left : SUBSET Automation, acts : Seq(Action)]

Busy(g) == job[g] # NoJob

\* Two calls on one task, seen with the history.
Shared == {k \in Task : \E c, d \in Caller : c # d /\ call[c].id = k /\ call[d].id = k}
Overlapped == overlaps' = overlaps \cup Shared'

-----------------------------------------------------------------------------
(* Matching *)

\* triggerMatches: only a status trigger looks at the row, and only an
\* assignment trigger at the assignee; conditionsMatch as a condition on
\* status_id, for every type of trigger.
Matches(r, ev) ==
    /\ r.on = ev.type
    /\ r.to # NULL => ev.snap.sid = r.to
    /\ (ev.type = "assigned" /\ r.user # NULL /\ ev.who # NULL) => r.user = ev.who

\* ListEnabledForTrigger and the loop's two tests.
Matching(ev) == {a \in enabled : Matches(Rule[a], ev)}

Oldest(S) == {a \in S : \A b \in S : Age[a] <= Age[b]}

-----------------------------------------------------------------------------
(* The worker *)

Take ==
    /\ ~Busy(Worker) /\ queue # <<>>
    /\ queue' = Tail(queue)
    /\ LET ev == Head(queue) IN
       job' = [job EXCEPT ![Worker] =
                 IF Matching(ev) = {} THEN NoJob
                 ELSE [ev |-> ev, left |-> Matching(ev), acts |-> <<>>]]
    /\ UNCHANGED <<rows, assigned, fires, call, faults, enabled, hand, now, crashes, historyVars>>

\* The next rule of the event, in the order of created_at.
NextRule ==
    /\ Busy(Worker) /\ Idle(Worker) /\ job[Worker].acts = <<>>
    /\ \E a \in Oldest(job[Worker].left) :
         job' = [job EXCEPT ![Worker].left = @ \ {a}, ![Worker].acts = Rule[a].acts]
    /\ UNCHANGED <<taskVars, enabled, hand, now, crashes, historyVars>>

\* One action: a call of the task service by the goroutine itself, which goes
\* on with the next action when the call returns.  An action that fails is
\* logged and skipped.
Act(g) ==
    /\ Busy(g) /\ Idle(g) /\ job[g].acts # <<>>
    /\ LET act == Head(job[g].acts)
           k   == job[g].ev.id
       IN  \/ act.type = "change_status" /\ BeginUpdate(g, k, ChangeStatus(act.sid))
           \/ act.type = "assign_user" /\ BeginAssign(g, k, act.user)
           \/ (act.type = "notify" \/ ~Exists(k)) /\ UNCHANGED taskVars
    /\ job' = [job EXCEPT ![g].acts = Tail(@)]
    /\ Overlapped
    /\ UNCHANGED <<enabled, hand, now, crashes, spare, dueAt>>

\* The event is handled: RecordRun of the last rule, which changes nothing a
\* rule looks at, and the loop of run() comes round.
Finish(g) ==
    /\ Busy(g) /\ Idle(g) /\ job[g].acts = <<>> /\ job[g].left = {}
    /\ job' = [job EXCEPT ![g] = NoJob]
    /\ UNCHANGED <<taskVars, enabled, hand, now, crashes, historyVars>>

-----------------------------------------------------------------------------
(* The scanner *)

\* Mutant: the sweep forgets its dedup rows.
DueSoonAgain(a, k) ==
    /\ a \in enabled /\ Rule[a].on = "due_soon"
    /\ Exists(k) /\ rows[k].due # NULL /\ ~rows[k].arch /\ ~rows[k].done
    /\ rows[k].due \in now..(now + Rule[a].lead)

DueSoon(a, k) ==
    /\ a \in enabled /\ Rule[a].on = "due_soon"
    /\ Exists(k) /\ rows[k].due # NULL /\ ~rows[k].arch /\ ~rows[k].done
    /\ rows[k].due \in now..(now + Rule[a].lead)
    /\ <<a, k>> \notin fires

\* One statement finds the pairs, inserts their dedup rows and returns the
\* firings; it commits before any of them is handled.
Scan ==
    /\ ~Busy(Scanner) /\ hand = {}
    /\ LET claimed == {p \in Pair : DueSoon(p[1], p[2])} IN
       /\ claimed # {}
       /\ fires' = fires \cup claimed
       /\ hand' = {[auto |-> p[1], id |-> p[2], snap |-> rows[p[2]]] : p \in claimed}
       /\ dueAt' = [p \in Pair |-> IF p \in claimed THEN rows[p[2]].due ELSE dueAt[p]]
    /\ UNCHANGED <<rows, assigned, queue, call, faults, enabled, job, now, crashes, spare, overlaps>>

\* handleSpecific: the rule's conditions, then its actions.
Fire ==
    /\ ~Busy(Scanner)
    /\ \E f \in hand :
         LET ev == [type |-> "due_soon", id |-> f.id, snap |-> f.snap, who |-> NULL]
             r  == Rule[f.auto]
         IN  /\ hand' = hand \ {f}
             /\ job' = [job EXCEPT ![Scanner] =
                          IF Matches(r, ev) THEN [ev |-> ev, left |-> {}, acts |-> r.acts]
                          ELSE NoJob]
             /\ spare' = [spare EXCEPT ![<<f.auto, f.id>>] = @ - 1]
    /\ UNCHANGED <<taskVars, enabled, now, crashes, dueAt, overlaps>>

-----------------------------------------------------------------------------
(* Steps of the service, seen with the history: a dedup row that disappears   *)
(* is counted.                                                                 *)

Removed(p) == p \in fires /\ p \notin fires'

Recorded ==
    /\ spare' = [p \in Pair |-> IF Removed(p) THEN spare[p] + 1 ELSE spare[p]]
    /\ dueAt' = [p \in Pair |-> IF Removed(p) THEN NULL ELSE dueAt[p]]
    /\ Overlapped
    /\ UNCHANGED engineVars

Service == TaskNext /\ Recorded

\* PATCH /automations/{id} {enabled}
Toggle(a) ==
    /\ enabled' = IF a \in enabled THEN enabled \ {a} ELSE enabled \cup {a}
    /\ UNCHANGED <<taskVars, job, hand, now, crashes, historyVars>>

Tick ==
    /\ now < MaxNow
    /\ now' = now + 1
    /\ UNCHANGED <<taskVars, enabled, job, hand, crashes, historyVars>>

\* The server stops: only the tables survive.
Crash ==
    /\ crashes < MaxCrashes
    /\ crashes' = crashes + 1
    /\ queue' = <<>>
    /\ call' = [c \in Caller |-> NoCall]
    /\ job' = [g \in Goroutine |-> NoJob]
    /\ hand' = {}
    /\ UNCHANGED <<rows, assigned, fires, faults, enabled, now, historyVars>>

Init ==
    /\ TaskInit
    /\ enabled = Automation
    /\ job = [g \in Goroutine |-> NoJob]
    /\ hand = {}
    /\ now = 0
    /\ crashes = 0
    /\ spare = [p \in Pair |-> 0]
    /\ dueAt = [p \in Pair |-> NULL]
    /\ overlaps = {}

Next ==
    \/ Service
    \/ Take \/ NextRule
    \/ \E g \in Goroutine : Act(g) \/ Finish(g)
    \/ Scan \/ Fire
    \/ \E a \in Switchable : Toggle(a)
    \/ Tick \/ Crash

Spec == Init /\ [][Next]_vars

\* Every goroutine is scheduled: a call goes on, the worker and the scanner
\* loop.  Nobody has to send a request, and no statement has to fail.
Fairness ==
    /\ \A c \in Caller : WF_vars(Run(c) /\ Recorded)
    /\ \A g \in Goroutine : WF_vars(Act(g)) /\ WF_vars(Finish(g))
    /\ WF_vars(Take) /\ WF_vars(NextRule) /\ WF_vars(Scan) /\ WF_vars(Fire)

FairSpec == Spec /\ Fairness

-----------------------------------------------------------------------------
(* Safety *)

\* The tables, the queue, the calls and the goroutines hold what their columns
\* and types allow, and the queue never holds more than its capacity
\* (Engine.queue, make(chan Event, 256)).
TypeOK ==
    /\ TaskTypeOK
    /\ enabled \subseteq Automation
    /\ job \in [Goroutine -> Job]
    /\ hand \subseteq Firing
    /\ now \in 0..MaxNow
    /\ crashes \in 0..MaxCrashes
    /\ spare \in [Pair -> Int]
    /\ dueAt \in [Pair -> Due \cup {NULL}]
    /\ overlaps \subseteq Task

Pending(p) == \E f \in hand : f.auto = p[1] /\ f.id = p[2]

\* Number of times the pair may still be handled on the dedup rows it has had.
Credit(p) == spare[p] + (IF p \in fires THEN 1 ELSE 0)

\* Every firing of the due-soon trigger is paid for by a dedup row of its own:
\* between two firings of a rule for a task the row was removed, whatever
\* sweeps, clears and restarts come between (scanDueSoon, ClearTaskFires).
FiresOncePerArm == \A p \in Pair : Credit(p) >= (IF Pending(p) THEN 1 ELSE 0)

\* No claimed firing is lost (comment of scanDueSoon).
NoFiringLost == \A p \in Pair : Credit(p) = (IF Pending(p) THEN 1 ELSE 0)

\* While no call is at work on a task, a dedup row silences only the due date
\* it was inserted for: rescheduling re-arms the trigger, as the comment of
\* ClearTaskFires has it.
DedupFollowsDue ==
    (faults = 0 /\ crashes = 0) =>
        \A p \in fires : (\A c \in Caller : call[c].id # p[2]) => dueAt[p] = rows[p[2]].due

\* The same for the tasks on which no two calls ever overlapped, whatever the
\* sweeps do between the steps of Update, and whatever the rules they fire do.
DedupMatchesDue ==
    (faults = 0 /\ crashes = 0) =>
        \A p \in fires :
            (p[2] \notin overlaps /\ \A c \in Caller : call[c].id # p[2])
                => dueAt[p] = rows[p[2]].due

-----------------------------------------------------------------------------
(* Liveness, under FairSpec *)

\* Every service call returns, also the worker's own while its queue is full.
CallsReturn == \A c \in Caller : ~Idle(c) ~> Idle(c)

\* When the users stop, the cascade of events and actions dies out.
EngineQuiesces ==
    (<>[](\A c \in Client : Idle(c))) => <>[](queue = <<>> /\ \A g \in Goroutine : ~Busy(g))

-----------------------------------------------------------------------------
(* Refinement: the engine's queue and worker are the pipe EventPipe specifies, *)
(* although the worker feeds its own queue.                                    *)

Pipe == INSTANCE EventPipe WITH Cap <- QueueCap, None <- NULL,
                                backlog <- queue, current <- job[Worker].ev

PipeSpec == Pipe!Spec
=============================================================================
