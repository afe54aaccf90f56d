# A verification model of the ClickUp clone

The repository is a Go server (REST over PostgreSQL, a websocket hub, in-process
background workers) and a React client. This directory holds TLA+ modules of the
parts where the program can go wrong in ways a unit test hardly reaches, TLC
configurations that model-check them on small instances, and TLAPS proofs that
hold for every value of the constants.

Paths below are relative to the root of the repository.

## 1. Inventory

The server has no transactions around its services: nearly every operation is a
handler that authorises the request, a service that reads a row, edits a private
copy and writes it back, and a handful of side effects after the write. Two
requests on one row, a request and a background goroutine, or a request and a
restart can interleave between any two statements. The rest of the concurrency
is in four goroutines: the automation worker, the due-soon scanner, the
notification worker and the websocket hub.

| Component | State it keeps | Operations | What must be right |
|---|---|---|---|
| Task service (`internal/service/task`, `internal/repository/task`, `.../assignee`) | `tasks`, `task_assignees`; clears `automation_fires` | create, update, reorder (drag on the board), delete, archive, unarchive, assign, unassign; spawns the next occurrence of a recurring task | recurring series keep their shape; completion, dedup rows and due dates agree |
| Automation engine (`internal/automation`) | a queue of 256 events; `automation_fires` | dispatch, worker loop, matching, actions (calls of the task, tag, comment services), due-soon sweep | never blocks a request, handles events in order, fires once, cascades end |
| Automation service | `automations` | create, update, enable, delete | a rule's switch takes effect at the next event |
| Time entries (`internal/service/timeentry`) | `time_entries` | start (stops all others), stop, manual, edit, delete | one running timer per user |
| Dependencies (`internal/service/dependency`) | `task_dependencies` | create (with cycle test), delete, graph | no cycle |
| Sprints (`internal/service/sprint`) | `sprints`, `tasks.sprint_id` | create, update, close (rolls open tasks over), delete | no open task is left in a closed sprint; they go to the first later one |
| Websocket hub (`internal/ws`) | rooms, one buffer of 32 per client | connect, join, leave, publish, disconnect | membership follows the client's last word; no dead client stays in a room; a slow client holds nobody up |
| Notifications (`internal/notify`) | a queue of 256, `notifications` | enqueue (synchronous when full), persist and publish | nothing accepted is lost while the server runs |
| Frontend socket (`frontend/src/lib/ws.ts`) | one socket, rooms wanted | connect, join, leave, reconnect | the rooms wanted are joined again after a reconnect |
| Roles (`internal/authz`, `internal/service/role`) | `roles`, `role_permissions`, `workspace_members.role`, `.role_id` | create, edit, assign, delete, replace the grants; the policy's checks by rank, by name and by permission | the three checks agree on a member's role; a grant set is what one request asked for; system roles stay |
| Membership, workspaces, users (`internal/service/member`, `workspace`, `user`) | `users`, `workspaces`, `workspace_members`, `space_members` | create, invite, change role, remove; accounts made and removed by administrators | a role belongs to the member's workspace |
| MFA, sessions, OIDC (`internal/service/mfa`, `session`, `oidc`) | `mfa_secrets`, `mfa_recovery_codes`, `sessions`, `user_identities` | enrol, verify, challenge, disable, regenerate; issue, revoke, collect; the callback | a recovery code is used once; enrolment and codes agree; codes do not outlive their secret |
| Comments, chat (`internal/service/comment`, `chat`) | `comments`, `comment_reactions`, `channels`, `channel_members`, `messages` | write, reply, react, edit, remove | threads have one level; readers of a channel are told what is stored |
| Hierarchy, forms, attachments (`internal/service/space`, `folder`, `list`, `form`, `attachment`, `internal/storage`) | `spaces`, `folders`, `lists`, `forms`, `form_submissions`, `attachments` and the files | creation under a parent, cascades, archiving, public submission, upload, deletion | the counter agrees with the submissions; a listed attachment has its file |
| Goals, milestones, portfolios | `goals`, `goal_targets`, `milestones`, `milestone_tasks`, `portfolios`, `portfolio_spaces` | rows, links, computed progress | a progress of 1 means every target is reached; deleting a goal takes what requests have put below it |
| Docs, whiteboards, views, dashboards, custom fields, statuses, templates, tags, credentials, saved searches | a table or two each | row edits | what was asked for is stored; versions count the updates |
| Reports, search, workload, gdpr, audit | – | queries, appends | – |
| HTTP layer, middleware, storage, crypto, migrations, configuration; frontend pages | – | input and output | – |

How they interact: handlers call services; services call repositories, publish
to the hub (`hub.Publish` blocks when the hub's channel of 256 is full), enqueue
notifications (which may publish too), and dispatch events to the engine (which
drops when full). The engine calls the task service back
(`cmd/server/main.go:501-529`), so the worker may dispatch into the queue it is
the only one to empty. `PROJECT.json` lists the hazards at the lines where they
bite; the properties below are aimed at that list.

## 2. Plan

In this order, the most important behaviour first:

1. `TaskService`, `AutomationEngine`, `EventPipe` – the life of a task, the
   events it raises and the rules they fire. **Done**, with proofs.
2. `Hub`, `Notifier`, `NoticeBoard`, `WsClient` – rooms, clients, publishers, the notification
   worker, the browser's socket. **Done**, with proofs.
3. `Timers`, `Dependencies`, `Sprints`, `Progress` – services whose check and write are
   separate statements. **Done**, with proofs.
4. `Access` – roles, permissions, members, the policy and the handlers that ask it.
   **Done**, with proofs.
5. `Identity` – accounts, MFA, sessions, OIDC. **Done**, with proofs.
6. `Comments`, `Chat`, `Content`, `Catalog` – threads, channels, the hierarchy with its
   forms and files, and the rows that are edited from copies. **Done**, with proofs.
7. Left: further abstract specifications beside `EventPipe` and `NoticeBoard` (a table
   edited by requests) and their refinement; the composition of `Access` with the services
   whose handlers ask it, so that a request that was allowed and a membership that ends
   meanwhile meet.

The modules of steps 3 to 6 share no row that one writes for another, except through the
deletions each of them includes. Their state would multiply in a product, so `MCPlanning`
and `MCWorkspace` put them side by side and a behaviour is taken up by one of them: two runs
with one instance each.

## 3. The modules

### `TaskService.tla`

State: `rows` (table `tasks`, a key is unborn, a row, or deleted), `assigned`
(`task_assignees`), `fires` (`automation_fires`), `queue` (the engine's channel),
`call` (what each goroutine inside the service still has to do), `faults`
(failed statements so far, a bound).

A call is a short program. A `Begin*` action reads the row (`GetByID`), takes the
branches of the code on that copy, and puts down the steps that follow: `write`,
dispatch of `changed` and `completed`, `spawn` with `inherit` and `announce`,
`clear`, and so on. All later branches of the code test only the copy and what it
was read as, so the steps are fixed at that point; each step is then an action of
its own, interleaved with every other goroutine.

| Action | Code |
|---|---|
| `create`, `update`, `reorder`, … | the handlers, `handler/task`: a request that starts the call below |
| `BeginUpdate`, `Write`, `Emit`, `Spawn`…, `ClearTaskFires` | `Service.Update`, service.go:167-297 |
| `BeginReorder`, `Place`, `Mark`, `Emit`, `Spawn`… | `Service.Reorder`, service.go:308-403. `Place` writes the status columns alone; `Mark` writes the whole copy and its error is ignored. Reorder never clears dedup rows |
| `BeginArchive`/`BeginUnarchive`, `SetArchived` | service.go:436-493 |
| `BeginDelete`, `Delete` | service.go:405-426, with the foreign keys: dedup rows and assignees go, occurrences lose their root (migrations 010, 017, 029) |
| `BeginAssign`, `Assign`, `Reread`, `Emit` | `AddAssignee`: insert first, then read, then dispatch |
| `BeginUnassign`, `Unassign` | `RemoveAssignee` |
| `BeginCreate`, `Insert`, `Enlist`, `Emit` | `Create` |
| `Spawn`, `Inherit`, `Emit` | `maybeSpawnRecurring`, service.go:562-629 |
| `Fail` | a statement that fails: the call returns the error, or goes on where the code ignores it |

`UPDATE ... WHERE id` on a row deleted meanwhile is no error in the code, and the
call goes on as if it had written (`WriteRow`). The foreign key on
`recurring_parent_id` is what makes a late write fail (`RootExists`).

Abstractions: a status row stands for its name too; `rule.After(due)` is *some*
later date (or any date when the task has none), or nothing when the rule has
ended; positions, priorities, names, lists and subtasks are left out. Lookups of
a status cannot fail and statuses do not change.

### `AutomationEngine.tla`

Extends `TaskService` with the engine's two goroutines, which are callers of the
service like the clients. `Take` is the head of the loop of `run` and the query of
`handle`; `NextRule` and `Act` are the two nested loops (rules in the order of
`created_at`, then their actions); an action that changes a task enters the service
with the worker's own call and the loop goes on when it returns; `Finish` closes
the event. Rules are matched against the copy in the event, as in the code.
`Scan` is the single SQL statement of `scanDueSoon` – pairs found, dedup rows
inserted, firings returned – and commits by itself; `Fire` handles one of the
returned firings. `Toggle` is the enabled switch of a rule. `Tick` moves the clock
due dates are compared with. `Crash` is a restart: tables survive, the queue, the
calls in progress and the firings in hand do not.

Three history variables serve properties only: `spare` counts dedup rows removed
minus firings handled, `dueAt` the due date a dedup row was inserted for,
`overlaps` the tasks two calls have worked on at the same time.

Abstractions: conditions are represented by the one on `status_id`; `add_tag`,
`add_comment` and `notify` have no effect the engine can see; the 30 s timeout of an
event is a failing statement; a broken read of the sweep's result is not
modelled (its effect on the firings is that of a crash).

### `EventPipe.tla`

What the queue and worker promise: a lossy FIFO pipe with one consumer. An event
may be lost when it arrives or at a stop, is never duplicated or reordered, and
the next one is not taken before the one being handled is finished.

### `Hub.tla`

State: `members` (`Hub.rooms`), `ops` and `pubs` (the hub's channels of joins and leaves
and of publications), and per connection: how far `ServeWS` is (`serve`), what the two
pumps are doing (`reader`, `writer`), the operation `readPump` is blocked on (`posting`),
`Client.rooms` (`subs`), `Client.send` (`send`) and whether the connection is open; `pub`
is the event each publisher is blocked on. `early` is a history variable.

| Action | Code |
|---|---|
| `Upgrade`, `Name`, `Register`, `Greet` | `ServeWS`, hub.go:144-179: the pumps are started first, then the personal room is entered and joined, then the greeting is queued |
| `Frame`, `Post` | `readPump`, client.go:44-63: the client's own set changes at once, the hub's when the operation has passed the channel |
| `ReadFails`, `Leave`, `ReaderEnds` | the error and the deferred loop, client.go:31-37, in any order of the map's keys |
| `Write`, `Ping` | `writePump`: a write may fail or time out and then closes the connection; a ping on a closed one ends the pump |
| `Lose` | the network, the browser, or no pong for 60 s |
| `HubOp`, `HubPublish` | the two cases of the hub's `select`; a full `send` drops the event for that client |
| `Accept` | `Hub.Publish`, a blocking send |
| `Stop` | the process ends: on a signal, or because `ServeWS` (hub.go:164) and `readPump` (client.go:33, 58, 61) touch the same map at the same time, which the Go runtime answers with a fatal error. The other outcome of that race, a loop that may or may not see the new key, is the second disjunct of `Name` |

### `Notifier.tla`

Extends `Hub` with the dispatcher: `Enqueue` hands a notice to the channel or, when that is
full, inserts it in the caller's goroutine; `Receive`, `Persist`, `PersistFails` are the
worker's loop and `persistAndPublish` (the row first, then a blocking publication);
`Broadcast` is any other service that publishes; `Restart` is a stop of the server. `sent`,
`failed` and `cut` are history variables.

### `NoticeBoard.tla`

What `Notifier` and `Hub` together promise about notices: each goes through its phases once,
gets one row at most and then reaches each screen once at most; screens show what has
reached them in that order and skip none of it. It knows no channels, rooms or goroutines.
`Phase` in `Notifier` reads the phase off the concrete state, `send` is what is on its way to
the screens.

### `WsClient.tla`

The class `WsClient` and the hook `useWsRooms` that mounts and unmounts components' rooms.
`Connect` is `connect()` with the joins that follow it in the same task; `Opened` and
`Closed` are the handlers of any socket, old or new, that the code installs with a
reference to the *current* socket; `Timer` is the reconnection after 1.5 s; `Login`,
`Logout`, `Mount`, `Unmount` are what the user does. Logging out does not reach the client
(`disconnect` has no caller), which keeps its socket and its token. A reload of the page
starts over and is the initial state.

The client's set of rooms does not count how many components want a room. Components that
come and go separately are therefore assumed to want different ones (`ClientAssumption`).
That is so today: two components want the user's room, and the workspace layout shows and
hides both together; the pages that want a list's room replace each other.

### How the modules below are built

The remaining services all follow one pattern: the handler asks the policy, the service
reads a row, makes a private copy, and writes with one statement or a few. In each module
a variable holds the calls in flight (`timing`, `closing`, `request`, `login`, `writing`,
`sending`, `work`, `edit`, `checked`): absent, or what the call has read and which of its
statements is next. The first action of a call does its reads and checks, every later
one is a statement, so that calls interleave exactly between statements. A `Fail*` or
`CutOff` action is a statement that fails or a server that stops: the rest of the call
is not executed. Foreign keys are part of the statement that
deletes (`ON DELETE CASCADE`, `SET NULL`) or that inserts (an insert under a deleted
parent fails). Ids are random in the code; in the models they are new, or numbered as they
appear. A statement that reports failure is taken to have had no effect, and so has the
rest of its call: that the statement was executed although its error says otherwise (the
request was cancelled after the commit) is then the same as a server that stops after it.
One place does something about the error that tells the two apart, the insert of an
attachment, and there both are modelled (see `Content.tla`).

Definitions with a comment "Mutated form" stand before the one they differ from; they are
plausible mistakes, used to see that a property would notice them.

### `Rows.tla`

Tables as functions from ids to rows: `Put` and `Drop`.

### `Timers.tla`

`entry` is `time_entries`, `clock` the server's time. `StartTimer` reads the user's
running entries; `stopAllActive` finalizes and writes them one at a time; `OpenTimer`
inserts the new one. `StopTimer` and `Update` read one row, `WriteEdit` and `stopAllActive`
write it back whole, except for `started_at`, which the statement does not set. History:
`crossed` (users two of whose calls overlapped) and `byHand` (entries logged or edited by
hand). Notes, the billable flag and the reports' filters are left out.

### `Dependencies.tla`

`waitsOn` is `task_dependencies`. `CheckDependency` runs the recursive query
(`WouldCreateCycle`), which gives up at `MaxDepth`; `InsertDependency` is the insert of the
same call. `depRace` says that an insert met another call between the two.

### `Sprints.tla`

`sprint`, and of the tasks `sprint_id` and whether they are completed. `CloseWrite`,
`CloseFindNext`, `CloseMove` are the three statements of `Close`; `EditSprint` and
`WriteSprint` those of `Update`, which may close or reopen a sprint without moving
anything; `UpdateTask` is what the task service does to these columns. `newcomers` are the
sprints made after a closing looked for the next one, and `lateOpen` names the
sprints that rightly hold open tasks although they are closed: somebody put a task there
afterwards, an edit closed the sprint, or the closing failed half way.

### `Progress.tla`

Goals with parents and targets, milestones, portfolios, and the spaces, lists and tasks
progress is computed from. `hydrateTarget`, `TaskCompletion` and `computeGoalProgress` are the
computations. Progress is counted in parts of `Whole`, which stands for the 1.0 of the
code; the assumption `ProgressIsExact` makes every quotient of the instance a whole number of
parts, so that nothing is rounded in the model. In the code the quotients are doubles. A
single quotient of two numbers (none over- or underflowing) is 1 only if they are equal or
one overshoots; a sum of many parts, each rounded, may miss the exact average by a few units of
2^-53, which the model does not show. The pages round what is answered to whole percents
(`frontend/src/features/goals/GoalsPage.tsx`:111-113, 229-231) and show 199 of 200 as 100 %:
the property is about the answer, not about that. An answer reads the targets of a goal
and then each list's tasks, with a statement each; the model takes the rows as of one moment,
and a statement of an answer that fails, which the code counts as zero, is left out.

`GoalUpdate` and `UpdateTarget` read the row and make the new one, `WriteGoal` and
`WriteTarget` write every column back later: `patching` holds the updates in flight. A write
of a row that is gone changes nothing, one whose parent or list is gone is refused.
`MilestoneUpdate` reads too, but takes every column from the request, and is one step. So
are the operations that are one statement. `GoalDelete` takes the goals below it, which may
be a circle; `Cascade` is what goes with a task, a list or a space. History: `asked`, the
parent a request last named for a goal, and `goalRace`, the goals two of whose updates overlapped.

### `Access.tla`

`member` holds both columns that say what a member is, the text and the reference to a
role; `roles` and `grants` are the custom roles, the built-in ones are constants. The
policy's questions (`RequireWorkspaceRole`, `HasPermission`, `RequireSpaceRole`, …) are
operators, with the joins of their SQL. A lower-case action (`createRole`, `removeWS`,
`adminCreate`, …) is the handler: the policy's answer and the call of the service;
an upper-case one the service or a statement. `SetRolePermissions` is the one
transaction: `BeginReplace` is its `DELETE`, with the rows it sees and the transactions
whose locks it waits for, `CommitReplace` the inserts and the commit (PostgreSQL's
READ COMMITTED). An assignment is three steps: `assignToMember` the policy's answer,
`AssignToMember` the look at the role and the comparison of workspaces, `AssignChecked` the
`UPDATE`, which a role deleted meanwhile makes fail. `asked` and `mixed` are history.

### `Identity.tla`

Accounts, their MFA secret and recovery codes, sessions, and the subjects of the OIDC
provider. `LoginWithContext`, `VerifyMFAChallenge`, `ConsumeRecoveryCode` and `mintSession`
are the two legs of a login; `Enroll`, `VerifyEnrollment`, `RegenerateRecoveryCodes` and
`Disable` begin calls whose statements are `DeleteRecoveryCodes`, `MarkEnrolled`,
`InsertRecoveryCodes`, `DeleteSecret`; `Callback`, `FindByEmail`, `CreateForSubject`, `Upsert`
are the OIDC callback once the provider has answered. The ten codes of an enrolment
are one batch of which one stands for any. A token is valid whether its session row
could be stored or not (`Issue`); `DeleteExpired` collects.

### `Comments.tla` and `Chat.tla`

Comments with replies and reactions: each call looks at a comment and writes afterwards,
while comments are removed and their tasks deleted. Channels with members and messages: a
call stores and then publishes what it holds in memory; `told` is what the readers of
the room were told last.

### `Content.tla`

Spaces, folders, lists, forms with submissions, tasks, attachments and the files in the
store. Deletions take along what the foreign keys say. A public submission creates
a task and then inserts the row and counts it with one statement; an upload stores the file
first and inserts the row second, a deletion goes the other way round. `UndoUpload` removes
the file after *any* error of the insert, as the code does: its second disjunct is the insert
whose row is stored all the same, and history `unsure` remembers the upload.

### `Catalog.tla`

Ten kinds of rows that are edited alike, in one table `item`: a call reads the row
(`BeginEdit`), sets the fields the request names (`Patched`), and `Store` writes the columns
its statement lists. Each service has its own operations on top (`DocUpdate` with the
version, `WhiteboardStore`, `ViewUpdate` with its creator, `CredentialUpdate` for the owner only,
`Apply` of a template entry by entry, …). `wanted` is history: what the last request to
name a field asked for.

### `MC*.tla` and the `.cfg` files

Definitions of the constants, and in `MCPlanning` and `MCWorkspace` the modules side by side:
`Init` chooses a `service` and only its steps are taken, together with the steps of others
that take away what it works on. `*Proofs.tla` and `FiniteSums.tla` hold the theorems.

## 4. The runs

| Run | Checks | Instance and why it is enough |
|---|---|---|
| `board` | `CallsReturn`, `EngineQuiesces` under fairness | one task, one client, three rules that chain (completed → assign → change status → changed → change status), queue of **one** so that the worker meets a full queue with its own events, one failing statement |
| `pipe` | `PipeSpec` (refinement) | same rules, drags and assignments, queue of two so that order matters, one fault, one restart |
| `series` | `SeriesFlat` | three keys, two clients: an occurrence can itself spawn, and the first task be deleted, while a second client holds a stale copy |
| `due_soon` | `TypeOK`, `FiresOncePerArm`, `DedupMatchesDue` | one task, two due-soon rules of different lead (one completes the task), every verb, one fault, one restart, one tick. One client suffices for `DedupMatchesDue`, which speaks of tasks on which no two calls overlapped; the scanner's own calls still overlap with the client's and are then excluded by the history, not by the instance |
| `due_crash` (violation) | `NoFiringLost` | as `due_soon`, with a restart |
| `due_overlap` (violation) | `DedupFollowsDue` | as `due_soon`, two clients, no fault, no restart |
| `rooms` | `TypeOK`, `LastWordKept` | one connection, its personal room and another, a channel of two operations (so that order matters), one publication, one restart. Connections share nothing but the channel, whose operations are about one client each; the theorem covers any number of them |
| `realtime` | `NoticesKept`, `ToastsAreStored`, `BoardSpec` (refinement), `PublishReturns`, `PumpsEnd`, `NoticesSettle` | one service and the worker, two notices, one connection in one room, every channel and buffer at one, so that everybody meets everybody's full channel; insertions may fail; no restart, which the theorems about the three safety properties cover |
| `socket` | `SocketTypeOK`, `RoomsFollowScreen`, `Reconnects` | two components, two sign-ins, three sockets (one is always free, so the bound never blocks the client), two pending timers |
| `two_sockets` (violation) | `OneSocket` | as `socket` |
| `planning` | `SingleTimer`, `NoSecondTwice`, `StopIsFinal`, `NoShortCycle`, `ClosedIsEmpty`, `RollsForward`, `CompleteWhenReached`, `DeletionFollowsRequests` | two calls in each service; two entries of one user and three instants; four tasks, so that a cycle may be longer than the search is deep; two sprints over two days with a task and calls that overlap, and three sprints, so that a closing has a choice, with calls that do not; two goals with two updates of them in flight; one goal with two targets, whose numbers include a negative one and one above what is wanted, and one update of a target in flight; one milestone, portfolio, space, list and task. `Whole` is 4: what is divided by is at most 2, twice. About 830,000 distinct states |
| `workspace` | `GrantsOfOneCall`, `ChecksAgree`, `RoleFitsWorkspace`, `CodeUsedOnce`, `LastBatchOnly`, `CodesNeedSecret`, `SubjectKeepsUser`, `OneLevelThreads`, `FrozenOnceDeleted`, `RoomSeesRow`, `SubmissionsCounted`, `RowHasFile`, `FieldsKept`, `VersionCounts` | two calls in each service (of comments, one: replying, editing and removing already overlap with the deletions, which are single statements; the theorem covers any number); two workspaces, two users and one custom role, which may be named like a built-in text; two accounts, secrets, batches and tokens; three comments, so that a reply to a reply exists; two messages, uploads, tasks, lists, submissions; four rows of the catalogue for a template that makes two. About 550,000 distinct states |

In these two runs the calls are interchangeable, and so are timers, sprints, goals and
targets: their sets share the values `i1` and `i2`, and `SYMMETRY` exchanges these everywhere
at once. No property or `Init` tells them apart.

What they show:

- **A full queue cannot block the server** (`CallsReturn`), although the worker's
  actions dispatch into the queue it empties. With a blocking send it would: that
  is the mutant of the run.
- **Cascades die out** (`EngineQuiesces`) for rules that reach a fixed point, because an
  update that changes no status raises no event. Two rules that undo each other, or a
  rule that assigns on assignment (`AddAssignee` dispatches even when the user was
  assigned already), loop for ever; they are legal rules and are kept out of the run.
- **A rule fires at most once per arming** (`FiresOncePerArm`), whatever fails and
  whenever the server restarts.
- **A dedup row silences only the due date it was inserted for** (`DedupMatchesDue`) as
  long as calls on the task do not overlap, even when a sweep falls between an
  update's write and its clearing.
- **Recurring series keep their shape** (`SeriesFlat`) although stale copies are written:
  the foreign key refuses the only ones that would break it.

- **The hub ends up with every client's last word** (`LastWordKept`) however joins, leaves,
  lost connections and publications interleave, thanks to the one channel for both; with
  a channel each it does not (mutant). One case is excepted, and named by `early`: a
  connection that leaves its personal room, or is lost, before `ServeWS` has queued the join
  of that room. The join then comes last, and the dead client stays in the room (its events
  are dropped once its buffer is full, so nobody waits for it, but it is never freed).
- **Nobody waits for ever on the hub** (`PublishReturns`, `PumpsEnd`, `NoticesSettle`) since
  the hub never waits for a client.
- **A notice handed over is stored once or known to have failed** (`NoticesKept`), and is
  **shown only when stored** (`ToastsAreStored`); a stop of the server cuts off what is in the
  channel. It is **shown once at most on each connection, in its turn** (`BoardSpec`): a full
  buffer loses the frame that comes, never one that is in it.
- **The browser's socket in use has joined what is on the screen** (`RoomsFollowScreen`), and the
  client tries again for ever (`Reconnects`), although handlers of old sockets interfere.
- **A user has one running timer** (`SingleTimer`), whose seconds are counted once
  (`NoSecondTwice`) and which stays stopped (`StopIsFinal`), as long as two of the user's
  calls do not overlap, whatever fails in between.
- **No cycle of dependencies within the depth of the search is closed** (`NoShortCycle`)
  unless two creations overlap.
- **A closed sprint keeps no open task** (`ClosedIsEmpty`), and they roll to the first later
  open sprint, and to none only if there is none (`RollsForward`), while tasks are completed,
  reopened, moved and sprints made and deleted. The order of the query is what does it: its mutant
  leaves the order to the database.
- **A progress of 1 means reached** (`CompleteWhenReached`): targets that overshoot, have
  nothing to reach or count an emptied list do not make up for one that is open.
- **Deleting a goal takes what requests have put below it** (`DeletionFollowsRequests`) and nothing
  else, although updates write the parent back from copies: a request that does not name
  a parent writes the old one, and only two overlapping updates of one goal let that undo
  another request.
- **The three ways to check a member agree** (`ChecksAgree`), although text and role are two
  columns written by different statements; **grants are those of one request**
  (`GrantsOfOneCall`) unless two replacements overlap; **a member's role is of the member's
  workspace** (`RoleFitsWorkspace`).
- **A recovery code passes once** (`CodeUsedOnce`), **only the last batch is live**
  (`LastBatchOnly`), **codes do not outlive the secret they stand in for**
  (`CodesNeedSecret`), wherever an enrolment, disabling or regeneration is cut off (these two
  unless MFA calls of the account overlapped), **a subject keeps its account** (`SubjectKeepsUser`).
- **Threads have one level** (`OneLevelThreads`), and **what is removed is frozen**
  (`FrozenOnceDeleted`) but for calls that had looked before.
- **Readers of a channel were told what is stored** (`RoomSeesRow`), unless two calls on a
  message overlapped or the server stopped before it published.
- **A form's counter is the number of its submissions** (`SubmissionsCounted`), and **a listed
  attachment has its file** (`RowHasFile`) unless its insert reported an error it did not have.
- **A field holds what was last asked for** (`FieldsKept`) unless two edits overlapped, and
  **versions count updates** (`VersionCounts`).

Findings (each quotes the line it contradicts in `PROJECT.json`):

- `due_crash`: the sweep's statement commits before its firings are handled; a
  restart in between loses them for good. The comment of `scanDueSoon` says the
  opposite.
- `due_overlap`: with two overlapping updates of one task, the second puts the old due
  date back and clears nothing, so that a dedup row of the other date silences it.
- `two_sockets`: after a second sign-in without a reload, the old socket's close event drops
  the reference to the new socket; 1.5 s later another is opened, and both stay open and
  deliver.

Observations, met while modelling and without a run of their own: either no line of the
repository promises otherwise, or one call read with its comment is enough to see it.

- The comment of `ClearTaskFires` says it is called when the status changes; `Update` calls
  it for due date and completion only, and `Reorder` never. Reopening clears in any case,
  so the trigger is re-armed when it matters.
- Two overlapping completions of one recurring task insert two next occurrences.
- Two overlapping creations of dependencies may close a cycle; so may one that closes a
  cycle longer than the search is deep. Two overlapping starts leave two running timers.
- `timeentry.Update` computes the duration from a `started_at` that the statement does not
  store.
- A second `Close` of a sprint whose closing failed half way finds it closed and moves nothing.
- `VerifyEnrollment` checks a code against the secret it has read and marks the row
  enrolled: if `Enroll` runs in between, the newer secret is marked. When the insertion of
  the codes fails after `MarkEnrolled`, the account is enrolled without codes.
- `Validate` accepts a token whose session row is missing, where the comment of the
  middleware says it is refused; the time of the last collection is read and written
  without synchronisation.
- `adminCreate` leaves the account in place when the membership cannot be added, as its
  comment says.
- An edit of a deleted chat message puts a body back. A reply may name a parent in
  another channel. Adding the creator of a channel as a member is best effort.
- Parents of docs and goals may form a circle. The names of many rows may be blanked by an
  update, though not by a creation.
- `Upload` removes the file after any error of the insert, with the request's own context
  (`internal/service/attachment/service.go`:109-110): a request that is cancelled after
  PostgreSQL has committed leaves a row that lists an attachment without a file. `RowHasFile`
  excepts these uploads by name.
- A login with the right password that looked for an enrolment before there was one gets its
  token after it. Both steps are in `Identity`; nothing in the code claims otherwise.
- The files of a deleted task stay in the store. A submission whose insert fails
  leaves its task.
- `whiteboard.updated` is published with the version before the update.
- Two overlapping edits of one row: the later write sets the fields it did not name back
  to what its call had read.

Bounds: `QueueCap` stands for 256, `MaxFaults` for the number of failing statements,
`MaxCrashes` of restarts, `MaxDue` and `MaxNow` for the calendar, the finite set `Task`
for the keys (when they are used up an `INSERT` fails). Deadlock checking is off in
every run: a system whose users stop, and whose bounded clock and keys are used up,
rightly stops. `OpsCap`, `PublishCap`, `SendCap`, `InCap` stand for the capacities 256, 256, 32 and
256; `MaxStops`, `MaxLogins` and `MaxTimers` bound restarts, sign-ins and pending timers.
`MaxDepth` stands for the depth of 100 at which the search for a cycle gives up: the
property is about cycles of at most `MaxDepth + 1` tasks, and four tasks leave room for longer
ones. `MaxTime`, `LastDay`, `MaxUpdates` and `MaxSubmissions` bound clocks and counters;
`Touched`, `Edited`, `Enrolling`, `Single` and `Double` say which ids or accounts are worked
on at all, so that the interesting ones can be combined without the rest.

## 5. Fairness

`FairSpec` assumes weak fairness of the steps of each call in progress and of the
loops of the worker and the scanner: goroutines are scheduled by the Go runtime and
every statement returns, with an error if need be (the engine's contexts time out after
30 s). No fairness is assumed of requests, failures, switches, the clock or restarts.

`HubFairness` assumes strong fairness where several compete: the two cases of the hub's
`select` (Go chooses among the ready ones at random) and the goroutines blocked on one of
its channels (Go queues blocked senders first come, first served). The steps of one
goroutine, and the ping of a connection that is no longer open (the ticker and the write
deadline), get weak fairness. Browsers need never connect, send, leave or read.
The client's `FairSpec` assumes that timers run and that a socket whose `close()` was called
gets its close event; the network may refuse every attempt, hence `Reconnects` asks for
attempts and not for success.
`planning` and `workspace` check safety only and assume no fairness: their calls may stop
anywhere, which is what a cancelled request or a stopped server does.

## 6. Proofs

Every safety invariant, action property and refinement that a run checks is also a theorem,
for arbitrary constants that satisfy the named assumptions: any number of tasks, users,
clients, rules and calls, any capacity of queues and buffers, any bound on failures,
restarts and dates. The assumptions (`TaskServiceAssumption`, `EngineAssumption`,
`HubAssumption`, `NotifierAssumption`, `ClientAssumption`, `TimerConstants`, `TimerMarkers`,
`SprintConstants`, `SprintMarkers`, `DependencyConstants`, `ProgressConstants`, `ProgressIsExact`,
`ProgressMarker`, `IdentityMarker`, `CommentConstants`, `ChatConstants`, `ContentConstants`) stand in
the modules that declare the constants. They say that bounds are numbers, that sets which are
counted are finite, and that the markers for "no row" are no rows; two have content:
`ClientAssumption` (see `WsClient.tla` above), and `ProgressIsExact`, which says that `Whole` is a
multiple of all that is divided by (for any finite set of numbers there is such a `Whole`).

`FiniteSums.tla` (lemmas about numbers and sums)

- The library's induction principles are about an operator and cannot be used here.
  `LeastNumber` and `UpTo` state induction of *sets* of numbers instead: a set with 0, and with
  `n + 1` for each `n < N` it has, has `0..N`. That suffices for recursive functions
  over `0..N` (that their definition has a solution, and what holds of every value) and, with
  cardinalities as the numbers, for sums over finite sets.
- `SumExists`, `SumsAgree`, `SumAdd`, `SumParts`: the recursion has a solution, and the sum is
  the same whichever element is taken out first, so that one may be added or removed anywhere.

`TaskServiceProofs.tla` (lemmas about one step of `TaskNext`)

- `TaskInv` = `TaskTypeOK` and `CallsOK`. Types alone are not inductive: that `inherit` and
  `announce` have an inserted task to speak of depends on the *order* of the steps left.
  `CallsOK` says that each remaining step has what it needs or a step before it will
  provide it, and that `spawn` is directly followed by the two steps a failed spawn skips.
- `SeriesInv` = `SeriesFlat` and `CopyOK` of every call. `SeriesFlat` is not inductive
  since calls write old copies. `CopyOK`: the root in a copy is the row's root if that
  task still exists; a root disappears only by deletion, and a copy that still names
  it is refused by the foreign key.

`AutomationEngineProofs.tla`

- `FiresOncePerArmHolds`: `Spec => []FiresOncePerArm`, by `ArmInv`: credits are never
  negative, a claimed firing has a credit, and the hand holds one firing per pair.
- `TypeOKHolds`, `SeriesFlatHolds`: from `EngineInv`, which adds to the two invariants above
  the types of the engine's state and that a busy goroutine has an event.
- `ImplementsEventPipe`: `Spec => PipeSpec`; each dispatch is `Accept` or a stutter,
  `Take` is `Start`, the worker's `Finish` is `Done`, `Crash` is `Stop`.
- `DedupMatchesDueHolds`, by `DueInv`. While a call on a task is in flight the dedup rows may
  well be of another date; `CallDue` relates them to the steps the call has left: a copy
  with another date is never to be written without a clear after it, and a dedup row
  of another date is there only once the write is done and the clear is not. The write
  is the first step if it is there at all, so a sweep that comes in between claims what
  the clear will take away. `RunDue` is the one lemma about a step of a call; the others say
  which steps it does, skips or gives up.

`NotifierProofs.tla`, for any number of connections, rooms, publishers and notices and any
capacities:

- `TypeOKHolds`: types, and the bounds of every channel and buffer.
- `LastWordKeptHolds`, by `Joined`: the operation in `readPump`'s hands is the client's own and
  keeps it from leaving; a connection that is not early has not touched its personal room
  before the join, and has it in its set when it joins. `SettledAppend` and
  `SettledTail` say what the last operation about a client and a room becomes when
  one is queued or worked off.
- `ToastsAreStoredHolds` and `NoticesKeptHolds`, inductive with the types.
- `ImplementsNoticeBoard`: `Spec => BoardSpec`, by `BoardInv`. A notice's phase is read off four
  sets, and each lemma `Waits…` and `Trail…` says what an action does to two of them; `TrailKept`
  says that a notice on its way has its row and is in one place, else the fan-out
  of one copy would not be the end of it. `Enqueue` is `HandOver`, `Persist` `Keep`, `PersistFails`
  `GiveUp`, `HubPublish` `Tell` or `Other`, `Greet` `Other`, `Write` `Show`, `Restart` `Stop`; the rest stutters.

`WsClientProofs.tla`: `SocketTypeOKHolds` and `RoomsFollowScreenHolds`, by `RoomsInv`: the client's set is what the
screen wants, the socket in use has asked for it when it is open and for nothing before
that, and a timer is pending only when there is a token to connect with.

`PlanningProofs.tla`, for any number of users, entries, sprints, tasks, goals and calls:

- `SingleTimerHolds` and `StopIsFinalHolds`, by `TimerInv`. `SingleTimer` is not inductive
  since a call inserts long after its reads. `TimersAlone`: a user without overlaps has one
  call; `CopiesOwned`: a call's copies are its own user's rows; `CopiesFresh`: undisturbed, a
  start still holds all that runs, and an edit holds nothing as running that was stopped.
- `ClosedIsEmptyHolds` and `RollsForwardHolds`, by `SprintInv`: `StepFits` says what each of the
  statements left of a call may rely on when no other call is about (the row is the closed
  one or gone, the target is open, starts late enough, and no candidate starts before
  it), and the foreign key keeps `sprint_id` within the existing sprints.
- `NoSecondTwiceHolds`, by `SecondsInv`, on top of `TimerInv`. That a report is at most the time
  that has passed is not inductive: `CountedBefore` says that all that is counted was over
  when the running timer was started, so that its seconds come on top, and
  `CopiesRunning` that what a call is about to finalize is still running. `FiniteSums` says what
  one more, or one changed, entry adds to a report.
- `NoShortCycleHolds`, by `DepInv`: while no insertion met another call, an edge that was checked and
  not yet inserted still leads nowhere back. `Ball(G, t)[n]` are the tasks at most `n` edges
  away from `t`, and `WithinIsAcross` what the search computes in terms of it; `EdgeAdded` says
  that what a new edge adds to a ball is reached through that edge, and `HarmlessEdge` that a
  cycle through it would have been found by the search.
- `SearchFindsPaths`: the search, a recursive function, against a reference definition: it
  finds the task itself and the ends of the paths (`Walks`) of at most `MaxDepth` edges.
  `NoClosedWalk` states `NoShortCycle` in those terms.
- `DeletionFollowsRequestsHolds`: by `ProgressInv`, types with `AskedFits`: the parent of a goal whose updates
  never overlapped is the one last asked for, and an update of it that names none has read the one
  it will write. The cascade is a recursive function; `BelowClosed` says that it has stopped
  growing when it ends, by the number of goals, `CascadeIsLeast` that it takes the least
  set closed under "hangs on", and no goal besides, and `BelowHangs` that each goal it takes but
  the first hangs on another.
- `CompleteWhenReachedHolds` needs no more than the types: `TargetShows` (a clamped quotient is
  `Whole` exactly when the target is reached) and `SumIsFull` (an average of numbers up to `Whole`
  is `Whole` only if all are).

`AccountProofs.tla`, for any number of accounts, calls, secrets, batches and subjects:

- `CodeUsedOnceHolds`, `LastBatchOnlyHolds`, `CodesNeedSecretHolds` by `IdentityInv`. `CodeFits`: a
  code that passed is not live; `CodesFit`: an account without a secret has no live code, and a
  call that is about to insert some knows of a secret or has lost the account too; `SecretFits`: an enrolment that has still to hand out its secret
  holds it for its account alone; `OneAtATime`: of an account whose MFA calls do not
  overlap, at most one is in flight, and there is no live code where one is about to be
  inserted or a shown secret is about to be verified.
- `SubjectKeepsUserHolds`: the insertion of a link leaves one that is there.

- `RoleFitsWorkspaceHolds`, `GrantsOfOneCallHolds`, `ChecksAgreeHolds`, by `AccessInv`. `CopyFits`: a role's
  copy that is to be written is of the row's workspace; `LookFits`: a role that was looked at
  to be assigned is of the member's workspace for as long as it exists; `AloneFits`: a replacement of grants that
  met no other has seen all grants there are, so that its delete leaves none. That
  the policy's three queries agree then follows from where a member's role may point.

`WorkspaceProofs.tla`, for any number of rows and calls:

- `OneLevelThreadsHolds` and `FrozenOnceDeletedHolds`, by `CommentInv`, whose
  `WriteFits` says what a call that is about to write knows of the comment it looked at, for as
  long as that exists.
- `RoomSeesRowHolds`, by `ChatInv`: `MessageFits` says, of a message whose readers are followed, that
  one call at most works on it, that its copy is the row but for what it is about to
  change, and that the room knows the row whenever no call does.
- `RowHasFileHolds`, by `FileInv`: `JobFits` says that an upload has its file and
  key to itself until its row is stored, and that who is to remove a file has seen to it that
  there is no row, or one that is `unsure`.
- `SubmissionsCountedHolds`, by `SubmissionInv`: submissions refer to forms that exist, and go with
  them. The counter is a column editors do not write, and cardinalities follow one insertion.
- `FieldsKeptHolds` and `VersionCountsHolds`, by `CatalogInv`: `EditFits` says of a call that is about to
  store, of a row nobody has stored since it read, that its copy is the row but for the
  fields its request named. Without it a stored copy could undo another request.

Only model-checked: `CallsReturn`, `EngineQuiesces`, `PublishReturns`, `PumpsEnd`, `NoticesSettle`
and `Reconnects`: liveness under fairness is beyond the prover. The three violated properties are
refuted by TLC.

## 7. Not modelled

- The update of a list (`internal/service/list/service.go`:46): no route and no service calls it.
- Of goals, milestones and portfolios: names, dates, colours and owners, and with them
  `portfolio.Update`, which writes nothing else.
- In `AutomationEngine`, the errors of the three look-ups before the first rule
  (`internal/automation/engine.go`:135-149, 444): each drops the event or the firing, which a
  full queue or a restart do as well. In `WsClient`, the test of `readyState`
  (`frontend/src/lib/ws.ts`:46): a socket counts as in use until its close event.
- Of tasks: subtasks and their cascade, positions, and the columns no property tells
  apart; `RecordRun` of the engine.
- Audit entries, and the publications and notifications of each service (their path through
  dispatcher and hub is modelled with arbitrary callers; of chat, what is published is).
- Operations that write one column nothing else reads: renaming spaces and folders, the time
  a channel was last read, the last use of a saved search or a session, marking
  notifications read, profile edits.
- Queries: lists, reports, search, workload, velocity and burndown, and the export for a user,
  which reads the tables one after the other without a transaction.
- Encryption of credentials and secrets, hashing, the clock window of a time code, the
  exchange with the OIDC provider (its state and nonce): external, or a condition that holds or not.
- The authorisation of each request is modelled with roles and members (`Access`), not
  again in the services whose handlers ask it: a refusal changes nothing, and who was
  allowed may do it.
- The HTTP layer, the wiring in `cmd/server/main.go`, configuration, migrations (their foreign
  keys and indexes are in the actions), the seed script, and the pages of the frontend: input
  and output around the rest.
