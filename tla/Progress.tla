------------------------------ MODULE Progress ------------------------------
(***************************************************************************)
(* Goals with their targets, milestones and portfolios, and the tasks they *)
(* are computed from: service/goal, service/milestone, service/portfolio   *)
(* with their handlers and repositories. An update of a goal or a target   *)
(* reads the row and writes all of it back; every other operation is one   *)
(* statement, and the foreign keys say what a deletion takes along. Names, *)
(* dates and owners are left out.                                          *)
(***************************************************************************)
EXTENDS Integers, FiniteSets, FiniteSetsExt

CONSTANTS Goals, Targets, Milestones, Portfolios, Spaces, Lists, Tasks, Numbers,
          ProgressCalls,
          Whole,    \* progress is counted in parts of Whole, which stands for 1.0
          NIL

\* What is divided by: the numbers and the counts of tasks, and then the count of targets.
Divisors == {n \in Numbers : n > 0} \cup 1..Cardinality(Tasks) \cup {1}

ASSUME ProgressConstants ==
    /\ IsFiniteSet(Goals) /\ IsFiniteSet(Targets) /\ IsFiniteSet(Tasks)
    /\ Numbers \subseteq Int
    /\ NIL \notin Lists \cup Goals \cup Numbers

\* No division leaves a remainder: a number of parts is the exact quotient.
ASSUME ProgressIsExact ==
    /\ Whole \in Nat \ {0}
    /\ \A n \in Divisors, k \in 1..Cardinality(Targets) : Whole % (n * k) = 0

VARIABLES
    spaces,     \* the spaces that exist
    lists,      \* the lists that exist, each with its space
    tasks,      \* the top-level tasks that exist: list, done, archived
    goal,       \* table goals
    target,     \* table goal_targets
    milestone,  \* the status of each milestone that exists
    attached,   \* milestone_tasks of each milestone
    spacesOf,   \* portfolio_spaces of each portfolio that exists
    patching,   \* the updates in flight: NIL or the row each will write
    asked,      \* history: the parent each goal was last given by a request
    goalRace    \* history: goals two of whose updates overlapped

progressVars == <<spaces, lists, tasks, goal, target, milestone, attached, spacesOf,
                  patching, asked, goalRace>>
taskRows == <<spaces, lists, tasks>>
goalRows == <<goal, asked, goalRace>>
planRows == <<milestone, attached, spacesOf>>

GoalRow == [parent: Goals \cup {NIL}, archived: BOOLEAN]
\* The columns that a kind does not use keep their defaults.
TargetRow ==
    [goal: Goals, kind: {"number"}, want: Numbers \cup {NIL}, have: Numbers,
     yes: {FALSE}, list: {NIL}]
    \cup [goal: Goals, kind: {"boolean"}, want: {NIL}, have: {0}, yes: BOOLEAN, list: {NIL}]
    \cup [goal: Goals, kind: {"task_completed"}, want: {NIL}, have: {0}, yes: {FALSE},
          list: Lists \cup {NIL}]
TaskRow == [list: Lists, done: BOOLEAN, archived: BOOLEAN]
MilestoneStatuses == {"planned", "in_progress", "shipped", "cancelled"}

\* An update in flight; for a goal also whether the request names a parent.
GoalPatch == [on: {"goal"}, id: Goals, row: GoalRow, named: BOOLEAN]
TargetPatch == [on: {"target"}, id: Targets, row: TargetRow]

ASSUME ProgressMarker == NIL \notin GoalPatch \cup TargetPatch

\* Rows are partial functions: the domain is the set of ids that exist.
Without(f, ids) == [x \in DOMAIN f \ ids |-> f[x]]
With(f, x, row) == [y \in DOMAIN f \cup {x} |-> IF y = x THEN row ELSE f[y]]

ProgressTypeOK ==
    /\ spaces \in SUBSET Spaces
    /\ DOMAIN lists \subseteq Lists /\ lists \in [DOMAIN lists -> Spaces]
    /\ DOMAIN tasks \subseteq Tasks /\ tasks \in [DOMAIN tasks -> TaskRow]
    /\ DOMAIN goal \subseteq Goals /\ goal \in [DOMAIN goal -> GoalRow]
    /\ DOMAIN target \subseteq Targets /\ target \in [DOMAIN target -> TargetRow]
    /\ DOMAIN milestone \subseteq Milestones /\ milestone \in [DOMAIN milestone -> MilestoneStatuses]
    /\ attached \in [Milestones -> SUBSET Tasks]
    /\ DOMAIN spacesOf \subseteq Portfolios /\ spacesOf \in [DOMAIN spacesOf -> SUBSET Spaces]
    /\ patching \in [ProgressCalls -> GoalPatch \cup TargetPatch \cup {NIL}]
    /\ asked \in [Goals -> Goals \cup {NIL}]
    /\ goalRace \in SUBSET Goals

ProgressInit ==
    /\ spaces = Spaces /\ lists \in [Lists -> Spaces]
    /\ tasks = <<>> /\ goal = <<>> /\ target = <<>> /\ milestone = <<>>
    /\ attached = [m \in Milestones |-> {}] /\ spacesOf = <<>>
    /\ patching = [c \in ProgressCalls |-> NIL]
    /\ asked = [g \in Goals |-> NIL] /\ goalRace = {}

-----------------------------------------------------------------------------
(* What the service answers, 0..Whole for the 0..1 of the code. The rows   *)
(* of the targets and the tasks of a list are taken as of one moment.      *)

clamp01(p) == IF p < 0 THEN 0 ELSE IF p > Whole THEN Whole ELSE p

\* Archived tasks are left out of both numbers, and so are subtasks.
CountedIn(l) == {t \in DOMAIN tasks : tasks[t].list = l /\ ~tasks[t].archived}
TaskCompletion(l) ==
    [done |-> Cardinality({t \in CountedIn(l) : tasks[t].done}),
     total |-> Cardinality(CountedIn(l))]

\* Mutated form: an overshot target is not cut off.
hydrateTargetOvershot(x) ==
    LET row == target[x]
    IN  IF row.kind = "number" /\ row.want # NIL /\ row.want > 0
        THEN (Whole * row.have) \div row.want ELSE IF row.yes THEN Whole ELSE 0

\* A target without a positive number, or whose list is gone or empty, is at zero.
hydrateTarget(x) ==
    LET row == target[x]
    IN  CASE row.kind = "number" ->
               IF row.want # NIL /\ row.want > 0
               THEN clamp01((Whole * row.have) \div row.want) ELSE 0
          [] row.kind = "boolean" -> IF row.yes THEN Whole ELSE 0
          [] row.kind = "task_completed" ->
               LET n == IF row.list = NIL THEN [done |-> 0, total |-> 0]
                        ELSE TaskCompletion(row.list)
               IN  IF n.total > 0 THEN clamp01((Whole * n.done) \div n.total) ELSE 0

TargetsOf(g) == {x \in DOMAIN target : target[x].goal = g}

computeGoalProgress(g) ==
    IF TargetsOf(g) = {} THEN 0
    ELSE clamp01(MapThenSumSet(hydrateTarget, TargetsOf(g)) \div Cardinality(TargetsOf(g)))

-----------------------------------------------------------------------------
(* Goals. No operation asks whether a parent closes a circle.              *)

Patching(c, on) == patching[c] # NIL /\ patching[c].on = on
Return(c) == patching' = [patching EXCEPT ![c] = NIL]

\* Ids are random: a new one is in no copy that somebody holds.
GoalCreate(g, parent) ==
    /\ g \notin DOMAIN goal
    /\ \A c \in ProgressCalls :
         Patching(c, "goal") => patching[c].id # g /\ patching[c].row.parent # g
    /\ parent \in DOMAIN goal \cup {NIL}
    /\ goal' = With(goal, g, [parent |-> parent, archived |-> FALSE])
    /\ asked' = [asked EXCEPT ![g] = parent]
    /\ UNCHANGED <<taskRows, goalRace, target, planRows, patching>>

\* A request names a parent or none, and may archive the goal or bring it back.
GoalRequest == [parent: Goals \cup {NIL}, archived: {"keep", "set", "clear"}]
GoalArchived(row, in) == IF in.archived = "keep" THEN row.archived ELSE in.archived = "set"

\* Mutated form: the parent is set to what the request has, as milestones do with owners.
GoalPatchedOver(row, in) ==
    [parent |-> in.parent, archived |-> GoalArchived(row, in)]

\* A request without a parent leaves the one there is.
GoalPatched(row, in) ==
    [parent |-> IF in.parent = NIL THEN row.parent ELSE in.parent, archived |-> GoalArchived(row, in)]

\* First statement of Update: the row is read and the new one made from it.
GoalUpdate(c, g, in) ==
    /\ g \in DOMAIN goal /\ patching[c] = NIL
    /\ patching' = [patching EXCEPT ![c] =
         [on |-> "goal", id |-> g, row |-> GoalPatched(goal[g], in), named |-> in.parent # NIL]]
    /\ goalRace' = IF \E d \in ProgressCalls : Patching(d, "goal") /\ patching[d].id = g
                   THEN goalRace \cup {g} ELSE goalRace
    /\ UNCHANGED <<taskRows, goal, asked, target, planRows>>

\* Its second: nothing if the goal is gone, refused if the parent is.
WriteGoal(c) ==
    LET p == patching[c] IN
    /\ Patching(c, "goal")
    /\ \/ /\ p.id \in DOMAIN goal /\ p.row.parent \in DOMAIN goal \cup {NIL}
          /\ goal' = [goal EXCEPT ![p.id] = p.row]
          /\ asked' = IF p.named THEN [asked EXCEPT ![p.id] = p.row.parent] ELSE asked
       \/ p.id \notin DOMAIN goal /\ UNCHANGED <<goal, asked>>
    /\ Return(c)
    /\ UNCHANGED <<taskRows, goalRace, target, planRows>>

\* The goals a deletion takes along: all that hang below, circles included.
Below(g) ==
    LET down[n \in 0..Cardinality(Goals)] ==
          IF n = 0 THEN {g}
          ELSE down[n - 1] \cup {h \in DOMAIN goal : goal[h].parent \in down[n - 1]}
    IN  down[Cardinality(Goals)]

GoalDelete(g) ==
    /\ g \in DOMAIN goal
    /\ goal' = Without(goal, Below(g))
    /\ asked' = [h \in Goals |-> IF h \in Below(g) THEN NIL ELSE asked[h]]
    /\ goalRace' = goalRace \ Below(g)
    /\ target' = Without(target, UNION {TargetsOf(h) : h \in Below(g)})
    /\ UNCHANGED <<taskRows, planRows, patching>>

\* A target over tasks needs a list.
AddTarget(x, row) ==
    /\ x \notin DOMAIN target
    /\ \A c \in ProgressCalls : Patching(c, "target") => patching[c].id # x
    /\ row.goal \in DOMAIN goal
    /\ row.list \in DOMAIN lists \cup {NIL}
    /\ row.kind = "task_completed" => row.list # NIL
    /\ ~row.yes
    /\ target' = With(target, x, row)
    /\ UNCHANGED <<taskRows, goalRows, planRows, patching>>

\* The kind and the goal of a target stay; a target over tasks may change lists. What
\* the request does not name is as read.
UpdateTarget(c, x, row) ==
    /\ x \in DOMAIN target /\ patching[c] = NIL
    /\ row.goal = target[x].goal /\ row.kind = target[x].kind
    /\ row.want = NIL => target[x].want = NIL
    /\ row.list = NIL => target[x].list = NIL
    /\ patching' = [patching EXCEPT ![c] = [on |-> "target", id |-> x, row |-> row]]
    /\ UNCHANGED <<taskRows, goalRows, target, planRows>>

\* Refused if the list is gone.
WriteTarget(c) ==
    LET p == patching[c] IN
    /\ Patching(c, "target")
    /\ \/ /\ p.id \in DOMAIN target /\ p.row.list \in DOMAIN lists \cup {NIL}
          /\ target' = [target EXCEPT ![p.id] = p.row]
       \/ p.id \notin DOMAIN target /\ UNCHANGED target
    /\ Return(c)
    /\ UNCHANGED <<taskRows, goalRows, planRows>>

\* The second statement fails or is not reached.
FailPatch(c) ==
    /\ patching[c] # NIL /\ Return(c)
    /\ UNCHANGED <<taskRows, goalRows, target, planRows>>

DeleteTarget(x) ==
    /\ x \in DOMAIN target
    /\ target' = Without(target, {x})
    /\ UNCHANGED <<taskRows, goalRows, planRows, patching>>

-----------------------------------------------------------------------------
(* Milestones and portfolios.                                              *)

goalSide == <<taskRows, goalRows, target, patching>>

MilestoneCreate(m) ==
    /\ m \notin DOMAIN milestone
    /\ milestone' = With(milestone, m, "planned")
    /\ UNCHANGED <<goalSide, attached, spacesOf>>

\* The row is read first, but every column of it is the request's.
MilestoneUpdate(m, status) ==
    /\ m \in DOMAIN milestone
    /\ milestone' = [milestone EXCEPT ![m] = status]
    /\ UNCHANGED <<goalSide, attached, spacesOf>>

MilestoneDelete(m) ==
    /\ milestone' = Without(milestone, {m})
    /\ attached' = [attached EXCEPT ![m] = {}]
    /\ UNCHANGED <<goalSide, spacesOf>>

\* Both ends must exist; a second attachment changes nothing.
AttachTask(m, t) ==
    /\ m \in DOMAIN milestone /\ t \in DOMAIN tasks
    /\ attached' = [attached EXCEPT ![m] = @ \cup {t}]
    /\ UNCHANGED <<goalSide, milestone, spacesOf>>

DetachTask(m, t) ==
    /\ attached' = [attached EXCEPT ![m] = @ \ {t}]
    /\ UNCHANGED <<goalSide, milestone, spacesOf>>

PortfolioCreate(p) ==
    /\ p \notin DOMAIN spacesOf
    /\ spacesOf' = With(spacesOf, p, {})
    /\ UNCHANGED <<goalSide, milestone, attached>>

PortfolioDelete(p) ==
    /\ spacesOf' = Without(spacesOf, {p})
    /\ UNCHANGED <<goalSide, milestone, attached>>

AttachSpace(p, s) ==
    /\ p \in DOMAIN spacesOf /\ s \in spaces
    /\ spacesOf' = [spacesOf EXCEPT ![p] = @ \cup {s}]
    /\ UNCHANGED <<goalSide, milestone, attached>>

DetachSpace(p, s) ==
    /\ p \in DOMAIN spacesOf
    /\ spacesOf' = [spacesOf EXCEPT ![p] = @ \ {s}]
    /\ UNCHANGED <<goalSide, milestone, attached>>

-----------------------------------------------------------------------------
(* What other services do to the rows these are computed from.             *)

besideTasks == <<goalRows, milestone, patching>>

AddTask(t, l) ==
    /\ t \notin DOMAIN tasks
    /\ l \in DOMAIN lists
    /\ tasks' = With(tasks, t, [list |-> l, done |-> FALSE, archived |-> FALSE])
    /\ UNCHANGED <<besideTasks, spaces, lists, target, attached, spacesOf>>

ChangeTask(t, row) ==
    /\ t \in DOMAIN tasks
    /\ row.list \in DOMAIN lists
    /\ tasks' = [tasks EXCEPT ![t] = row]
    /\ UNCHANGED <<besideTasks, spaces, lists, target, attached, spacesOf>>

\* The rows that hang on tasks and lists which go: links go too, and a target that
\* counted a list keeps none.
Cascade(goneTasks, goneLists) ==
    /\ tasks' = Without(tasks, goneTasks) /\ lists' = Without(lists, goneLists)
    /\ attached' = [m \in Milestones |-> attached[m] \ goneTasks]
    /\ target' = [x \in DOMAIN target |->
         IF target[x].list \in goneLists THEN [target[x] EXCEPT !.list = NIL] ELSE target[x]]
    /\ UNCHANGED besideTasks

TaskDeleted(t) ==
    /\ t \in DOMAIN tasks
    /\ Cascade({t}, {})
    /\ UNCHANGED <<spaces, spacesOf>>

TasksIn(ls) == {t \in DOMAIN tasks : tasks[t].list \in ls}

DropList(l) ==
    /\ l \in DOMAIN lists
    /\ Cascade(TasksIn({l}), {l})
    /\ UNCHANGED <<spaces, spacesOf>>

DropSpace(s) ==
    LET ls == {l \in DOMAIN lists : lists[l] = s} IN
    /\ s \in spaces
    /\ spaces' = spaces \ {s}
    /\ spacesOf' = [p \in DOMAIN spacesOf |-> spacesOf[p] \ {s}]
    /\ Cascade(TasksIn(ls), ls)

-----------------------------------------------------------------------------
(* The handlers.                                                           *)

PostGoal == \E g \in Goals, p \in Goals \cup {NIL} : GoalCreate(g, p)
PatchGoal == \E c \in ProgressCalls, g \in Goals, in \in GoalRequest : GoalUpdate(c, g, in)
DeleteGoal == \E g \in Goals : GoalDelete(g)
PostTarget == \E x \in Targets, row \in TargetRow : AddTarget(x, row)
PatchTarget == \E c \in ProgressCalls, x \in Targets, row \in TargetRow : UpdateTarget(c, x, row)
DeleteTargetById == \E x \in Targets : DeleteTarget(x)

PostMilestone == \E m \in Milestones : MilestoneCreate(m)
PatchMilestone == \E m \in Milestones, st \in MilestoneStatuses : MilestoneUpdate(m, st)
DeleteMilestone == \E m \in DOMAIN milestone : MilestoneDelete(m)
AttachToMilestone == \E m \in Milestones, t \in Tasks : AttachTask(m, t)
DetachFromMilestone == \E m \in Milestones, t \in Tasks : DetachTask(m, t)

PostPortfolio == \E p \in Portfolios : PortfolioCreate(p)
DeletePortfolio == \E p \in DOMAIN spacesOf : PortfolioDelete(p)
AttachToPortfolio == \E p \in Portfolios, s \in Spaces : AttachSpace(p, s)
DetachFromPortfolio == \E p \in Portfolios, s \in Spaces : DetachSpace(p, s)

TasksNext ==
    \/ \E t \in Tasks, l \in Lists : AddTask(t, l)
    \/ \E t \in Tasks, row \in TaskRow : ChangeTask(t, row)
    \/ \E t \in Tasks : TaskDeleted(t)
    \/ \E l \in Lists : DropList(l)
    \/ \E s \in Spaces : DropSpace(s)

GoalNext ==
    \/ PostGoal \/ PatchGoal \/ DeleteGoal
    \/ \E c \in ProgressCalls : WriteGoal(c) \/ FailPatch(c)

TargetNext ==
    \/ PostTarget \/ PatchTarget \/ DeleteTargetById
    \/ \E c \in ProgressCalls : WriteTarget(c)

MilestoneNext ==
    \/ PostMilestone \/ PatchMilestone \/ DeleteMilestone
    \/ AttachToMilestone \/ DetachFromMilestone

PortfolioNext ==
    \/ PostPortfolio \/ DeletePortfolio \/ AttachToPortfolio \/ DetachFromPortfolio

ProgressNext == TasksNext \/ GoalNext \/ TargetNext \/ MilestoneNext \/ PortfolioNext

ProgressSpec == ProgressInit /\ [][ProgressNext]_progressVars

-----------------------------------------------------------------------------
\* What a target is for, said without a quotient.
Reached(x) ==
    LET row == target[x]
    IN  \/ row.kind = "number" /\ row.want # NIL /\ row.want > 0 /\ row.have >= row.want
        \/ row.kind = "boolean" /\ row.yes
        \/ /\ row.kind = "task_completed"
           /\ CountedIn(row.list) # {}
           /\ \A t \in CountedIn(row.list) : tasks[t].done

\* The progress the service answers for a goal is 1 exactly when it has targets and
\* every one is reached, whatever stale row was written and whatever was deleted: no
\* overshot, negative or emptied target makes up for one that is not. This is about the
\* quotient the code computes, taken as exact, and not about the percentage the pages
\* make of it, which they round to the nearest.
CompleteWhenReached ==
    \A g \in DOMAIN goal :
        computeGoalProgress(g) = Whole
          <=> TargetsOf(g) # {} /\ \A x \in TargetsOf(g) : Reached(x)

\* The deletion of a goal takes along what requests have put below it, and nothing else:
\* goals are written back whole, from copies read before others moved or deleted them, and
\* still the stored parents that the cascade follows are those last asked for. Only goals
\* two of whose updates overlapped are excepted.
DeletionFollowsRequests ==
    [][LET gone == DOMAIN goal \ DOMAIN goal'
       IN  /\ \A h \in (DOMAIN goal \ gone) \ goalRace : asked[h] \notin gone
           /\ gone # {} =>
                \E g \in gone : \A h \in gone \ (goalRace \cup {g}) : asked[h] \in gone
      ]_progressVars

=============================================================================
