----------------------- MODULE AutomationEngineProofs -----------------------
(* Proofs about the rule engine and the task service it drives.             *)
EXTENDS AutomationEngine, TaskServiceProofs

-----------------------------------------------------------------------------
(* The due-soon trigger fires at most once per dedup row *)

\* What the argument needs to know of the types.
FiringTypes ==
    /\ fires \subseteq Pair
    /\ \A f \in hand : f.auto \in Automation /\ f.id \in Task
    /\ spare \in [Pair -> Int]

\* A sweep holds at most one firing of a pair.
OneFiringPerPair == \A f, g \in hand : (f.auto = g.auto /\ f.id = g.id) => f = g

ArmInv == FiringTypes /\ OneFiringPerPair /\ FiresOncePerArm

\* The task service removes dedup rows and never inserts one.
LEMMA ServiceOnlyRemoves == ASSUME TaskNext PROVE fires' \subseteq fires
<1>1. ASSUME NEW c \in Client, Request(c) PROVE fires' = fires
  BY <1>1 DEF Request, create, update, reorder, delete, archive, unarchive, addAssignee,
              removeAssignee, BeginUpdate, BeginReorder, BeginArchive, BeginUnarchive, BeginDelete,
              BeginAssign, BeginUnassign, BeginCreate
<1>2. ASSUME NEW c \in Caller, Run(c) PROVE fires' \subseteq fires
  <2>1. CASE Delete(c) BY <2>1 DEF Delete
  <2>2. CASE ClearTaskFires(c) BY <2>2 DEF ClearTaskFires
  <2>3. CASE ~Delete(c) /\ ~ClearTaskFires(c)
    BY <1>2, <2>3 DEF Run, Write, Place, Mark, SetArchived, Insert, Spawn, Inherit, Enlist,
                      Assign, Unassign, Reread, Emit
  <2> QED BY <2>1, <2>2, <2>3
<1>3. ASSUME NEW c \in Caller, Fail(c) PROVE fires' = fires
  BY <1>3 DEF Fail
<1> QED BY <1>1, <1>2, <1>3 DEF TaskNext

\* The ghost counter follows the dedup table through a service step, so the
\* credit of every pair is kept.
LEMMA ServiceKeepsCredit ==
  ASSUME FiringTypes, Service
  PROVE  /\ FiringTypes'
         /\ \A p \in Pair : Credit(p)' = Credit(p)
<1>1. fires' \subseteq fires BY ServiceOnlyRemoves DEF Service
<1>2. hand' = hand BY DEF Service, Recorded, engineVars
<1>3. spare' = [p \in Pair |-> IF Removed(p) THEN spare[p] + 1 ELSE spare[p]]
  BY DEF Service, Recorded
<1>4. FiringTypes' BY <1>1, <1>2, <1>3 DEF FiringTypes
<1>5. ASSUME NEW p \in Pair PROVE Credit(p)' = Credit(p)
  BY <1>1, <1>3 DEF FiringTypes, Credit, Removed
<1> QED BY <1>4, <1>5

\* Steps that leave the sweep and the dedup table alone.
LEMMA ArmInvStutters ==
  ASSUME ArmInv, UNCHANGED <<fires, hand, spare>>
  PROVE  ArmInv'
BY DEF ArmInv, FiringTypes, OneFiringPerPair, FiresOncePerArm, Credit, Pending

\* Every step keeps the credit of every pair covered: Scan pays for what it
\* claims with new dedup rows, Fire spends one.
LEMMA ArmInvStep == ASSUME ArmInv, [Next]_vars PROVE ArmInv'
<1> USE DEF ArmInv
<1>1. CASE Service
  <2>1. FiringTypes' /\ \A p \in Pair : Credit(p)' = Credit(p) BY <1>1, ServiceKeepsCredit
  <2>2. hand' = hand BY <1>1 DEF Service, Recorded, engineVars
  <2> QED BY <2>1, <2>2 DEF OneFiringPerPair, FiresOncePerArm, Pending
<1>2. CASE Scan
  <2> DEFINE claimed == {p \in Pair : DueSoon(p[1], p[2])}
  <2>1. /\ hand = {}
        /\ fires' = fires \cup claimed
        /\ hand' = {[auto |-> p[1], id |-> p[2], snap |-> rows[p[2]]] : p \in claimed}
        /\ spare' = spare
    BY <1>2 DEF Scan
  <2>2. \A p \in claimed : p \notin fires
    BY DEF DueSoon, Pair
  <2>3. \A f \in hand' : /\ <<f.auto, f.id>> \in claimed
                          /\ f = [auto |-> f.auto, id |-> f.id, snap |-> rows[f.id]]
    BY <2>1 DEF Pair
  <2>4. FiringTypes' BY <2>1, <2>3 DEF FiringTypes, Pair
  <2>5. OneFiringPerPair' BY <2>3 DEF OneFiringPerPair
  <2>6. ASSUME NEW p \in Pair PROVE Credit(p)' >= (IF Pending(p)' THEN 1 ELSE 0)
    <3>1. spare[p] \in Int BY DEF FiringTypes
    <3>2. Credit(p) >= 0 BY <3>1 DEF FiresOncePerArm, Credit
    <3>3. CASE p \in claimed BY <2>1, <2>2, <3>1, <3>2, <3>3 DEF Credit
    <3>4. CASE p \notin claimed
      <4>1. ~Pending(p)' BY <2>3, <3>4 DEF Pending, Pair
      <4>2. Credit(p)' = Credit(p) BY <2>1, <3>4 DEF Credit
      <4> QED BY <3>2, <4>1, <4>2
    <3> QED BY <3>3, <3>4
  <2> QED BY <2>4, <2>5, <2>6 DEF FiresOncePerArm
<1>3. CASE Fire
  <2>1. PICK f \in hand :
          /\ hand' = hand \ {f}
          /\ spare' = [spare EXCEPT ![<<f.auto, f.id>>] = @ - 1]
    BY <1>3 DEF Fire
  <2>2. fires' = fires BY <1>3 DEF Fire, taskVars
  <2> DEFINE q == <<f.auto, f.id>>
  <2>3. q \in Pair BY DEF FiringTypes, Pair
  <2>4. FiringTypes' BY <2>1, <2>2, <2>3 DEF FiringTypes
  <2>5. OneFiringPerPair' BY <2>1 DEF OneFiringPerPair
  <2>6. Credit(q) >= 1 BY <2>3 DEF FiresOncePerArm, Pending
  <2>7. ASSUME NEW p \in Pair PROVE Credit(p)' >= (IF Pending(p)' THEN 1 ELSE 0)
    <3>1. spare[p] \in Int BY DEF FiringTypes
    <3>2. CASE p = q
      <4>1. ~Pending(p)' BY <2>1, <3>2 DEF OneFiringPerPair, Pending
      <4>2. Credit(p)' = Credit(p) - 1 BY <2>1, <2>2, <3>1, <3>2 DEF Credit, FiringTypes
      <4> QED BY <2>6, <3>1, <3>2, <4>1, <4>2 DEF Credit
    <3>3. CASE p # q
      <4>1. Pending(p)' => Pending(p) BY <2>1 DEF Pending
      <4>2. Credit(p)' = Credit(p) BY <2>1, <2>2, <3>3 DEF Credit, FiringTypes
      <4>3. Credit(p) >= (IF Pending(p) THEN 1 ELSE 0) BY DEF FiresOncePerArm
      <4> QED BY <3>1, <4>1, <4>2, <4>3 DEF Credit
    <3> QED BY <3>2, <3>3
  <2> QED BY <2>4, <2>5, <2>7 DEF FiresOncePerArm
<1>4. CASE Crash
  <2>1. fires' = fires /\ spare' = spare /\ hand' = {}
    BY <1>4 DEF Crash, historyVars
  <2>2. \A p \in Pair : Credit(p) >= 0 BY DEF FiresOncePerArm, FiringTypes, Credit
  <2> QED BY <2>1, <2>2 DEF FiringTypes, OneFiringPerPair, FiresOncePerArm, Credit, Pending
<1>5. CASE Take \/ NextRule BY <1>5, ArmInvStutters DEF Take, NextRule, taskVars, historyVars
<1>6. ASSUME NEW g \in Goroutine, Act(g) \/ Finish(g) PROVE ArmInv'
  <2>1. UNCHANGED <<fires, hand, spare>>
    BY <1>6 DEF Act, Finish, BeginUpdate, BeginAssign, taskVars, historyVars
  <2> QED BY <2>1, ArmInvStutters
<1>7. ASSUME NEW a \in Switchable, Toggle(a) PROVE ArmInv'
  BY <1>7, ArmInvStutters DEF Toggle, taskVars, historyVars
<1>8. CASE Tick BY <1>8, ArmInvStutters DEF Tick, taskVars, historyVars
<1>9. CASE UNCHANGED vars BY <1>9, ArmInvStutters DEF vars, taskVars, engineVars, historyVars
<1> QED BY <1>1, <1>2, <1>3, <1>4, <1>5, <1>6, <1>7, <1>8, <1>9 DEF Next

\* Between two firings of a rule for a task its dedup row was removed, for any
\* number of users, rules, tasks, failures and restarts.
THEOREM FiresOncePerArmHolds == Spec => []FiresOncePerArm
<1>1. Init => ArmInv
  BY DEF Init, TaskInit, ArmInv, FiringTypes, OneFiringPerPair, FiresOncePerArm, Credit,
         Pending, Pair
<1>2. ArmInv /\ [Next]_vars => ArmInv' BY ArmInvStep
<1>3. ArmInv => FiresOncePerArm BY DEF ArmInv
<1> QED BY <1>1, <1>2, <1>3, PTL DEF Spec
-----------------------------------------------------------------------------
(* Types, and the flat series, of the service and the engine together.  A      *)
(* goroutine acts only on the task of an event it has taken.                   *)

JobsOK == \A g \in Goroutine : job[g] = NoJob \/ job[g].ev \in Event

EngineTypeOK ==
    /\ enabled \subseteq Automation
    /\ job \in [Goroutine -> Job]
    /\ hand \subseteq Firing
    /\ now \in 0..MaxNow
    /\ crashes \in 0..MaxCrashes
    /\ spare \in [Pair -> Int]
    /\ dueAt \in [Pair -> Due \cup {NULL}]
    /\ overlaps \subseteq Task

EngineInv == TaskInv /\ EngineTypeOK /\ JobsOK /\ SeriesInv

\* The actions of a rule are requests of the service.
LEMMA ActionBody ==
  ASSUME NEW act \in Action
  PROVE  /\ act.type = "change_status" => ChangeStatus(act.sid) \in EditBody
         /\ act.type = "assign_user" => act.user \in User
BY DEF Action, ChangeStatus, EditBody

\* A goroutine without an event is typed.
LEMMA NoJobType == NoJob \in Job
BY EmptySeq DEF NoJob, Job

\* A step that changes one goroutine's job.
LEMMA OneJob ==
  ASSUME EngineInv, NEW g \in Goroutine, NEW j \in Job, j = NoJob \/ j.ev \in Event,
         job' = [job EXCEPT ![g] = j]
  PROVE  job' \in [Goroutine -> Job] /\ JobsOK'
<1>1. job' \in [Goroutine -> Job] /\ \A h \in Goroutine : job'[h] = IF h = g THEN j ELSE job[h]
  BY DEF EngineInv, EngineTypeOK
<1> QED BY <1>1 DEF EngineInv, JobsOK

\* The calls of an engine's goroutine are calls like any other.
LEMMA ActKeeps == ASSUME EngineInv, NEW g \in Goroutine, Act(g) PROVE EngineInv'
<1> DEFINE act  == Head(job[g].acts)
           k    == job[g].ev.id
           rest == Tail(job[g].acts)
           j    == [job[g] EXCEPT !.acts = rest]
<1>1. g \in Caller BY EngineAssumption
<1>2. job[g] \in Job /\ job[g].ev \in Event BY DEF Act, Busy, EngineInv, EngineTypeOK, JobsOK
<1>3. k \in Task BY <1>2 DEF Event
<1>4. job[g].acts \in Seq(Action) /\ job[g].acts # <<>> BY <1>2 DEF Act, Job
<1>5. act \in Action /\ rest \in Seq(Action) BY <1>4, HeadTailProperties
<1>6. /\ UNCHANGED <<enabled, hand, now, crashes, spare, dueAt>>
      /\ job' = [job EXCEPT ![g] = j]
      /\ overlaps' = overlaps \cup Shared'
  BY DEF Act, Overlapped
<1> HIDE DEF rest
<1>7. j \in Job /\ j.ev \in Event BY <1>2, <1>5 DEF Job
<1> HIDE DEF j, act, k
<1>8. job' \in [Goroutine -> Job] /\ JobsOK' BY <1>6, <1>7, OneJob
<1>9. TaskInv' /\ SeriesInv'
  <2>1. CASE act.type = "change_status" /\ BeginUpdate(g, k, ChangeStatus(act.sid))
    <3>1. ChangeStatus(act.sid) \in EditBody BY <1>5, <2>1, ActionBody
    <3>2. TaskInv' BY <1>1, <1>3, <2>1, <3>1, BeginUpdateKeeps DEF EngineInv
    <3>3. CopiesKept BY <1>1, <1>3, <2>1, <3>1, BeginCopies DEF EngineInv
    <3>4. UNCHANGED rows BY <2>1 DEF BeginUpdate
    <3> QED BY <3>2, <3>3, <3>4, SameRows, SeriesKept DEF EngineInv
  <2>2. CASE act.type = "assign_user" /\ BeginAssign(g, k, act.user)
    <3>1. act.user \in User BY <1>5, <2>2, ActionBody
    <3>2. TaskInv'
      <4>1. /\ Enter(g, k, <<"assign", "reread", "tell">>, act.user)
            /\ UNCHANGED <<rows, assigned, fires, queue, faults>>
        BY <2>2 DEF BeginAssign
      <4> QED BY <1>1, <1>3, <3>1, <4>1, EnterOK DEF EngineInv
    <3>3. CopiesKept BY <1>1, <1>3, <2>2, <3>1, BeginCopies DEF EngineInv
    <3>4. UNCHANGED rows BY <2>2 DEF BeginAssign
    <3> QED BY <3>2, <3>3, <3>4, SameRows, SeriesKept DEF EngineInv
  <2>3. CASE UNCHANGED taskVars
    BY <2>3, TaskInvStutters DEF EngineInv, SeriesInv, SeriesFlat, CopyOK, Exists, taskVars
  <2> QED BY <2>1, <2>2, <2>3 DEF Act, act, k
<1>10. overlaps' \subseteq Task BY <1>6 DEF Shared, EngineInv, EngineTypeOK
<1> QED BY <1>6, <1>8, <1>9, <1>10 DEF EngineInv, EngineTypeOK

\* The engine's invariant holds at the start.
LEMMA EngineInvInit == ASSUME Init PROVE EngineInv
<1>1. TaskInv /\ SeriesInv BY TaskInvInit, SeriesInvInit DEF Init
<1>2. EngineTypeOK BY EngineAssumption, NoJobType DEF Init, EngineTypeOK
<1>3. JobsOK BY DEF Init, JobsOK
<1> QED BY <1>1, <1>2, <1>3 DEF EngineInv

\* The engine's invariant is inductive: one case per action of Next.
LEMMA EngineInvStep == ASSUME EngineInv, [Next]_vars PROVE EngineInv'
<1>1. CASE Service
  <2>1. TaskInv' BY <1>1, TaskInvStep DEF EngineInv, Service
  <2>2. SeriesInv' BY <1>1, <2>1, SeriesInvStep DEF EngineInv, Service
  <2>3. EngineTypeOK'
    <3>1. spare' \in [Pair -> Int] /\ dueAt' \in [Pair -> Due \cup {NULL}]
      BY <1>1 DEF Service, Recorded, EngineInv, EngineTypeOK
    <3>2. overlaps' \subseteq Task
      BY <1>1 DEF Service, Recorded, Overlapped, Shared, EngineInv, EngineTypeOK
    <3> QED BY <1>1, <3>1, <3>2 DEF Service, Recorded, engineVars, EngineInv, EngineTypeOK
  <2>4. JobsOK' BY <1>1 DEF Service, Recorded, engineVars, EngineInv, JobsOK
  <2> QED BY <2>1, <2>2, <2>3, <2>4 DEF EngineInv
<1>2. CASE UNCHANGED <<rows, call>> /\ TaskInv' /\ EngineTypeOK' /\ JobsOK'
  BY <1>2 DEF EngineInv, SeriesInv, SeriesFlat, CopyOK, Exists
<1>3. CASE Take
  <2> DEFINE ev == Head(queue)
             j  == IF Matching(ev) = {} THEN NoJob
                   ELSE [ev |-> ev, left |-> Matching(ev), acts |-> <<>>]
  <2>1. queue \in Seq(Event) /\ queue # <<>> BY <1>3 DEF Take, EngineInv, TaskInv, TaskTypeOK
  <2>2. ev \in Event /\ Tail(queue) \in Seq(Event) /\ Len(Tail(queue)) = Len(queue) - 1
    BY <2>1, HeadTailProperties
  <2>3. Len(queue) \in Nat /\ Len(queue) <= QueueCap
    BY <2>1, LenProperties DEF EngineInv, TaskInv, TaskTypeOK
  <2>4. Matching(ev) \subseteq Automation BY DEF Matching, EngineInv, EngineTypeOK
  <2>5. job' = [job EXCEPT ![Worker] = j] BY <1>3 DEF Take
  <2>6. j \in Job /\ (j = NoJob \/ j.ev \in Event)
    <3> HIDE DEF ev
    <3> QED BY <2>2, <2>4, NoJobType, EmptySeq DEF Job
  <2> HIDE DEF j, ev
  <2>7. job' \in [Goroutine -> Job] /\ JobsOK' BY <2>5, <2>6, OneJob DEF Goroutine
  <2>8. TaskInv'
    <3>1. queue' = Tail(queue) /\ UNCHANGED <<rows, assigned, fires, call, faults>>
      BY <1>3 DEF Take
    <3>2. queue' \in Seq(Event) /\ Len(queue') <= QueueCap
      BY <2>2, <2>3, <3>1, TaskServiceAssumption
    <3> QED BY <3>1, <3>2 DEF EngineInv, TaskInv, TaskTypeOK, CallsOK
  <2>9. EngineTypeOK' BY <1>3, <2>7 DEF Take, EngineInv, EngineTypeOK, historyVars
  <2> QED BY <1>2, <1>3, <2>7, <2>8, <2>9 DEF Take
<1>4. CASE NextRule
  <2>1. PICK a \in Oldest(job[Worker].left) :
          job' = [job EXCEPT ![Worker].left = @ \ {a}, ![Worker].acts = Rule[a].acts]
    BY <1>4 DEF NextRule
  <2>2. job[Worker] \in Job /\ job[Worker].ev \in Event
    BY <1>4 DEF NextRule, Busy, EngineInv, EngineTypeOK, JobsOK, Goroutine
  <2>3. a \in Automation BY <2>2 DEF Oldest, Job
  <2>4. Rule[a].acts \in Seq(Action)
    <3>1. Rule[a] \in RuleRow BY <2>3, EngineAssumption
    <3> QED BY <3>1 DEF RuleRow
  <2> DEFINE j == [job[Worker] EXCEPT !.left = @ \ {a}, !.acts = Rule[a].acts]
  <2>5. j \in Job /\ j.ev \in Event BY <2>2, <2>4 DEF Job
  <2>6. job' = [job EXCEPT ![Worker] = j]
    BY <2>1 DEF EngineInv, EngineTypeOK, Goroutine
  <2> HIDE DEF j
  <2>7. job' \in [Goroutine -> Job] /\ JobsOK' BY <2>5, <2>6, OneJob DEF Goroutine
  <2>8. TaskInv' BY <1>4, TaskInvStutters DEF NextRule, EngineInv
  <2>9. EngineTypeOK' BY <1>4, <2>7 DEF NextRule, EngineInv, EngineTypeOK, historyVars
  <2> QED BY <1>2, <1>4, <2>7, <2>8, <2>9 DEF NextRule, taskVars
<1>5. ASSUME NEW g \in Goroutine, Act(g) PROVE EngineInv' BY <1>5, ActKeeps
<1>6. ASSUME NEW g \in Goroutine, Finish(g) PROVE EngineInv'
  <2>1. job' \in [Goroutine -> Job] /\ JobsOK' BY <1>6, OneJob, NoJobType DEF Finish
  <2>2. TaskInv' BY <1>6, TaskInvStutters DEF Finish, EngineInv
  <2>3. EngineTypeOK' BY <1>6, <2>1 DEF Finish, EngineInv, EngineTypeOK, historyVars
  <2> QED BY <1>2, <1>6, <2>1, <2>2, <2>3 DEF Finish, taskVars
<1>7. CASE Scan
  <2> DEFINE claimed == {p \in Pair : DueSoon(p[1], p[2])}
  <2>1. /\ fires' = fires \cup claimed
        /\ hand' = {[auto |-> p[1], id |-> p[2], snap |-> rows[p[2]]] : p \in claimed}
        /\ dueAt' = [p \in Pair |-> IF p \in claimed THEN rows[p[2]].due ELSE dueAt[p]]
        /\ UNCHANGED <<rows, assigned, queue, call, faults, enabled, job, now, crashes, spare, overlaps>>
    BY <1>7 DEF Scan
  <2>2. \A p \in claimed : /\ p \in Automation \X Task /\ p[1] \in Automation /\ p[2] \in Task
                           /\ rows[p[2]] \in Row /\ rows[p[2]].due \in Due \cup {NULL}
    <3>1. \A p \in claimed : p \in Automation \X Task /\ p[1] \in Automation /\ p[2] \in Task
      BY DEF Pair
    <3>2. \A p \in claimed : rows[p[2]] \in Row
      BY <3>1 DEF DueSoon, Exists, EngineInv, TaskInv, TaskTypeOK
    <3> QED BY <3>1, <3>2 DEF Row
  <2> HIDE DEF claimed
  <2>3. hand' \subseteq Firing BY <2>1, <2>2 DEF Firing
  <2>4. dueAt' \in [Pair -> Due \cup {NULL}] BY <2>1, <2>2 DEF EngineInv, EngineTypeOK
  <2>5. TaskInv' BY <2>1, <2>2 DEF EngineInv, TaskInv, TaskTypeOK, CallsOK
  <2>6. EngineTypeOK' BY <2>1, <2>3, <2>4 DEF EngineInv, EngineTypeOK
  <2>7. JobsOK' BY <2>1 DEF EngineInv, JobsOK
  <2> QED BY <1>2, <2>1, <2>5, <2>6, <2>7
<1>8. CASE Fire
  <2>1. PICK f \in hand :
          LET ev == [type |-> "due_soon", id |-> f.id, snap |-> f.snap, who |-> NULL]
              r  == Rule[f.auto]
          IN  /\ hand' = hand \ {f}
              /\ job' = [job EXCEPT ![Scanner] =
                           IF Matches(r, ev) THEN [ev |-> ev, left |-> {}, acts |-> r.acts]
                           ELSE NoJob]
              /\ spare' = [spare EXCEPT ![<<f.auto, f.id>>] = @ - 1]
    BY <1>8 DEF Fire
  <2> DEFINE ev == [type |-> "due_soon", id |-> f.id, snap |-> f.snap, who |-> NULL]
             j  == IF Matches(Rule[f.auto], ev)
                   THEN [ev |-> ev, left |-> {}, acts |-> Rule[f.auto].acts] ELSE NoJob
  <2>2. f.auto \in Automation /\ f.id \in Task /\ f.snap \in Row
    BY DEF EngineInv, EngineTypeOK, Firing
  <2>3. ev \in Event BY <2>2 DEF Event, Trigger
  <2>4. Rule[f.auto].acts \in Seq(Action)
    <3>1. Rule[f.auto] \in RuleRow BY <2>2, EngineAssumption
    <3> QED BY <3>1 DEF RuleRow
  <2>5. job' = [job EXCEPT ![Scanner] = j] BY <2>1
  <2>6. j \in Job /\ (j = NoJob \/ j.ev \in Event)
    <3> HIDE DEF ev
    <3> QED BY <2>3, <2>4, NoJobType DEF Job
  <2> HIDE DEF j, ev
  <2>7. job' \in [Goroutine -> Job] /\ JobsOK' BY <2>5, <2>6, OneJob DEF Goroutine
  <2>8. spare' \in [Pair -> Int] BY <2>1, <2>2 DEF EngineInv, EngineTypeOK, Pair
  <2>9. TaskInv' BY <1>8, TaskInvStutters DEF Fire, EngineInv
  <2>10. EngineTypeOK' BY <1>8, <2>1, <2>7, <2>8 DEF Fire, EngineInv, EngineTypeOK
  <2> QED BY <1>2, <1>8, <2>7, <2>9, <2>10 DEF Fire, taskVars
<1>9. CASE Crash
  <2>1. TaskInv'
    <3>1. queue' \in Seq(Event) /\ Len(queue') <= QueueCap
      BY <1>9, EmptySeq, TaskServiceAssumption DEF Crash
    <3>2. call' \in [Caller -> Call] /\ CallsOK' BY <1>9, NoCallOK DEF Crash, CallsOK
    <3> QED BY <1>9, <3>1, <3>2 DEF Crash, EngineInv, TaskInv, TaskTypeOK
  <2>2. SeriesInv'
    BY <1>9, NoCallNoCopy DEF Crash, EngineInv, SeriesInv, SeriesFlat, CopyOK, Exists
  <2>3. job' \in [Goroutine -> Job] /\ JobsOK' BY <1>9, NoJobType DEF Crash, JobsOK
  <2>4. EngineTypeOK'
    BY <1>9, <2>3, EngineAssumption DEF Crash, EngineInv, EngineTypeOK, historyVars
  <2> QED BY <2>1, <2>2, <2>3, <2>4 DEF EngineInv
<1>10. ASSUME NEW a \in Switchable, Toggle(a) PROVE EngineInv'
  <2>1. enabled' \subseteq Automation BY <1>10, EngineAssumption DEF Toggle, EngineInv, EngineTypeOK
  <2>2. TaskInv' BY <1>10, TaskInvStutters DEF Toggle, EngineInv
  <2>3. EngineTypeOK' BY <1>10, <2>1 DEF Toggle, EngineInv, EngineTypeOK, historyVars
  <2>4. JobsOK' BY <1>10 DEF Toggle, EngineInv, JobsOK
  <2> QED BY <1>2, <1>10, <2>2, <2>3, <2>4 DEF Toggle, taskVars
<1>11. CASE Tick
  <2>1. TaskInv' BY <1>11, TaskInvStutters DEF Tick, EngineInv
  <2>2. EngineTypeOK'
    BY <1>11, EngineAssumption DEF Tick, EngineInv, EngineTypeOK, historyVars
  <2>3. JobsOK' BY <1>11 DEF Tick, EngineInv, JobsOK
  <2> QED BY <1>2, <1>11, <2>1, <2>2, <2>3 DEF Tick, taskVars
<1>12. CASE UNCHANGED vars
  <2>1. TaskInv' BY <1>12, TaskInvStutters DEF vars, EngineInv
  <2>2. EngineTypeOK' /\ JobsOK'
    BY <1>12 DEF vars, engineVars, historyVars, EngineInv, EngineTypeOK, JobsOK
  <2> QED BY <1>2, <1>12, <2>1, <2>2 DEF vars, taskVars
<1> QED BY <1>1, <1>3, <1>4, <1>5, <1>6, <1>7, <1>8, <1>9, <1>10, <1>11, <1>12 DEF Next

\* The tables, the queue, the calls and the goroutines keep their types, and
\* the queue its capacity, however many tasks, users, rules and goroutines there
\* are.
THEOREM TypeOKHolds == Spec => []TypeOK
<1>1. EngineInv => TypeOK BY DEF EngineInv, EngineTypeOK, TypeOK, TaskInv
<1> QED BY <1>1, EngineInvInit, EngineInvStep, PTL DEF Spec

\* The occurrences of a recurring task stay a flat series, whatever copies the
\* clients and the rules write late, whatever fails, and across restarts.
THEOREM SeriesFlatHolds == Spec => []SeriesFlat
<1>1. EngineInv => SeriesFlat BY DEF EngineInv, SeriesInv
<1> QED BY <1>1, EngineInvInit, EngineInvStep, PTL DEF Spec
-----------------------------------------------------------------------------
(* The queue and the worker implement EventPipe *)

\* A step that touches neither the queue nor the worker's event.
LEMMA PipeStutters ==
  ASSUME queue' = queue, job'[Worker].ev = job[Worker].ev
  PROVE  [Pipe!Next]_(Pipe!vars)
BY DEF Pipe!vars

\* Dispatch appends to a queue that has room, or drops the event.
LEMMA DispatchAccepts ==
  ASSUME EngineInv, NEW e, Dispatch(e), e \in Event, job' = job
  PROVE  [Pipe!Next]_(Pipe!vars)
<1>1. queue \in Seq(Event) BY DEF EngineInv, TaskInv, TaskTypeOK
<1>2. CASE Len(queue) < QueueCap
  <2>1. queue' = Append(queue, e) BY <1>2 DEF Dispatch
  <2>2. /\ Len(queue') = Len(queue) + 1 /\ queue' \in Seq(Event)
        /\ \A i \in 1..Len(queue) : queue'[i] = queue[i]
    BY <1>1, <2>1, AppendProperties
  <2>3. SubSeq(queue', 1, Len(queue)) = queue
    <3>1. Len(queue) \in Nat BY <1>1, LenProperties
    <3>2. \A i \in 1..Len(queue) : queue'[i] \in Event BY <1>1, <2>2, ElementOfSeq
    <3> DEFINE s == SubSeq(queue', 1, Len(queue))
    <3>3. /\ s \in Seq(Event)
          /\ Len(s) = IF 1 <= Len(queue) THEN Len(queue) - 1 + 1 ELSE 0
          /\ \A i \in 1..(Len(queue) - 1 + 1) : s[i] = queue'[1 + i - 1]
      BY <3>1, <3>2, SubSeqProperties
    <3> HIDE DEF s
    <3>4. Len(s) = Len(queue) BY <3>1, <3>3
    <3>5. \A i \in 1..Len(queue) : s[i] = queue[i] BY <2>2, <3>1, <3>3
    <3>6. s = queue BY <1>1, <3>3, <3>4, <3>5, SeqEqual
    <3> QED BY <3>6 DEF s
  <2> QED BY <1>2, <2>2, <2>3 DEF Pipe!Next, Pipe!Accept
<1>3. CASE ~(Len(queue) < QueueCap) BY <1>3, PipeStutters DEF Dispatch
<1> QED BY <1>2, <1>3

\* A step of the service changes the queue only by a dispatch.
LEMMA ServicePipes == ASSUME EngineInv, Service PROVE [Pipe!Next]_(Pipe!vars)
<1>1. job' = job BY DEF Service, Recorded, engineVars
<1>2. ASSUME NEW c \in Caller, Emit(c) PROVE [Pipe!Next]_(Pipe!vars)
  <2> DEFINE e == EventOf(call[c])
  <2>1. Dispatch(e) BY <1>2 DEF Emit
  <2>2. e \in Event BY <1>2, EventTyped DEF EngineInv
  <2> HIDE DEF e
  <2> QED BY <1>1, <2>1, <2>2, DispatchAccepts
<1>3. ASSUME NEW c \in Caller, Run(c), ~Emit(c) PROVE queue' = queue
  BY <1>3 DEF Run, Write, Place, Mark, SetArchived, Delete, Insert, Spawn, Inherit, Enlist,
              Assign, Unassign, Reread, ClearTaskFires
<1>4. ASSUME NEW c \in Client, Request(c) PROVE queue' = queue
  BY <1>4 DEF Request, create, update, reorder, delete, archive, unarchive, addAssignee,
              removeAssignee, BeginUpdate, BeginReorder, BeginArchive, BeginUnarchive, BeginDelete,
              BeginAssign, BeginUnassign, BeginCreate
<1>5. ASSUME NEW c \in Caller, Fail(c) PROVE queue' = queue BY <1>5 DEF Fail
<1> QED BY <1>1, <1>2, <1>3, <1>4, <1>5, PipeStutters DEF Service, TaskNext

\* Every step of the engine is a step of the pipe or leaves it unchanged.
LEMMA PipeStep == ASSUME EngineInv, [Next]_vars PROVE [Pipe!Next]_(Pipe!vars)
<1>1. job \in [Goroutine -> Job] /\ Worker \in Goroutine /\ Scanner \in Goroutine
      /\ Worker # Scanner
  BY EngineAssumption DEF EngineInv, EngineTypeOK, Goroutine
<1>2. CASE Service BY <1>2, ServicePipes
<1>3. CASE Take
  <2>1. queue # <<>> /\ queue' = Tail(queue) /\ job[Worker] = NoJob
    BY <1>3 DEF Take, Busy
  <2>2. job'[Worker].ev \in {Head(queue), NULL} BY <1>1, <1>3 DEF Take, NoJob
  <2>3. job[Worker].ev = NULL BY <2>1 DEF NoJob
  <2> QED BY <2>1, <2>2, <2>3 DEF Pipe!Next, Pipe!Start
<1>4. CASE NextRule
  <2>1. PICK a \in Oldest(job[Worker].left) :
          job' = [job EXCEPT ![Worker].left = @ \ {a}, ![Worker].acts = Rule[a].acts]
    BY <1>4 DEF NextRule
  <2>2. job'[Worker].ev = job[Worker].ev BY <1>1, <2>1 DEF Job
  <2> QED BY <1>4, <2>2, PipeStutters DEF NextRule, taskVars
<1>5. ASSUME NEW g \in Goroutine, Act(g) PROVE [Pipe!Next]_(Pipe!vars)
  <2>1. job'[Worker].ev = job[Worker].ev
    <3> DEFINE rest == Tail(job[g].acts)
    <3>1. job' = [job EXCEPT ![g].acts = rest] BY <1>5 DEF Act
    <3> HIDE DEF rest
    <3> QED BY <1>1, <3>1 DEF Job
  <2>2. queue' = queue BY <1>5 DEF Act, BeginUpdate, BeginAssign, taskVars
  <2> QED BY <2>1, <2>2, PipeStutters
<1>6. ASSUME NEW g \in Goroutine, Finish(g) PROVE [Pipe!Next]_(Pipe!vars)
  <2>1. queue' = queue /\ job' = [job EXCEPT ![g] = NoJob] BY <1>6 DEF Finish, taskVars
  <2>2. CASE g = Worker
    <3>1. job'[Worker].ev = NULL BY <1>1, <2>1, <2>2 DEF NoJob
    <3>2. CASE job[Worker].ev = NULL BY <2>1, <3>1, <3>2, PipeStutters
    <3>3. CASE job[Worker].ev # NULL BY <2>1, <3>1, <3>3 DEF Pipe!Next, Pipe!Done
    <3> QED BY <3>2, <3>3
  <2>3. CASE g # Worker BY <1>1, <2>1, <2>3, PipeStutters
  <2> QED BY <2>2, <2>3
<1>7. CASE Fire
  <2>1. queue' = queue /\ job'[Worker] = job[Worker] BY <1>1, <1>7 DEF Fire, taskVars
  <2> QED BY <2>1, PipeStutters
<1>8. CASE Crash
  <2>1. queue' = <<>> /\ job'[Worker].ev = NULL BY <1>1, <1>8 DEF Crash, NoJob
  <2> QED BY <2>1 DEF Pipe!Next, Pipe!Stop
<1>9. CASE Scan BY <1>9, PipeStutters DEF Scan
<1>10. ASSUME NEW a \in Switchable, Toggle(a) PROVE [Pipe!Next]_(Pipe!vars)
  BY <1>10, PipeStutters DEF Toggle, taskVars
<1>11. CASE Tick BY <1>11, PipeStutters DEF Tick, taskVars
<1>12. CASE UNCHANGED vars BY <1>12, PipeStutters DEF vars, taskVars, engineVars
<1> QED BY <1>2, <1>3, <1>4, <1>5, <1>6, <1>7, <1>8, <1>9, <1>10, <1>11, <1>12 DEF Next

\* Every behaviour of the engine and the service is one of the lossy first-in
\* first-out pipe with a single consumer.
THEOREM ImplementsEventPipe == Spec => PipeSpec
<1>1. Init => Pipe!Init
  BY DEF Init, TaskInit, Pipe!Init, NoJob, Goroutine
<1> QED BY <1>1, PipeStep, EngineInvInit, EngineInvStep, PTL DEF Spec, PipeSpec, Pipe!Spec

-----------------------------------------------------------------------------
(* A dedup row is of the due date its task has.                             *)

Lacks(s, x) == \A i \in 1..Len(s) : s[i] # x
WritesFirst(s) == \A i \in 2..Len(s) : s[i] # "write"

\* What a call on task k still has to do makes up for what it has done to its due date:
\* a copy with another date is written before the dedup rows are cleared, and a dedup
\* row of another date is there only after the write and before the clear.
CallDue(r, k) ==
    /\ WritesFirst(r.todo)
    /\ \A i \in 1..Len(r.todo) : Exists(k) /\ r.todo[i] \in {"write", "mark"} =>
         r.t.due = rows[k].due \/ \E j \in 1..Len(r.todo) : i < j /\ r.todo[j] = "clear"
    /\ \A p \in fires : p[2] = k =>
         dueAt[p] = rows[k].due \/ (~Lacks(r.todo, "clear") /\ r.todo[1] # "write")

TaskDue(k) ==
    /\ \A c \in Caller : call[c].id = k => CallDue(call[c], k)
    /\ (\A c \in Caller : call[c].id # k) => \A p \in fires : p[2] = k => dueAt[p] = rows[k].due

DueInv ==
    /\ Shared \subseteq overlaps
    /\ \A p \in fires : Exists(p[2])
    /\ faults = 0 /\ crashes = 0 => \A k \in Task \ overlaps : TaskDue(k)

-----------------------------------------------------------------------------
(* Plans *)

\* What plans joined together lack, or begin with.
LEMMA LacksJoined ==
  ASSUME NEW s \in Seq(EditStep), NEW t \in Seq(EditStep), NEW x
  PROVE  /\ Lacks(s, x) /\ Lacks(t, x) => Lacks(s \o t, x)
         /\ WritesFirst(s) /\ Lacks(t, "write") => WritesFirst(s \o t)
<1> DEFINE u == s \o t
<1>1. /\ Len(u) = Len(s) + Len(t)
      /\ \A i \in 1..(Len(s) + Len(t)) : u[i] = IF i <= Len(s) THEN s[i] ELSE t[i - Len(s)]
  BY ConcatProperties
<1>2. Len(s) \in Nat /\ Len(t) \in Nat BY LenProperties
<1> HIDE DEF u
<1>3. ASSUME NEW i \in 1..Len(u)
      PROVE  (i \in 1..Len(s) /\ u[i] = s[i]) \/ (i - Len(s) \in 1..Len(t) /\ u[i] = t[i - Len(s)])
  BY <1>1, <1>2
<1> QED BY <1>1, <1>2, <1>3 DEF Lacks, WritesFirst, u

\* The optional pieces of a plan write no row.
LEMMA LacksPieces ==
  /\ \A x \in {"changed", "completed", "clear", "place", "mark"}, b \in BOOLEAN : Lacks(When(b, <<x>>), "write")
  /\ \A b \in BOOLEAN : Lacks(When(b, <<"spawn", "inherit", "announce">>), "write")
<1>1. Lacks(<<>>, "write") BY DEF Lacks
<1>2. ASSUME NEW x \in {"changed", "completed", "clear", "place", "mark"} PROVE Lacks(<<x>>, "write")
  BY DEF Lacks
<1>3. Lacks(<<"spawn", "inherit", "announce">>, "write")
  <2> DEFINE s == <<"spawn", "inherit", "announce">>
  <2>1. Len(s) = 3 /\ s[1] # "write" /\ s[2] # "write" /\ s[3] # "write" OBVIOUS
  <2> HIDE DEF s
  <2>2. \A i \in 1..3 : i = 1 \/ i = 2 \/ i = 3 OBVIOUS
  <2> QED BY <2>1, <2>2 DEF Lacks, s
<1> QED BY <1>1, <1>2, <1>3 DEF When

\* The row is written before anything else, and a plan for another due date ends by
\* clearing the dedup rows.
LEMMA PlansDue ==
  ASSUME NEW was, NEW t
  PROVE  /\ WritesFirst(UpdatePlan(was, t)) /\ WritesFirst(ReorderPlan(was, t))
         /\ Lacks(ReorderPlan(was, t), "write")
         /\ was.due # t.due =>
              \A i \in 1..Len(UpdatePlan(was, t)) : UpdatePlan(was, t)[i] \in {"write", "mark"} =>
                 \E j \in 1..Len(UpdatePlan(was, t)) : i < j /\ UpdatePlan(was, t)[j] = "clear"
<1> DEFINE a == When(StatusChanged(was, t), <<"changed">>)
           b == When(Completes(was, t), <<"completed">>)
           d == When(Completes(was, t) /\ t.rule, <<"spawn", "inherit", "announce">>)
           e == When(was.due # t.due \/ was.done # t.done, <<"clear">>)
           f == When(Completes(was, t), <<"mark">>)
           m == Aftermath(was, t)
<1>1. /\ Planned(a) /\ Planned(b) /\ Planned(d) /\ Planned(e) /\ Planned(f)
      /\ Planned(<<"write">>) /\ Planned(<<"place">>)
  BY PlannedPieces, WhenPlanned
<1>2. /\ Lacks(a, "write") /\ Lacks(b, "write") /\ Lacks(d, "write") /\ Lacks(e, "write")
      /\ Lacks(f, "write") /\ Lacks(<<"place">>, "write") /\ WritesFirst(<<"write">>)
  <2>1. Lacks(<<"place">>, "write") /\ WritesFirst(<<"write">>) BY DEF Lacks, WritesFirst
  <2>2. ASSUME NEW x \in {"changed", "completed", "clear", "place", "mark"}, NEW g
        PROVE  Lacks(When(g, <<x>>), "write")
    BY LacksPieces DEF When
  <2>3. ASSUME NEW g PROVE Lacks(When(g, <<"spawn", "inherit", "announce">>), "write")
    BY LacksPieces DEF When
  <2> QED BY <2>1, <2>2, <2>3
<1>3. was.due # t.due => e = <<"clear">> BY DEF When
<1>4. m = a \o b \o d BY DEF Aftermath
<1>5. UpdatePlan(was, t) = <<"write">> \o m \o e BY DEF UpdatePlan
<1>6. ReorderPlan(was, t) = <<"place">> \o f \o m BY DEF ReorderPlan
<1> HIDE DEF a, b, d, e, f, m
<1>7. \A x, y : Planned(x) /\ Planned(y) => Planned(x \o y) BY PlannedConcat
<1>8. /\ Planned(a \o b) /\ Planned(m) /\ Planned(<<"write">> \o m) /\ Planned(<<"place">> \o f)
      /\ Lacks(a \o b, "write") /\ Lacks(m, "write")
  <2>1. Planned(a \o b) /\ Planned(m) BY <1>1, <1>4, <1>7
  <2>2. Planned(<<"write">> \o m) /\ Planned(<<"place">> \o f) BY <1>1, <1>7, <2>1
  <2>3. Lacks(a \o b, "write") BY <1>1, <1>2, LacksJoined DEF Planned
  <2>4. Lacks(m, "write") BY <1>1, <1>2, <1>4, <2>1, <2>3, LacksJoined DEF Planned
  <2> QED BY <2>1, <2>2, <2>3, <2>4
<1>9. WritesFirst(<<"write">> \o m) /\ Lacks(<<"place">> \o f, "write")
  BY <1>1, <1>2, <1>8, LacksJoined DEF Planned
<1>10. WritesFirst(UpdatePlan(was, t)) /\ Lacks(ReorderPlan(was, t), "write")
  BY <1>1, <1>2, <1>5, <1>6, <1>8, <1>9, LacksJoined DEF Planned
<1>11. WritesFirst(ReorderPlan(was, t)) BY <1>10 DEF Lacks, WritesFirst
<1>12. ASSUME was.due # t.due,
              NEW i \in 1..Len(UpdatePlan(was, t)), UpdatePlan(was, t)[i] \in {"write", "mark"}
       PROVE  \E j \in 1..Len(UpdatePlan(was, t)) : i < j /\ UpdatePlan(was, t)[j] = "clear"
  <2> DEFINE s == <<"write">> \o m
             u == s \o <<"clear">>
  <2>1. s \in Seq(EditStep) /\ <<"clear">> \in Seq(EditStep) BY <1>8, PlannedPieces DEF Planned
  <2>2. UpdatePlan(was, t) = u BY <1>3, <1>5, <1>12
  <2> HIDE DEF s
  <2>3. /\ Len(u) = Len(s) + 1
        /\ \A x \in 1..(Len(s) + 1) : u[x] = IF x <= Len(s) THEN s[x] ELSE <<"clear">>[x - Len(s)]
    <3>1. Len(<<"clear">>) = 1 OBVIOUS
    <3> QED BY <2>1, <3>1, ConcatProperties
  <2>4. Len(s) \in Nat BY <2>1, LenProperties
  <2> HIDE DEF u
  <2>5. u[Len(s) + 1] = "clear"
    <3>1. Len(s) + 1 - Len(s) = 1 /\ <<"clear">>[1] = "clear" BY <2>4
    <3> QED BY <2>3, <2>4, <3>1
  <2>6. i # Len(s) + 1 BY <1>12, <2>2, <2>5
  <2>7. Len(s) + 1 \in 1..Len(u) /\ i < Len(s) + 1 BY <2>2, <2>3, <2>4, <2>6
  <2> QED BY <2>2, <2>5, <2>7
<1> QED BY <1>10, <1>11, <1>12

\* A move between columns keeps the due date.
LEMMA MovedDue ==
  ASSUME NEW row \in Row, NEW in \in MoveBody PROVE Moved(row, in).due = row.due
BY DEF Moved, Row

-----------------------------------------------------------------------------
(* A call begins *)

\* A call begins whose plan makes up for the due date it changes.
LEMMA CallBeginsDue ==
  ASSUME EngineInv, DueInv, NEW c \in Caller, NEW k \in Task \cup {NULL}, NEW e, e.id = k, Idle(c),
         call' = [call EXCEPT ![c] = e], UNCHANGED <<rows, fires, dueAt, crashes, faults>>, Overlapped,
         WritesFirst(e.todo),
         k \in Task => \A i \in 1..Len(e.todo) : e.todo[i] \in {"write", "mark"} =>
              e.t.due = rows[k].due \/ \E j \in 1..Len(e.todo) : i < j /\ e.todo[j] = "clear"
  PROVE  DueInv'
<1>1. /\ call'[c] = e /\ \A d \in Caller : d # c => call'[d] = call[d]
      /\ call[c].id = NULL /\ NULL \notin Task
  <2>1. call \in [Caller -> Call] BY DEF EngineInv, TaskInv, TaskTypeOK
  <2>2. NoCall.id = NULL BY DEF NoCall
  <2> QED BY <2>1, <2>2, TaskServiceAssumption DEF Idle
<1>2. Shared' \subseteq overlaps' /\ overlaps \subseteq overlaps' BY DEF Overlapped
<1>3. \A p \in fires' : Exists(p[2])' BY DEF DueInv, Exists
<1>4. ASSUME faults' = 0, crashes' = 0, NEW x \in Task \ overlaps' PROVE TaskDue(x)'
  <2>1. TaskDue(x) BY <1>2, <1>4 DEF DueInv
  <2>2. CASE x # k
    <3>1. \A d \in Caller : /\ call'[d].id = x <=> call[d].id = x
                            /\ call[d].id = x => call'[d] = call[d]
      BY <1>1, <2>2
    <3> QED BY <2>1, <3>1 DEF TaskDue, CallDue, Exists
  <2>3. CASE x = k
    <3>1. x \notin Shared' BY <1>2, <1>4
    <3>2. \A d \in Caller : d # c => call'[d] = call[d] /\ call[d].id # k
      BY <1>1, <2>3, <3>1 DEF Shared
    <3>3. \A d \in Caller : call[d].id # k BY <1>1, <2>3, <3>2
    <3>4. \A p \in fires : p[2] = k => dueAt[p] = rows[k].due BY <2>1, <2>3, <3>3 DEF TaskDue
    <3>5. call'[c] = e BY <1>1
    <3>6. CallDue(e, k)' BY <2>3, <3>4 DEF CallDue
    <3> QED BY <1>1, <2>3, <3>2, <3>3, <3>5, <3>6 DEF TaskDue
  <2> QED BY <2>2, <2>3
<1> QED BY <1>2, <1>3, <1>4 DEF DueInv

\* Update: when the copy's due date differs, a clear follows the write (service.go:286).
LEMMA UpdateBeginsDue ==
  ASSUME EngineInv, DueInv, NEW c \in Caller, NEW k \in Task, NEW in, BeginUpdate(c, k, in),
         UNCHANGED <<dueAt, crashes>>, Overlapped
  PROVE  DueInv'
<1>1. PICK t, row : row = rows[k] /\ t = Edited(rows[k], in) OBVIOUS
<1>2. PICK plan : plan = UpdatePlan(row, t) OBVIOUS
<1>3. PICK e : e = [NoCall EXCEPT !.todo = plan, !.id = k, !.t = t] OBVIOUS
<1>4. e.todo = plan /\ e.id = k /\ e.t = t BY <1>3 DEF NoCall
<1>5. call' = [call EXCEPT ![c] = e] BY <1>1, <1>2, <1>3 DEF BeginUpdate, Edit
<1>6. WritesFirst(plan) /\ \A i \in 1..Len(plan) : plan[i] \in {"write", "mark"} =>
              t.due = row.due \/ \E j \in 1..Len(plan) : i < j /\ plan[j] = "clear"
  BY <1>2, PlansDue
<1>7. Idle(c) /\ UNCHANGED <<rows, fires, faults>> BY DEF BeginUpdate
<1> QED BY <1>1, <1>4, <1>5, <1>6, <1>7, CallBeginsDue

\* Reorder never clears, and never changes the due date.
LEMMA ReorderBeginsDue ==
  ASSUME EngineInv, DueInv, NEW c \in Caller, NEW k \in Task, NEW in \in MoveBody, BeginReorder(c, k, in),
         UNCHANGED <<dueAt, crashes>>, Overlapped
  PROVE  DueInv'
<1>1. PICK t, row : row = rows[k] /\ t = Moved(rows[k], in) OBVIOUS
<1>2. PICK plan : plan = ReorderPlan(row, t) OBVIOUS
<1>3. PICK e : e = [NoCall EXCEPT !.todo = plan, !.id = k, !.t = t] OBVIOUS
<1>4. e.todo = plan /\ e.id = k /\ e.t = t BY <1>3 DEF NoCall
<1>5. call' = [call EXCEPT ![c] = e] BY <1>1, <1>2, <1>3 DEF BeginReorder, Edit
<1>6. WritesFirst(plan) BY <1>2, PlansDue
<1>7. t.due = row.due
  <2>1. row \in Row BY <1>1 DEF BeginReorder, Exists, EngineInv, TaskInv, TaskTypeOK
  <2> QED BY <1>1, <2>1, MovedDue
<1>8. Idle(c) /\ UNCHANGED <<rows, fires, faults>> BY DEF BeginReorder
<1> QED BY <1>1, <1>4, <1>5, <1>6, <1>7, <1>8, CallBeginsDue

\* A call that writes no copy begins.
LEMMA EntersDue ==
  ASSUME EngineInv, DueInv, NEW c \in Caller, NEW k \in Task, NEW plan, NEW user, Enter(c, k, plan, user),
         Idle(c), UNCHANGED <<rows, fires, dueAt, crashes, faults>>, Overlapped,
         \A i \in 1..Len(plan) : plan[i] \notin {"write", "mark"}, Len(plan) \in Nat
  PROVE  DueInv'
<1>1. PICK e : e = [NoCall EXCEPT !.todo = plan, !.id = k, !.who = user] OBVIOUS
<1>2. e.todo = plan /\ e.id = k BY <1>1 DEF NoCall
<1>3. call' = [call EXCEPT ![c] = e] BY <1>1 DEF Enter
<1>4. WritesFirst(e.todo) BY <1>2 DEF WritesFirst
<1> QED BY <1>2, <1>3, <1>4, CallBeginsDue

\* The plans of the short calls, spelled out.
LEMMA ShortPlans ==
  /\ \A x \in {"archive", "unarchive", "delete", "unassign"} :
       Len(<<x>>) = 1 /\ \A i \in 1..1 : <<x>>[i] \notin {"write", "mark"}
  /\ Len(<<"assign", "reread", "tell">>) = 3
  /\ \A i \in 1..3 : <<"assign", "reread", "tell">>[i] \notin {"write", "mark"}
  /\ Len(<<"insert", "enlist", "announce">>) = 3
  /\ \A i \in 1..3 : <<"insert", "enlist", "announce">>[i] \notin {"write", "mark"}
<1>1. \A i \in 1..3 : i = 1 \/ i = 2 \/ i = 3 OBVIOUS
<1>2. \A x : <<x>>[1] = x /\ Len(<<x>>) = 1 OBVIOUS
<1>3. PICK s : s = <<"assign", "reread", "tell">> OBVIOUS
<1>4. Len(s) = 3 /\ s[1] = "assign" /\ s[2] = "reread" /\ s[3] = "tell" BY <1>3
<1>5. \A i \in 1..3 : s[i] \notin {"write", "mark"} BY <1>1, <1>4
<1>6. PICK u : u = <<"insert", "enlist", "announce">> OBVIOUS
<1>7. Len(u) = 3 /\ u[1] = "insert" /\ u[2] = "enlist" /\ u[3] = "announce" BY <1>6
<1>8. \A i \in 1..3 : u[i] \notin {"write", "mark"} BY <1>1, <1>7
<1> QED BY <1>2, <1>3, <1>4, <1>5, <1>6, <1>7, <1>8

\* AddAssignee, by a client or by a rule.
LEMMA AssignBeginsDue ==
  ASSUME EngineInv, DueInv, NEW c \in Caller, NEW k \in Task, NEW u, BeginAssign(c, k, u),
         UNCHANGED <<dueAt, crashes>>, Overlapped
  PROVE  DueInv'
<1>1. PICK plan : plan = <<"assign", "reread", "tell">> OBVIOUS
<1>2. Len(plan) = 3 /\ \A i \in 1..3 : plan[i] \notin {"write", "mark"} BY <1>1, ShortPlans
<1>3. Enter(c, k, plan, u) /\ Idle(c) /\ UNCHANGED <<rows, fires, faults>> BY <1>1 DEF BeginAssign
<1> QED BY <1>2, <1>3, EntersDue

\* Every request of a client.
LEMMA RequestDue ==
  ASSUME EngineInv, DueInv, NEW c \in Client, Request(c), UNCHANGED <<dueAt, crashes>>, Overlapped
  PROVE  DueInv'
<1>1. c \in Caller BY TaskServiceAssumption
<1>2. ASSUME NEW k \in Task, NEW in, BeginUpdate(c, k, in) PROVE DueInv'
  BY <1>1, <1>2, UpdateBeginsDue
<1>3. ASSUME NEW k \in Task, NEW in \in Moves, BeginReorder(c, k, in) PROVE DueInv'
  BY <1>1, <1>3, ReorderBeginsDue, TaskServiceAssumption
<1>4. ASSUME NEW k \in Task, NEW u, BeginAssign(c, k, u) PROVE DueInv'
  BY <1>1, <1>4, AssignBeginsDue
<1>5. ASSUME NEW k \in Task, NEW x \in {"archive", "unarchive", "delete", "unassign"}, NEW u,
             Enter(c, k, <<x>>, u), Idle(c), UNCHANGED <<rows, fires, faults>>
      PROVE  DueInv'
  <2>1. PICK plan : plan = <<x>> OBVIOUS
  <2>2. Len(plan) = 1 /\ \A i \in 1..1 : plan[i] \notin {"write", "mark"} BY <2>1, ShortPlans
  <2>3. Enter(c, k, plan, u) BY <1>5, <2>1
  <2> QED BY <1>1, <1>5, <2>2, <2>3, EntersDue
<1>6. ASSUME NEW k \in Task, NEW u, BeginArchive(c, k) \/ BeginUnarchive(c, k) \/ BeginDelete(c, k)
                                      \/ BeginUnassign(c, k, u)
      PROVE  DueInv'
  BY <1>5, <1>6 DEF BeginArchive, BeginUnarchive, BeginDelete, BeginUnassign
<1>7. ASSUME NEW d, BeginCreate(c, d) PROVE DueInv'
  <2>1. PICK plan : plan = <<"insert", "enlist", "announce">> OBVIOUS
  <2>2. PICK e : e = [NoCall EXCEPT !.todo = plan, !.t = d] OBVIOUS
  <2>3. e.todo = plan /\ e.id = NULL BY <2>2 DEF NoCall
  <2>4. call' = [call EXCEPT ![c] = e] /\ Idle(c) /\ UNCHANGED <<rows, fires, faults>>
    BY <1>7, <2>1, <2>2 DEF BeginCreate
  <2>5. WritesFirst(e.todo)
    <3>1. Len(plan) = 3 /\ \A i \in 1..3 : plan[i] \notin {"write", "mark"} BY <2>1, ShortPlans
    <3> QED BY <2>3, <3>1 DEF WritesFirst
  <2>6. NULL \notin Task BY TaskServiceAssumption
  <2> QED BY <1>1, <2>3, <2>4, <2>5, <2>6, CallBeginsDue
<1> QED BY <1>2, <1>3, <1>4, <1>6, <1>7
       DEF Request, create, update, reorder, delete, archive, unarchive, addAssignee, removeAssignee

-----------------------------------------------------------------------------
(* A step of a call.                                                        *)

\* Action: rows keep their due date, but for the one the call of c writes its copy to.
RowsKeepDue(c) ==
    \A k \in Task :
      /\ Exists(k)' => Exists(k) \/ rows[k] = Unborn
      /\ Exists(k)' /\ Exists(k) =>
           \/ rows'[k].due = rows[k].due
           \/ call[c].todo[1] \in {"write", "mark"} /\ k = call[c].id /\ rows'[k] = call[c].t

\* Action: dedup rows only go, and those left are of tasks that exist.
FiresKept == fires' \subseteq fires /\ \A p \in fires' : Exists(p[2])'

\* Action: of the task of c no dedup row is left.
FiresCleared(c) == \A p \in fires' : p[2] # call[c].id

\* Action: of the steps of c, the first n are done or skipped.
GoesOn(c, e, n) ==
    LET r == call[c] IN
    /\ e.id = r.id /\ (e.t = r.t \/ e.t = rows'[r.id])
    /\ n \in 1..Len(r.todo) - 1
    /\ Len(e.todo) = Len(r.todo) - n
    /\ \A i \in 1..Len(e.todo) : e.todo[i] = r.todo[i + n]
    /\ \A i \in 1..n : r.todo[i] = "clear" => FiresCleared(c)

\* Action: c returns, and leaves no clear undone that was still needed.
Ends(c, e) ==
    /\ e = NoCall
    /\ \/ Lacks(call[c].todo, "clear")
       \/ FiresCleared(c)
       \/ call[c].todo[1] = "write" /\ rows' = rows

\* A step of a call in flight, whichever steps it does or skips.
LEMMA RunDue ==
  ASSUME EngineInv, DueInv, NEW c \in Caller, ~Idle(c), Recorded, UNCHANGED faults,
         RowsKeepDue(c), FiresKept,
         NEW e, call' = [call EXCEPT ![c] = e], Ends(c, e) \/ \E n : GoesOn(c, e, n)
  PROVE  DueInv'
<1> DEFINE r == call[c]
<1>1. /\ call'[c] = e /\ \A d \in Caller : d # c => call'[d] = call[d]
      /\ NULL \notin Task /\ NoCall.id = NULL
  <2>1. call \in [Caller -> Call] BY DEF EngineInv, TaskInv, TaskTypeOK
  <2>2. NoCall.id = NULL BY DEF NoCall
  <2> QED BY <2>1, <2>2, TaskServiceAssumption
<1>2. Shared' \subseteq overlaps' /\ overlaps \subseteq overlaps' BY DEF Recorded, Overlapped
<1>3. \A p \in fires' : p \in fires /\ dueAt'[p] = dueAt[p] /\ Exists(p[2]) /\ Exists(p[2])'
  BY DEF Recorded, Removed, FiresKept, EngineInv, TaskInv, TaskTypeOK, Pair, DueInv
<1>4. r \in Call /\ \A i \in 1..Len(r.todo) : StepOK(r, i) BY Running DEF EngineInv
<1>5. Len(r.todo) \in Nat BY <1>4, LenProperties DEF Call
<1>6. \A i \in 1..Len(r.todo) : r.todo[i] \in {"write", "mark"} /\ r.id \in Task => rows[r.id] # Unborn
  <2>1. CopyOK(r) BY DEF EngineInv, SeriesInv
  <2> QED BY <1>4, <2>1 DEF StepOK, CopyOK
<1>7. ASSUME faults' = 0, crashes' = 0, NEW k \in Task \ overlaps' PROVE TaskDue(k)'
  <2>1. TaskDue(k) BY <1>2, <1>7 DEF DueInv, Recorded, engineVars
  <2>2. CASE k # r.id
    <3>1. e.id # k BY <1>1, <2>2 DEF Ends, GoesOn
    <3>2. \A d \in Caller : /\ call'[d].id = k <=> call[d].id = k
                            /\ call[d].id = k => call'[d] = call[d]
      BY <1>1, <2>2, <3>1
    <3>3. Exists(k) /\ Exists(k)' => rows'[k].due = rows[k].due BY <2>2 DEF RowsKeepDue
    <3>4. \A d \in Caller : call[d].id = k => CallDue(call[d], k)'
      <4> SUFFICES ASSUME NEW d \in Caller, call[d].id = k PROVE CallDue(call[d], k)' OBVIOUS
      <4>1. CallDue(call[d], k) BY <2>1 DEF TaskDue
      <4>2. call'[d] = call[d] BY <3>2
      <4>3. ASSUME NEW i \in 1..Len(call[d].todo), Exists(k)', call[d].todo[i] \in {"write", "mark"}
            PROVE  Exists(k)
        <5>1. call[d].id \in Task /\ call[d].t \in Row
          <6>1. call[d] \in Call /\ CallOK(call[d]) BY DEF EngineInv, TaskInv, TaskTypeOK, CallsOK
          <6>2. call[d] # NoCall BY <1>1
          <6>3. StepOK(call[d], i) BY <4>3, <6>1, <6>2 DEF CallOK
          <6> QED BY <4>3, <6>3 DEF StepOK
        <5>2. rows[k] # Unborn BY <5>1 DEF EngineInv, SeriesInv, CopyOK
        <5> QED BY <4>3, <5>2 DEF RowsKeepDue
      <4>4. \A p \in fires' : p[2] = k =>
              dueAt'[p] = rows'[k].due \/ (~Lacks(call[d].todo, "clear") /\ call[d].todo[1] # "write")
        BY <1>3, <3>3, <4>1 DEF CallDue
      <4> QED BY <3>3, <4>1, <4>2, <4>3, <4>4 DEF CallDue
    <3>5. (\A d \in Caller : call[d].id # k) => \A p \in fires' : p[2] = k => dueAt'[p] = rows'[k].due
      BY <1>3, <2>1, <3>3 DEF TaskDue
    <3> QED BY <3>2, <3>4, <3>5 DEF TaskDue
  <2>3. CASE k = r.id
    <3>1. \A d \in Caller : call[d].id = k => d = c
      <4>1. k \notin Shared BY <1>2, <1>7 DEF DueInv
      <4> QED BY <2>3, <4>1 DEF Shared
    <3>2. CallDue(r, k) BY <2>1, <2>3 DEF TaskDue
    <3>3. (\E p \in fires' : p[2] = k) => Exists(k) /\ Exists(k)' BY <1>3
    <3>4. Exists(k) /\ Exists(k)' =>
            rows'[k].due = rows[k].due \/ (r.todo[1] \in {"write", "mark"} /\ rows'[k] = r.t)
      BY <2>3 DEF RowsKeepDue
    <3>5. r # NoCall /\ r.todo # <<>> /\ Len(r.todo) > 0
      BY <1>4, <1>5, Running, EmptySeq DEF EngineInv, Idle, Call
    <3>6. CASE Ends(c, e)
      <4>1. \A d \in Caller : call'[d].id # k BY <1>1, <3>1, <3>6 DEF Ends
      <4>2. ASSUME NEW p \in fires', p[2] = k PROVE dueAt'[p] = rows'[k].due
        <5>1. CASE Lacks(r.todo, "clear")
          <6>1. dueAt[p] = rows[k].due BY <1>3, <3>2, <4>2, <5>1 DEF CallDue
          <6>2. r.todo[1] \in {"write", "mark"} => r.t.due = rows[k].due
            BY <1>5, <3>2, <3>3, <3>5, <4>2, <5>1 DEF CallDue, Lacks
          <6> QED BY <1>3, <3>3, <3>4, <4>2, <6>1, <6>2
        <5>2. CASE FiresCleared(c) BY <2>3, <4>2, <5>2 DEF FiresCleared
        <5>3. CASE r.todo[1] = "write" /\ rows' = rows
          BY <1>3, <3>2, <4>2, <5>3 DEF CallDue
        <5> QED BY <3>6, <5>1, <5>2, <5>3 DEF Ends
      <4> QED BY <4>1, <4>2 DEF TaskDue
    <3>7. ASSUME NEW n, GoesOn(c, e, n) PROVE TaskDue(k)'
      <4>1. /\ e.id = k /\ (e.t = r.t \/ e.t = rows'[k]) /\ n \in 1..Len(r.todo) - 1
            /\ Len(e.todo) = Len(r.todo) - n
            /\ \A i \in 1..Len(e.todo) : e.todo[i] = r.todo[i + n]
            /\ \A i \in 1..n : r.todo[i] = "clear" => FiresCleared(c)
        BY <2>3, <3>7 DEF GoesOn
      <4>2. \A d \in Caller : d # c => call'[d].id # k BY <1>1, <3>1
      <4>3. WritesFirst(e.todo) /\ e.todo[1] # "write"
        <5>1. \A i \in 1..Len(e.todo) : i + n \in 2..Len(r.todo) BY <1>5, <4>1
        <5>2. 1 \in 1..Len(e.todo) BY <1>5, <4>1
        <5> QED BY <1>5, <3>2, <4>1, <5>1, <5>2 DEF CallDue, WritesFirst
      <4>4. ASSUME NEW i \in 1..Len(e.todo), Exists(k)', e.todo[i] \in {"write", "mark"}
            PROVE  e.t.due = rows'[k].due \/ \E j \in 1..Len(e.todo) : i < j /\ e.todo[j] = "clear"
        <5>1. i + n \in 1..Len(r.todo) /\ r.todo[i + n] \in {"write", "mark"} BY <1>5, <4>1, <4>4
        <5>2. Exists(k)
          <6>1. rows[k] # Unborn BY <1>6, <2>3, <5>1
          <6> QED BY <4>4, <6>1 DEF RowsKeepDue
        <5>3. CASE r.t.due = rows[k].due BY <3>4, <4>1, <4>4, <5>2, <5>3
        <5>4. ASSUME NEW j \in 1..Len(r.todo), i + n < j, r.todo[j] = "clear"
              PROVE  \E x \in 1..Len(e.todo) : i < x /\ e.todo[x] = "clear"
          <6>1. j - n \in 1..Len(e.todo) /\ i < j - n /\ j - n + n = j BY <1>5, <4>1, <5>4
          <6> QED BY <4>1, <5>4, <6>1
        <5> QED BY <3>2, <5>1, <5>2, <5>3, <5>4 DEF CallDue
      <4>5. ASSUME NEW p \in fires', p[2] = k
            PROVE  dueAt'[p] = rows'[k].due \/ ~Lacks(e.todo, "clear")
        <5>1. \A i \in 1..n : r.todo[i] # "clear" BY <2>3, <4>1, <4>5 DEF FiresCleared
        <5>2. CASE Lacks(r.todo, "clear")
          <6>1. dueAt[p] = rows[k].due BY <1>3, <3>2, <4>5, <5>2 DEF CallDue
          <6>2. r.todo[1] \in {"write", "mark"} => r.t.due = rows[k].due
            BY <1>5, <3>2, <3>3, <3>5, <4>5, <5>2 DEF CallDue, Lacks
          <6> QED BY <1>3, <3>3, <3>4, <4>5, <6>1, <6>2
        <5>3. ASSUME NEW j \in 1..Len(r.todo), r.todo[j] = "clear" PROVE ~Lacks(e.todo, "clear")
          <6>1. j \notin 1..n BY <5>1, <5>3
          <6>2. j - n \in 1..Len(e.todo) /\ j - n + n = j BY <1>5, <4>1, <6>1
          <6> QED BY <4>1, <5>3, <6>2 DEF Lacks
        <5> QED BY <5>2, <5>3 DEF Lacks
      <4>6. CallDue(e, k)' BY <4>3, <4>4, <4>5 DEF CallDue
      <4> QED BY <1>1, <4>1, <4>2, <4>6 DEF TaskDue
    <3> QED BY <3>6, <3>7
  <2> QED BY <2>2, <2>3
<1> QED BY <1>2, <1>3, <1>7 DEF DueInv

\* One step of a call, which may have changed the copy to the row.
LEMMA StepOn ==
  ASSUME EngineInv, NEW c \in Caller, ~Idle(c), NEW q \in Call, q.todo = call[c].todo, q.id = call[c].id,
         q.t = call[c].t \/ q.t = rows'[call[c].id],
         call[c].todo[1] = "clear" => FiresCleared(c)
  PROVE  Ends(c, After(q, 1)) \/ GoesOn(c, After(q, 1), 1)
<1> DEFINE r == call[c]
           s == SubSeq(q.todo, 2, Len(q.todo))
<1>1. r \in Call /\ r.todo # <<>> BY Running DEF EngineInv
<1>2. q.todo \in Seq(Step) /\ Len(q.todo) \in Nat /\ Len(q.todo) > 0 /\ q.todo = r.todo
  BY <1>1, EmptySeq, LenProperties DEF Call
<1>3. CASE Len(q.todo) <= 1
  <2>1. After(q, 1) = NoCall BY <1>3 DEF After
  <2>2. \A i \in 1..Len(r.todo) : i = 1 BY <1>2, <1>3
  <2>3. Lacks(r.todo, "clear") \/ FiresCleared(c) BY <2>2 DEF Lacks
  <2> QED BY <2>1, <2>3 DEF Ends
<1>4. CASE Len(q.todo) > 1
  <2>1. \A i \in 2..Len(q.todo) : q.todo[i] \in Step BY <1>2, ElementOfSeq
  <2>2. /\ Len(s) = Len(q.todo) - 1
        /\ \A i \in 1..(Len(q.todo) - 1) : s[i] = q.todo[i + 1]
    <3>1. /\ SubSeq(q.todo, 2, Len(q.todo)) \in Seq(Step)
          /\ Len(SubSeq(q.todo, 2, Len(q.todo))) =
               IF 2 <= Len(q.todo) THEN Len(q.todo) - 2 + 1 ELSE 0
          /\ \A i \in 1..(Len(q.todo) - 2 + 1) : SubSeq(q.todo, 2, Len(q.todo))[i] = q.todo[2 + i - 1]
      BY <1>2, <2>1, SubSeqProperties
    <3> HIDE DEF s
    <3>2. s \in Seq(Step) /\ Len(s) = IF 2 <= Len(q.todo) THEN Len(q.todo) - 2 + 1 ELSE 0
      BY <3>1 DEF s
    <3>3. \A i \in 1..(Len(q.todo) - 2 + 1) : s[i] = q.todo[2 + i - 1]
      BY <3>1 DEF s
    <3>4. \A i \in 1..(Len(q.todo) - 1) : i \in 1..(Len(q.todo) - 2 + 1) /\ 2 + i - 1 = i + 1
      BY <1>2
    <3> QED BY <1>2, <1>4, <3>2, <3>3, <3>4
  <2>3. PICK e : e = [q EXCEPT !.todo = s] OBVIOUS
  <2>4. After(q, 1) = e BY <1>2, <1>4, <2>3 DEF After
  <2> HIDE DEF s
  <2>5. e.todo = s /\ e.id = q.id /\ e.t = q.t BY <2>3 DEF Call
  <2>6. GoesOn(c, e, 1) BY <1>2, <1>4, <2>2, <2>5 DEF GoesOn
  <2> QED BY <2>4, <2>6
<1> QED BY <1>2, <1>3, <1>4

\* A call that skips the next occurrence.
LEMMA SkipOn ==
  ASSUME EngineInv, NEW c \in Caller, At(c, "spawn")
  PROVE  Ends(c, After(call[c], 3)) \/ GoesOn(c, After(call[c], 3), 3)
<1> DEFINE r == call[c]
           s == SubSeq(r.todo, 4, Len(r.todo))
<1>1. /\ r \in Call /\ r.todo # <<>> /\ r.todo[1] = "spawn" /\ StepOK(r, 1)
  BY Running DEF EngineInv, At
<1>2. r.todo \in Seq(Step) /\ Len(r.todo) \in Nat /\ Len(r.todo) >= 3
      /\ r.todo[1] = "spawn" /\ r.todo[2] = "inherit" /\ r.todo[3] = "announce"
  BY <1>1, EmptySeq, LenProperties DEF Call, StepOK
<1>3. \A i \in 1..3 : r.todo[i] # "clear"
  <2>1. \A i \in 1..3 : i = 1 \/ i = 2 \/ i = 3 OBVIOUS
  <2> QED BY <1>2, <2>1
<1>4. CASE Len(r.todo) <= 3
  <2>1. After(r, 3) = NoCall BY <1>4 DEF After
  <2>2. Lacks(r.todo, "clear") BY <1>2, <1>3, <1>4 DEF Lacks
  <2> QED BY <2>1, <2>2 DEF Ends
<1>5. CASE Len(r.todo) > 3
  <2>1. \A i \in 4..Len(r.todo) : r.todo[i] \in Step BY <1>2, ElementOfSeq
  <2>2. /\ Len(s) = Len(r.todo) - 3
        /\ \A i \in 1..(Len(r.todo) - 3) : s[i] = r.todo[i + 3]
    <3>1. /\ SubSeq(r.todo, 4, Len(r.todo)) \in Seq(Step)
          /\ Len(SubSeq(r.todo, 4, Len(r.todo))) =
               IF 4 <= Len(r.todo) THEN Len(r.todo) - 4 + 1 ELSE 0
          /\ \A i \in 1..(Len(r.todo) - 4 + 1) : SubSeq(r.todo, 4, Len(r.todo))[i] = r.todo[4 + i - 1]
      BY <1>2, <2>1, SubSeqProperties
    <3> HIDE DEF s
    <3>2. s \in Seq(Step) /\ Len(s) = IF 4 <= Len(r.todo) THEN Len(r.todo) - 4 + 1 ELSE 0
      BY <3>1 DEF s
    <3>3. \A i \in 1..(Len(r.todo) - 4 + 1) : s[i] = r.todo[4 + i - 1]
      BY <3>1 DEF s
    <3>4. \A i \in 1..(Len(r.todo) - 3) : i \in 1..(Len(r.todo) - 4 + 1) /\ 4 + i - 1 = i + 3
      BY <1>2
    <3> QED BY <1>2, <1>5, <3>2, <3>3, <3>4
  <2>3. PICK e : e = [r EXCEPT !.todo = s] OBVIOUS
  <2>4. After(r, 3) = e BY <1>2, <1>5, <2>3 DEF After
  <2> HIDE DEF s
  <2>5. e.todo = s /\ e.id = r.id /\ e.t = r.t BY <1>1, <2>3 DEF Call
  <2>6. GoesOn(c, e, 3) BY <1>2, <1>3, <1>5, <2>2, <2>5 DEF GoesOn
  <2> QED BY <2>4, <2>6
<1> QED BY <1>2, <1>4, <1>5

\* Rows and dedup rows as they were.
LEMMA SameDue ==
  ASSUME DueInv, UNCHANGED <<rows, fires>>, NEW c
  PROVE  RowsKeepDue(c) /\ FiresKept
BY DEF RowsKeepDue, FiresKept, DueInv, Exists

\* A step after which the call goes on with the next one.
LEMMA ProceedDue ==
  ASSUME EngineInv, DueInv, NEW c \in Caller, ~Idle(c), Recorded, UNCHANGED faults, Proceed(c),
         RowsKeepDue(c), FiresKept, call[c].todo[1] = "clear" => FiresCleared(c)
  PROVE  DueInv'
<1>1. call[c] \in Call BY DEF EngineInv, TaskInv, TaskTypeOK
<1>2. PICK e : e = After(call[c], 1) OBVIOUS
<1>3. call' = [call EXCEPT ![c] = e] BY <1>2 DEF Proceed, EngineInv, TaskInv, TaskTypeOK
<1>4. Ends(c, e) \/ GoesOn(c, e, 1) BY <1>1, <1>2, StepOn
<1> QED BY <1>3, <1>4, RunDue

\* A step that sets no due date of a row that stays, but maybe that of its copy.
LEMMA RowStepDue ==
  ASSUME EngineInv, EngineInv', DueInv, Recorded, NEW c \in Caller,
         Write(c) \/ Place(c) \/ Mark(c) \/ SetArchived(c)
  PROVE  DueInv'
<1> DEFINE r == call[c]
<1>1. ~Idle(c) /\ UNCHANGED <<fires, faults>> BY DEF Write, Place, Mark, SetArchived, At
<1>2. r.todo[1] \in {"write", "place", "mark", "archive", "unarchive"} /\ r.todo[1] = Head(r.todo)
  BY <1>1, Running DEF EngineInv, Write, Place, Mark, SetArchived, At
<1>3. rows \in [Task -> Row \cup {Unborn, Deleted}] /\ Unborn \notin Row /\ Deleted \notin Row
  BY TaskServiceAssumption DEF EngineInv, TaskInv, TaskTypeOK
<1>4. RowsKeepDue(c) /\ \A k \in Task : Exists(k) => Exists(k)'
  <2>1. CASE Write(c) \/ Mark(c)
    <3>1. r.t \in Row BY <1>1, <1>2, <2>1, Running DEF EngineInv, StepOK, Write, Mark, At
    <3>2. (rows' = IF Exists(r.id) THEN [rows EXCEPT ![r.id] = r.t] ELSE rows) \/ rows' = rows
      BY <2>1 DEF Write, Mark, WriteRow
    <3>3. r.todo[1] \in {"write", "mark"} BY <1>2, <2>1 DEF Write, Mark, At
    <3> QED BY <1>3, <3>1, <3>2, <3>3 DEF RowsKeepDue, Exists
  <2>2. CASE Place(c)
    <3>1. PICK x, y : rows' = IF Exists(r.id) THEN [rows EXCEPT ![r.id].txt = x, ![r.id].sid = y] ELSE rows
      BY <2>2 DEF Place
    <3>2. ASSUME NEW k \in Task, Exists(k)
          PROVE  rows'[k] # Unborn /\ rows'[k] # Deleted /\ rows'[k].due = rows[k].due
      <4>1. PICK row \in Row : row = rows[k] BY <1>3, <3>2 DEF Exists
      <4>2. PICK row2 : row2 = [row EXCEPT !.txt = x, !.sid = y] OBVIOUS
      <4>3. row2.due = row.due BY <4>2 DEF Row
      <4>4. rows'[k] = row \/ rows'[k] = row2 BY <1>3, <3>1, <4>1, <4>2
      <4>5. rows'[k] = row \/ (k = r.id /\ rows'[k] = row2) BY <1>3, <3>1, <4>1, <4>2
      <4>6. rows'[k] \in Row
        <5>1. rows' \in [Task -> Row \cup {Unborn, Deleted}] BY DEF EngineInv, TaskInv, TaskTypeOK
        <5>2. row2.done = row.done /\ DOMAIN row2 = DOMAIN row BY <4>2 DEF Row
        <5>3. r.t \in Row BY <1>1, <1>2, <2>2, Running DEF EngineInv, StepOK, Place, At
        <5>4. CASE k = r.id
          <6>1. rows'[k] = [[row EXCEPT !.txt = r.t.txt] EXCEPT !.sid = r.t.sid]
            BY <1>3, <2>2, <3>2, <4>1, <5>4 DEF Place
          <6> QED BY <5>3, <6>1 DEF Row
        <5>5. CASE k # r.id BY <1>3, <3>1, <4>1, <5>5
        <5> QED BY <5>4, <5>5
      <4> QED BY <1>3, <4>1, <4>3, <4>4, <4>6
    <3>3. ASSUME NEW k \in Task, ~Exists(k) PROVE rows'[k] = rows[k]
      BY <1>3, <3>1, <3>3
    <3> QED BY <3>2, <3>3 DEF RowsKeepDue, Exists
  <2>3. CASE SetArchived(c)
    <3>1. PICK x \in BOOLEAN : rows' = IF Exists(r.id) THEN [rows EXCEPT ![r.id].arch = x] ELSE rows
            <4>1. CASE At(c, "archive")
        <5>1. rows' = IF Exists(r.id) THEN [rows EXCEPT ![r.id].arch = TRUE] ELSE rows
          BY ZenonT(30), <2>3, <4>1 DEF SetArchived
        <5> QED BY <5>1
      <4>2. CASE ~At(c, "archive")
        <5>a. At(c, "archive") \in BOOLEAN BY DEF At
        <5>b. At(c, "archive") = FALSE BY <4>2, <5>a
        <5>1. rows' = IF Exists(r.id) THEN [rows EXCEPT ![r.id].arch = FALSE] ELSE rows
          BY ZenonT(30), <2>3, <5>b DEF SetArchived
        <5> QED BY <5>1
      <4> QED BY <4>1, <4>2
    <3>2. ASSUME NEW k \in Task, Exists(k)
          PROVE  rows'[k] # Unborn /\ rows'[k] # Deleted /\ rows'[k].due = rows[k].due
      <4>1. PICK row \in Row : row = rows[k] BY <1>3, <3>2 DEF Exists
      <4>2. PICK row2 : row2 = [row EXCEPT !.arch = x] OBVIOUS
      <4>3. row2.due = row.due /\ row2 \in Row BY <3>1, <4>2 DEF Row
      <4>4. rows'[k] = row \/ rows'[k] = row2 BY <1>3, <3>1, <4>1, <4>2
      <4> QED BY <1>3, <4>1, <4>3, <4>4
    <3>3. ASSUME NEW k \in Task, ~Exists(k) PROVE rows'[k] = rows[k]
      BY <1>3, <3>1, <3>3
    <3> QED BY <3>2, <3>3 DEF RowsKeepDue, Exists
  <2> QED BY <2>1, <2>2, <2>3
<1>5. FiresKept
  BY <1>1, <1>4 DEF FiresKept, DueInv, EngineInv, TaskInv, TaskTypeOK
<1>6. CASE Proceed(c) BY <1>1, <1>2, <1>4, <1>5, <1>6, ProceedDue
<1>7. CASE Write(c) /\ Return(c) /\ UNCHANGED rows
  <2>1. Ends(c, NoCall) BY <1>2, <1>7 DEF Ends, Write, At
  <2>2. call' = [call EXCEPT ![c] = NoCall] BY <1>7 DEF Return
  <2> QED BY <1>1, <1>4, <1>5, <2>1, <2>2, RunDue
<1> QED BY <1>6, <1>7 DEF Write, Place, Mark, SetArchived

\* The task is deleted, its dedup rows with it.
LEMMA DeleteDue ==
  ASSUME EngineInv, DueInv, Recorded, NEW c \in Caller, Delete(c) PROVE DueInv'
<1>0. PICK k : k = call[c].id OBVIOUS
<1>1. ~Idle(c) /\ UNCHANGED faults /\ Proceed(c) BY DEF Delete, At
<1>2. rows \in [Task -> Row \cup {Unborn, Deleted}] /\ Unborn \notin Row /\ Deleted \notin Row
  BY TaskServiceAssumption DEF EngineInv, TaskInv, TaskTypeOK
<1>3. rows' = [j \in Task |-> IF j = k THEN Deleted
                             ELSE IF Exists(j) /\ rows[j].root = k
                                  THEN [rows[j] EXCEPT !.root = NULL] ELSE rows[j]]
  BY <1>0 DEF Delete
<1>4. ASSUME NEW j \in Task, j # k, Exists(j)
      PROVE  rows'[j] # Unborn /\ rows'[j] # Deleted /\ rows'[j].due = rows[j].due
  <2>1. PICK row \in Row : row = rows[j] BY <1>2, <1>4 DEF Exists
  <2>2. PICK row2 : row2 = [row EXCEPT !.root = NULL] OBVIOUS
  <2>3. row2.due = row.due /\ row2 \in Row BY <2>2 DEF Row
  <2>4. rows'[j] = row \/ rows'[j] = row2 BY <1>4, <1>3, <2>1, <2>2
  <2> QED BY <1>2, <2>1, <2>3, <2>4
<1>5. ASSUME NEW j \in Task, ~Exists(j) PROVE rows'[j] = rows[j] \/ ~Exists(j)'
  <2>1. CASE j = k
    <3>1. rows'[j] = Deleted BY <1>3, <2>1
    <3> QED BY <3>1 DEF Exists
  <2>2. CASE j # k BY <1>3, <1>5, <2>2
  <2> QED BY <2>1, <2>2
<1>6. k \in Task => ~Exists(k)'
  <2>1. k \in Task => rows'[k] = Deleted BY <1>3
  <2> QED BY <2>1 DEF Exists
<1>7. RowsKeepDue(c) BY <1>0, <1>4, <1>5, <1>6 DEF RowsKeepDue, Exists
<1>8. FiresKept
  <2>1. \A p \in fires' : p \in fires /\ p[2] # k /\ p[2] \in Task /\ Exists(p[2])
    BY <1>0 DEF Delete, DueInv, EngineInv, TaskInv, TaskTypeOK
  <2> QED BY <1>4, <2>1 DEF FiresKept, Exists
<1>9. FiresCleared(c) BY DEF Delete, FiresCleared
<1> QED BY <1>1, <1>7, <1>8, <1>9, ProceedDue

\* A row is born: no dedup row is of it yet.
LEMMA BornDue ==
  ASSUME EngineInv, DueInv, Recorded, NEW c \in Caller, ~Idle(c), UNCHANGED <<fires, faults>>,
         call[c].todo[1] # "clear", NEW t \in Row, Born(c, t)
  PROVE  DueInv'
<1> DEFINE r == call[c]
<1>1. PICK k \in FreeKeys : /\ rows' = [rows EXCEPT ![k] = t]
                           /\ call' = [call EXCEPT ![c] = After([@ EXCEPT !.kid = k, !.born = t], 1)]
  BY DEF Born
<1>2. k \in Task /\ rows[k] = Unborn BY DEF FreeKeys
<1>3. rows \in [Task -> Row \cup {Unborn, Deleted}] /\ Unborn \notin Row /\ Deleted \notin Row
  BY TaskServiceAssumption DEF EngineInv, TaskInv, TaskTypeOK
<1>4. RowsKeepDue(c) /\ FiresKept
  BY <1>1, <1>2, <1>3 DEF RowsKeepDue, FiresKept, Exists, DueInv, EngineInv, TaskInv, TaskTypeOK
<1>5. PICK q : q = [r EXCEPT !.kid = k, !.born = t] OBVIOUS
<1>6. r \in Call BY DEF EngineInv, TaskInv, TaskTypeOK
<1>7. q \in Call /\ q.todo = r.todo /\ q.id = r.id /\ q.t = r.t BY <1>2, <1>5, <1>6 DEF Call
<1>8. PICK e : e = After(q, 1) OBVIOUS
<1>9. call' = [call EXCEPT ![c] = e]
  BY <1>1, <1>5, <1>8 DEF EngineInv, TaskInv, TaskTypeOK
<1>10. Ends(c, e) \/ GoesOn(c, e, 1) BY <1>7, <1>8, StepOn
<1> QED BY <1>4, <1>9, <1>10, RunDue

\* The insertion of a task, and of the next occurrence.
LEMMA InsertDue ==
  ASSUME EngineInv, DueInv, Recorded, NEW c \in Caller, Insert(c) \/ Spawn(c) PROVE DueInv'
<1> DEFINE r == call[c]
<1>1. ~Idle(c) /\ UNCHANGED <<fires, faults>> BY DEF Insert, Spawn, At
<1>2. r.todo[1] = Head(r.todo) /\ StepOK(r, 1) /\ r \in Call /\ r.todo # <<>>
  BY <1>1, Running DEF EngineInv
<1>3. 1 \in 1..Len(r.todo) BY <1>2, EmptySeq, LenProperties DEF Call
<1>4. CASE Insert(c)
  <2>1. r.todo[1] = "insert" /\ r.t \in Row /\ r.id = NULL BY <1>2, <1>4 DEF Insert, At, StepOK
  <2>2. CASE Born(c, r.t) BY <1>1, <2>1, <2>2, BornDue
  <2>3. CASE Return(c) /\ UNCHANGED rows
    <3>1. FiresCleared(c)
      BY <1>1, <2>1, TaskServiceAssumption DEF FiresCleared, EngineInv, TaskInv, TaskTypeOK
    <3>2. call' = [call EXCEPT ![c] = NoCall] /\ Ends(c, NoCall) BY <2>3, <3>1 DEF Return, Ends
    <3>3. RowsKeepDue(c) /\ FiresKept BY <1>1, <2>3, SameDue
    <3> QED BY <1>1, <3>2, <3>3, RunDue
  <2> QED BY <1>4, <2>2, <2>3 DEF Insert
<1>5. CASE Spawn(c)
  <2>1. r.todo[1] = "spawn" /\ r.t \in Row /\ r.id \in Task BY <1>2, <1>5 DEF Spawn, At, StepOK
  <2>2. ASSUME NEW date \in NextDates(r.t.due), Born(c, Occurrence(r.id, r.t, date)) PROVE DueInv'
    <3>1. Occurrence(r.id, r.t, date) \in Row BY <2>1, OccurrenceRow DEF NextDates
    <3> QED BY <1>1, <2>1, <2>2, <3>1, BornDue
  <2>3. CASE call' = [call EXCEPT ![c] = After(@, 3)] /\ UNCHANGED rows
    <3>1. PICK e : e = After(r, 3) OBVIOUS
    <3>2. call' = [call EXCEPT ![c] = e] BY <2>3, <3>1 DEF EngineInv, TaskInv, TaskTypeOK
    <3>3. Ends(c, e) \/ GoesOn(c, e, 3) BY <1>5, <3>1, SkipOn DEF Spawn
    <3>4. RowsKeepDue(c) /\ FiresKept BY <1>1, <2>3, SameDue
    <3> QED BY <1>1, <3>2, <3>3, <3>4, RunDue
  <2> QED BY <1>5, <2>2, <2>3 DEF Spawn
<1> QED BY <1>4, <1>5

\* Steps that write no row of a task.
LEMMA SideStepDue ==
  ASSUME EngineInv, DueInv, Recorded, NEW c \in Caller,
         Inherit(c) \/ Enlist(c) \/ Assign(c) \/ Unassign(c) \/ Reread(c) \/ ClearTaskFires(c) \/ Emit(c)
  PROVE  DueInv'
<1> DEFINE r == call[c]
<1>1. ~Idle(c) /\ UNCHANGED <<rows, faults>>
  BY DEF Inherit, Enlist, Assign, Unassign, Reread, ClearTaskFires, Emit, At
<1>2. r.todo[1] = Head(r.todo) /\ StepOK(r, 1) /\ r \in Call /\ r.todo # <<>>
  BY <1>1, Running DEF EngineInv
<1>3. FiresKept
  BY <1>1 DEF FiresKept, DueInv, Exists, Inherit, Enlist, Assign, Unassign, Reread, ClearTaskFires, Emit
<1>4. RowsKeepDue(c) BY <1>1 DEF RowsKeepDue, Exists
<1>5. CASE ClearTaskFires(c)
  <2>1. FiresCleared(c) BY <1>5 DEF ClearTaskFires, FiresCleared
  <2>2. Proceed(c) BY <1>5 DEF ClearTaskFires
  <2> QED BY <1>1, <1>3, <1>4, <2>1, <2>2, ProceedDue
<1>6. CASE (Inherit(c) \/ Enlist(c) \/ Assign(c) \/ Unassign(c) \/ Emit(c)) /\ Proceed(c)
  <2>1. r.todo[1] # "clear" BY <1>2, <1>6 DEF Inherit, Enlist, Assign, Unassign, Emit, At
  <2> QED BY <1>1, <1>3, <1>4, <1>6, <2>1, ProceedDue
<1>7. CASE (Assign(c) \/ Reread(c)) /\ Return(c) /\ ~Exists(r.id) /\ UNCHANGED fires
  <2>1. FiresCleared(c) BY <1>7 DEF FiresCleared, DueInv
  <2>2. call' = [call EXCEPT ![c] = NoCall] /\ Ends(c, NoCall) BY <1>7, <2>1 DEF Return, Ends
  <2> QED BY <1>1, <1>3, <1>4, <2>2, RunDue
<1>8. CASE Reread(c) /\ Exists(r.id) /\ call' = [call EXCEPT ![c] = After([@ EXCEPT !.t = rows[r.id]], 1)]
  <2>1. r.todo[1] = "reread" /\ r.id \in Task
    <3>1. 1 \in 1..Len(r.todo) BY <1>2, EmptySeq, LenProperties DEF Call
    <3> QED BY <1>2, <1>8 DEF Reread, At, StepOK
  <2>2. PICK row \in Row : row = rows[r.id]
    BY <1>8, <2>1 DEF Exists, EngineInv, TaskInv, TaskTypeOK
  <2>3. PICK q : q = [r EXCEPT !.t = row] OBVIOUS
  <2>4. q \in Call /\ q.todo = r.todo /\ q.id = r.id /\ q.t = rows'[r.id]
    BY <1>1, <1>2, <2>2, <2>3 DEF Call
  <2>5. PICK e : e = After(q, 1) OBVIOUS
  <2>6. call' = [call EXCEPT ![c] = e]
    BY <1>8, <2>2, <2>3, <2>5 DEF EngineInv, TaskInv, TaskTypeOK
  <2>7. Ends(c, e) \/ GoesOn(c, e, 1) BY <1>1, <2>1, <2>4, <2>5, StepOn
  <2> QED BY <1>1, <1>3, <1>4, <2>6, <2>7, RunDue
<1> QED BY <1>5, <1>6, <1>7, <1>8
       DEF Inherit, Enlist, Assign, Unassign, Reread, ClearTaskFires, Emit

-----------------------------------------------------------------------------

\* Every step of the service.
LEMMA ServiceDue == ASSUME EngineInv, EngineInv', DueInv, Service PROVE DueInv'
<1>1. Recorded BY DEF Service
<1>2. ASSUME NEW c \in Client, Request(c) PROVE DueInv'
  <2>1. UNCHANGED fires
    BY <1>2 DEF Request, create, update, reorder, delete, archive, unarchive, addAssignee,
                removeAssignee, BeginUpdate, BeginReorder, BeginArchive, BeginUnarchive, BeginDelete,
                BeginAssign, BeginUnassign, BeginCreate
  <2>2. dueAt' = [p \in Pair |-> dueAt[p]] BY <1>1, <2>1 DEF Recorded, Removed
  <2>3. dueAt' = dueAt BY <2>2 DEF EngineInv, EngineTypeOK
  <2>4. Overlapped /\ UNCHANGED crashes BY <1>1 DEF Recorded, engineVars
  <2> QED BY <1>2, <2>3, <2>4, RequestDue
<1>3. ASSUME NEW c \in Caller, Run(c) PROVE DueInv'
  BY <1>1, <1>3, RowStepDue, DeleteDue, InsertDue, SideStepDue DEF Run
<1>4. ASSUME NEW c \in Caller, Fail(c) PROVE DueInv'
  <2>1. faults' # 0 /\ UNCHANGED <<rows, fires>>
    BY <1>4, TaskServiceAssumption DEF Fail, EngineInv, TaskInv, TaskTypeOK
  <2>2. Shared' \subseteq overlaps' BY <1>1 DEF Recorded, Overlapped
  <2> QED BY <2>1, <2>2 DEF DueInv, Exists
<1> QED BY <1>2, <1>3, <1>4 DEF Service, TaskNext

\* Steps of the engine that call nothing and touch no dedup row.
LEMMA DueStutters ==
  ASSUME DueInv, UNCHANGED <<rows, fires, call, faults, crashes, dueAt, overlaps>> PROVE DueInv'
BY DEF DueInv, TaskDue, CallDue, Shared, Exists

\* An action of a rule enters the service.
LEMMA ActDue == ASSUME EngineInv, DueInv, NEW g \in Goroutine, Act(g) PROVE DueInv'
<1>1. g \in Caller /\ UNCHANGED <<crashes, dueAt>> /\ Overlapped BY EngineAssumption DEF Act
<1>2. job[g].ev.id \in Task
  <2>1. job[g].ev \in Event BY DEF Act, Busy, EngineInv, JobsOK
  <2> QED BY <2>1 DEF Event
<1>3. PICK k, act :
        /\ k \in Task
        /\ \/ BeginUpdate(g, k, ChangeStatus(act.sid))
           \/ BeginAssign(g, k, act.user)
           \/ UNCHANGED taskVars
  BY <1>2 DEF Act
<1>4. CASE UNCHANGED taskVars
  <2>1. Shared' = Shared BY <1>4 DEF Shared, taskVars
  <2>2. overlaps' = overlaps BY <1>1, <2>1 DEF Overlapped, DueInv
  <2> QED BY <1>1, <1>4, <2>2, DueStutters DEF taskVars
<1> QED BY <1>1, <1>3, <1>4, UpdateBeginsDue, AssignBeginsDue

\* The sweep inserts dedup rows with the due date the row has.
LEMMA ScanDue == ASSUME EngineInv, DueInv, Scan PROVE DueInv'
<1> DEFINE claimed == {p \in Pair : DueSoon(p[1], p[2])}
<1>1. /\ fires' = fires \cup claimed
      /\ dueAt' = [p \in Pair |-> IF p \in claimed THEN rows[p[2]].due ELSE dueAt[p]]
      /\ UNCHANGED <<rows, call, faults, crashes, overlaps>>
  BY DEF Scan
<1>2. \A p \in claimed : p \in Pair /\ Exists(p[2]) BY DEF DueSoon
<1>3. fires \subseteq Pair BY DEF EngineInv, TaskInv, TaskTypeOK, Pair
<1> HIDE DEF claimed
<1>4. \A p \in fires' : dueAt'[p] = rows[p[2]].due \/ (p \in fires /\ dueAt'[p] = dueAt[p])
  BY <1>1, <1>2, <1>3
<1>5. \A p \in fires' : Exists(p[2])' BY <1>1, <1>2 DEF DueInv, Exists
<1>6. Shared' \subseteq overlaps' BY <1>1 DEF Shared, DueInv
<1>7. ASSUME NEW k \in Task, TaskDue(k) PROVE TaskDue(k)'
  <2>1. ASSUME NEW c \in Caller, call[c].id = k PROVE CallDue(call[c], k)'
    <3>1. CallDue(call[c], k) BY <1>7, <2>1 DEF TaskDue
    <3> QED BY <1>1, <1>4, <3>1 DEF CallDue, Exists
  <2>2. (\A c \in Caller : call[c].id # k) => \A p \in fires' : p[2] = k => dueAt'[p] = rows'[k].due
    BY <1>1, <1>4, <1>7 DEF TaskDue
  <2> QED BY <1>1, <2>1, <2>2 DEF TaskDue
<1> QED BY <1>1, <1>5, <1>6, <1>7 DEF DueInv

\* Every step keeps the invariant.
LEMMA DueStep == ASSUME EngineInv, EngineInv', DueInv, [Next]_vars PROVE DueInv'
<1>1. CASE Service BY <1>1, ServiceDue
<1>2. CASE Scan BY <1>2, ScanDue
<1>3. ASSUME NEW g \in Goroutine, Act(g) PROVE DueInv' BY <1>3, ActDue
<1>4. CASE Crash
  <2>1. crashes' # 0 /\ UNCHANGED <<rows, fires>>
    BY <1>4 DEF Crash, EngineInv, EngineTypeOK
  <2>2. Shared' = {}
    <3>1. \A c \in Caller : call'[c] = NoCall BY <1>4 DEF Crash
    <3>2. NoCall.id \notin Task BY TaskServiceAssumption DEF NoCall
    <3> QED BY <3>1, <3>2 DEF Shared
  <2> QED BY <2>1, <2>2 DEF DueInv, Exists
<1>5. CASE Take BY <1>5, DueStutters DEF Take, historyVars
<1>6. CASE NextRule BY <1>6, DueStutters DEF NextRule, historyVars, taskVars
<1>7. ASSUME NEW g \in Goroutine, Finish(g) PROVE DueInv'
  BY <1>7, DueStutters DEF Finish, historyVars, taskVars
<1>8. CASE Fire BY <1>8, DueStutters DEF Fire, taskVars
<1>9. ASSUME NEW a \in Switchable, Toggle(a) PROVE DueInv'
  BY <1>9, DueStutters DEF Toggle, historyVars, taskVars
<1>10. CASE Tick BY <1>10, DueStutters DEF Tick, historyVars, taskVars
<1>11. CASE UNCHANGED vars BY <1>11, DueStutters DEF vars, historyVars, taskVars, engineVars
<1> QED BY <1>1, <1>2, <1>3, <1>4, <1>5, <1>6, <1>7, <1>8, <1>9, <1>10, <1>11 DEF Next

\* On a task no two calls overlapped on, a dedup row silences only the due date it was
\* inserted for: Update clears the rows when it changes the date (service/task, Update).
\* A failed statement or a restart between the two may leave them.
THEOREM DedupMatchesDueHolds == Spec => []DedupMatchesDue
<1>1. Init => DueInv
  <2> SUFFICES ASSUME Init PROVE DueInv OBVIOUS
  <2>1. fires = {} /\ \A c \in Caller : call[c] = NoCall BY DEF Init, TaskInit
  <2>2. NoCall.id \notin Task BY TaskServiceAssumption DEF NoCall
  <2> QED BY <2>1, <2>2 DEF DueInv, Shared, TaskDue
<1>2. EngineInv /\ DueInv => DedupMatchesDue
  BY DEF EngineInv, TaskInv, TaskTypeOK, DueInv, TaskDue, DedupMatchesDue
<1>3. EngineInv /\ EngineInv' /\ DueInv /\ [Next]_vars => DueInv' BY DueStep
<1> QED BY <1>1, <1>2, <1>3, EngineInvInit, EngineInvStep, PTL DEF Spec
=============================================================================
