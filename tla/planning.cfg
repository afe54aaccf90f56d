SPECIFICATION PlanningSpec
CONSTANTS
  NULL = NULL
  GONE = GONE
  NoEdge = NoEdge
  NONE = NONE
  LOST = LOST
  NIL = NIL
  Users = {u1}
  Entries = {i1, i2}
  TimerCalls = {i1, i2}
  MaxTime = 2
  GivenTimes = {NULL, 1}
  GivenDurations = {NULL}
  DepTasks = {d1, d2, d3, d4}
  DepCalls = {i1, i2}
  MaxDepth = 2
  SprintIds = {i1, i2, s3}
  Spare = s3
  SprintTasks = {t1}
  SprintCalls = {i1, i2}
  LastDay = 1
  Goals = {i1, i2}
  Targets = {i1, i2}
  Milestones = {m1}
  Portfolios = {p1}
  Spaces = {sp1}
  Lists = {l1}
  Tasks = {k1}
  Numbers <- Amounts
  ProgressCalls = {i1, i2}
  Whole = 4
SYMMETRY Interchangeable
INVARIANTS SingleTimer NoSecondTwice NoShortCycle ClosedIsEmpty RollsForward CompleteWhenReached
PROPERTIES StopIsFinal DeletionFollowsRequests
CHECK_DEADLOCK FALSE
