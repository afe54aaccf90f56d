SPECIFICATION Spec
CONSTANTS
  k1 = k1  k2 = k2  k3 = k3  u1 = u1  s1 = s1  s2 = s2
  a1 = a1  a2 = a2  a3 = a3  c1 = c1  c2 = c2
  NULL = NULL  Unborn = Unborn  Deleted = Deleted  Keep = Keep
  Worker = Worker  Scanner = Scanner
  Task = {k1, k2, k3}
  User = {}
  Caller = {c1, c2, Worker, Scanner}
  Client = {c1, c2}
  Status = {s2}
  DoneStatus = {s2}
  Automation = {}
  Rule <- NoRules
  Age <- NoRules
  Switchable = {}
  MaxDue = 1
  Edits <- SeriesEdits
  Moves = {}
  Verbs = {"update", "delete", "create"}
  Drafts <- SeriesDrafts
  FirstRows <- BoardRows
  QueueCap = 0
  MaxFaults = 0
  MaxNow = 0
  MaxCrashes = 0
INVARIANTS SeriesFlat
CHECK_DEADLOCK FALSE
