SPECIFICATION Spec
CONSTANTS
  k1 = k1  k2 = k2  k3 = k3  u1 = u1  s1 = s1  s2 = s2
  a1 = a1  a2 = a2  a3 = a3  c1 = c1  c2 = c2
  NULL = NULL  Unborn = Unborn  Deleted = Deleted  Keep = Keep
  Worker = Worker  Scanner = Scanner
  Task = {k1}
  User = {}
  Caller = {c1, Worker, Scanner}
  Client = {c1}
  Status = {s1, s2}
  DoneStatus = {s2}
  Automation = {a1, a2}
  Rule <- DueRule
  Age <- Ages
  Switchable = {a1}
  MaxDue = 2
  Edits <- DueEdits
  Moves <- DueMoves
  Verbs = {"update", "reorder", "archive", "unarchive", "delete"}
  Drafts = {}
  FirstRows <- DueRows
  QueueCap = 0
  MaxFaults = 0
  MaxNow = 1
  MaxCrashes = 1
INVARIANTS NoFiringLost
CHECK_DEADLOCK FALSE
