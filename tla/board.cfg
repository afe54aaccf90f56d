SPECIFICATION FairSpec
CONSTANTS
  k1 = k1  k2 = k2  k3 = k3  u1 = u1  s1 = s1  s2 = s2
  a1 = a1  a2 = a2  a3 = a3  c1 = c1  c2 = c2
  NULL = NULL  Unborn = Unborn  Deleted = Deleted  Keep = Keep
  Worker = Worker  Scanner = Scanner
  Task = {k1}
  User = {u1}
  Caller = {c1, Worker, Scanner}
  Client = {c1}
  Status = {s1, s2}
  DoneStatus = {s2}
  Automation = {a1, a2, a3}
  Rule <- BoardRule
  Age <- Ages
  Switchable = {}
  MaxDue = 2
  Edits <- BoardEdits
  Moves <- BoardMoves
  Verbs = {"update", "reorder"}
  Drafts = {}
  FirstRows <- OneRow
  QueueCap = 1
  MaxFaults = 1
  MaxNow = 0
  MaxCrashes = 0
PROPERTIES CallsReturn EngineQuiesces
CHECK_DEADLOCK FALSE
