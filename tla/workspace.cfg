SPECIFICATION WorkspaceSpec
CONSTANTS
  NULL = NULL
  OUTSIDE = OUTSIDE
  Users = {u1, u2}
  Workspaces = {w1, w2}
  Spaces = {s1}
  CustomRoles = {r1}
  Texts = {"admin", "lead"}
  Names = {"lead"}
  Ranks = {3}
  GrantSets = {{}, {"role.manage"}, {"member.invite"}}
  Requests = {i1, i2}
  NOBODY = NOBODY
  Accounts = {a1, a2}
  Subjects = {p1}
  Enrolling = {a1}
  Secrets = {1, 2}
  Batches = {1, 2}
  Tokens = {1, 2}
  LoginCalls = {i1, i2}
  NOCOMMENT = NOCOMMENT
  CommentIds = {1, 2, 3}
  CommentTasks = {t1, t2}
  Authors = {u1}
  Emojis = {e1}
  Bodies = {b1, b2}
  CommentCalls = {c1}
  Touched = {2}
  NOCHAT = NOCHAT
  UNKNOWN = UNKNOWN
  EMPTY = EMPTY
  ChannelIds = {h1}
  MessageIds = {1, 2}
  ChatUsers = {u1}
  ChatSpaces = {s1}
  ChatBodies = {b1, b2}
  ChatCalls = {i1, i2}
  Privacies = {FALSE}
  NOROW = NOROW
  HomeSpaces = {s1}
  Folders = {d1}
  ContentLists = {l1, l2}
  Forms = {f1}
  ContentTasks = {t1, t2}
  Uploads = {k1, k2}
  MaxSubmissions = 2
  ContentCalls = {i1, i2}
  NOITEM = NOITEM
  KEEP = KEEP
  BLURRED = BLURRED
  BLANK = BLANK
  UNTITLED = UNTITLED
  Items = {1, 2, 3, 4}
  Owners = {u1}
  Words = {BLANK, n1}
  MaxUpdates = 2
  Edited = {1}
  Single = {"whiteboard", "view", "field", "credential", "template"}
  Double = {"doc", "dashboard", "widget", "status", "search", "tag"}
  TaggedTasks = {t1}
  EditCalls = {i1, i2}
SYMMETRY Interchangeable
INVARIANTS
  GrantsOfOneCall ChecksAgree RoleFitsWorkspace
  CodeUsedOnce LastBatchOnly CodesNeedSecret
  OneLevelThreads RoomSeesRow
  SubmissionsCounted RowHasFile
  FieldsKept VersionCounts
PROPERTIES SubjectKeepsUser FrozenOnceDeleted
CHECK_DEADLOCK FALSE
