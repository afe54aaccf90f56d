SPECIFICATION FairSpec
CONSTANTS
  s1 = s1  s2 = s2  s3 = s3  r1 = r1  r2 = r2  page = page  toast = toast
  t1 = t1  t2 = t2  t3 = t3
  NULL = NULL
  Socket = {s1, s2, s3}
  Room = {r1, r2}
  Component = {page, toast}
  RoomsOf <- ScreenRooms
  Token = {t1, t2, t3}
  MaxLogins = 2
  MaxTimers = 2
INVARIANTS SocketTypeOK RoomsFollowScreen
PROPERTIES Reconnects
CHECK_DEADLOCK FALSE
