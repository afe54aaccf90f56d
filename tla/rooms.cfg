SPECIFICATION Spec
CONSTANTS
  c1 = c1  c2 = c2  r1 = r1  mine = mine  e1 = e1  n1 = n1  n2 = n2  p1 = p1
  NULL = NULL  Hello = Hello  Worker = Worker
  Conn = {c1}
  Room = {r1, mine}
  Personal <- PersonalRooms
  Publisher = {p1, Worker}
  Event = {n1, e1}
  Notice = {n1}
  RoomOf <- EventRooms
  OpsCap = 2
  PublishCap = 1
  SendCap = 1
  InCap = 1
  MaxStops = 1
INVARIANTS TypeOK LastWordKept
CHECK_DEADLOCK FALSE
