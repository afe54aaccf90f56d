SPECIFICATION FairSpec
CONSTANTS
  c1 = c1  c2 = c2  r1 = r1  mine = mine  e1 = e1  n1 = n1  n2 = n2  p1 = p1
  NULL = NULL  Hello = Hello  Worker = Worker
  Conn = {c1}
  Room = {mine}
  Personal <- PersonalRooms
  Publisher = {p1, Worker}
  Event = {n1, n2}
  Notice = {n1, n2}
  RoomOf <- EventRooms
  OpsCap = 1
  PublishCap = 1
  SendCap = 1
  InCap = 1
  MaxStops = 0
INVARIANTS NoticesKept ToastsAreStored
PROPERTIES BoardSpec PublishReturns PumpsEnd NoticesSettle
CHECK_DEADLOCK FALSE
