------------------------------ MODULE MCRealtime -----------------------------
(* Browsers, services and the notification worker around the hub.              *)
EXTENDS Notifier, TLC

CONSTANTS c1, c2, r1, mine, e1, n1, n2, p1

PersonalRooms == [c \in Conn |-> mine]
EventRooms == [e \in Event |-> IF e \in Notice THEN mine ELSE r1]
=============================================================================
