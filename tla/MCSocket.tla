------------------------------- MODULE MCSocket ------------------------------
(* A browser in which a user signs in, out and in again.                       *)
EXTENDS WsClient, TLC

CONSTANTS s1, s2, s3, r1, r2, page, toast, t1, t2, t3

ScreenRooms == page :> {r1} @@ toast :> {r2}
=============================================================================
