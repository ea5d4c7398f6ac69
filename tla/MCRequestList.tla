---------------------------- MODULE MCRequestList ----------------------------
(***************************************************************************)
(* The request lists for TLC: a few devices of one car, and fewer rows than *)
(* calls, so that a list outgrows the screen and a call moves up to a row   *)
(* when the one before it ends.                                             *)
(***************************************************************************)
EXTENDS RequestList

NoCalls == {}
OneCall == {<<3, 1>>}
TwoCalls == {<<3, 1>>, <<3, 2>>}
ThreeCalls == {<<3, 1>>, <<3, 2>>, <<3, 3>>}
TwoSeats == {2, 3}
AnyCount == {0, 1, 5}
==============================================================================
