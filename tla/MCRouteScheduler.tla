-------------------------- MODULE MCRouteScheduler --------------------------
(***************************************************************************)
(* The orders of the instance: two destinations, and none, which ends the  *)
(* schedule at the next one.                                               *)
(***************************************************************************)
EXTENDS RouteScheduler

MCPlans == {<<>>, <<"A1", "B2">>}
=============================================================================
