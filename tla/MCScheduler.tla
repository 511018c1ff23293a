---------------------------- MODULE MCScheduler ----------------------------
(***************************************************************************)
(* A small instance of Scheduler: two intervals, one trigger request, and  *)
(* publications enough for pause and resume in either order.               *)
(***************************************************************************)
EXTENDS Scheduler

Hours == {1, 2}
One == {"c"}
=============================================================================
