------------------------------ MODULE MCHealth ------------------------------
(***************************************************************************)
(* A small instance of Health: a pause, a short and a long interval, and a *)
(* policy whose health timeout is longer than both.                        *)
(***************************************************************************)
EXTENDS Health

Policy(on, interval, timeout, alert) ==
  [enabled |-> on, interval |-> interval, timeout |-> timeout, alert |-> alert]

FourPolicies ==
  {Policy(TRUE, 1, 1, TRUE), Policy(TRUE, 2, 1, FALSE), Policy(FALSE, 2, 1, TRUE),
   Policy(TRUE, 2, 2, TRUE)}
=============================================================================
