--------------------------- MODULE ConfigRegister ---------------------------
(***************************************************************************)
(* What the configuration owes its user: one durable configuration that    *)
(* changes in whole revisions, and one in force that follows it.  The next *)
(* change waits until the last one is in force.                            *)
(***************************************************************************)
EXTENDS Naturals

VARIABLES
  durable,  \* what a restart would find
  inForce   \* what the program works with

Init == inForce = durable

\* The next revision is durable before it is in force.
Change ==
  /\ inForce = durable
  /\ durable'.rev = durable.rev + 1
  /\ UNCHANGED inForce

\* It comes into force: by publication, or by a restart.
Show == inForce' = durable /\ UNCHANGED durable

Next == Change \/ Show

Spec == Init /\ [][Next]_<<durable, inForce>>
=============================================================================
