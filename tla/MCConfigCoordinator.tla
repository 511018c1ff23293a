------------------------ MODULE MCConfigCoordinator ------------------------
(***************************************************************************)
(* A small instance of ConfigCoordinator: any two changes, any order.      *)
(***************************************************************************)
EXTENDS ConfigCoordinator

CONSTANTS r1, r2

TwoRequests == {r1, r2}
OneBundle   == {[targets |-> 1, rules |-> <<{1}>>]}
TwoValues   == {"v", "default"}
=============================================================================
