------------------------------ MODULE MCRound ------------------------------
(***************************************************************************)
(* A small instance of Round: two slow targets of one product and a fast   *)
(* one of another, and three states whose rules apply to all, to some and  *)
(* to none of them.                                                        *)
(***************************************************************************)
EXTENDS Round

ThreeTargets == {"a", "b", "c"}
Kinds == [t \in ThreeTargets |-> IF t = "c" THEN "tc_cvm" ELSE "tc_lighthouse"]

ThreeStates ==
  {[providers |-> <<"a", "b">>, rules |-> {{}}],
   [providers |-> <<"c", "b", "a">>, rules |-> {{"a"}, {"a", "c"}}],
   [providers |-> <<"a">>, rules |-> {}]}

Obs(basis, candidates, deferred, complete) ==
  [basis |-> basis, candidates |-> candidates, deferred |-> deferred, complete |-> complete]

Ends(err, outcome, wrote, obs) ==
  [err |-> err, outcome |-> outcome, wrote |-> wrote, obs |-> obs]

\* A creation that failed half-way; an S1 that a rule had no address for; a
\* clean-up that failed; and one that S2 confirmed.
FourEnds ==
  {Ends("retryable", "success", TRUE, NoObservation),
   Ends("retryable", "success", FALSE, Obs("s1", 1, 1, FALSE)),
   Ends("cleanup", "partial", FALSE, Obs("delete_progress", 1, 1, TRUE)),
   Ends("none", "success", FALSE, Obs("s2", 1, 0, TRUE))}
=============================================================================
