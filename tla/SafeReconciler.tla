--------------------------- MODULE SafeReconciler ---------------------------
(***************************************************************************)
(* What a target sync promises to the owner of a cloud firewall: whatever  *)
(* calls it makes and however they fail, all it ever does to the rules is  *)
(* to add rules of its own namespace for keys it wants, and to remove      *)
(* rules of its own namespace that serve no wanted key.  Everybody else    *)
(* may do anything.                                                        *)
(***************************************************************************)
EXTENDS Naturals

CONSTANT Tag

VARIABLES
  rules,   \* the rules in the cloud
  wanted,  \* the keys the reconciler wants at the moment
  others   \* changes made by others

Init == others = 0

\* A new opinion about what is wanted changes no rule.
Decide == UNCHANGED <<rules, others>>

Provide ==
  /\ rules \subseteq rules'
  /\ \A r \in rules' \ rules : r.tag = Tag /\ r.keys \subseteq wanted
  /\ UNCHANGED <<wanted, others>>

Clean ==
  /\ rules' \subseteq rules
  /\ \A r \in rules \ rules' : r.tag = Tag /\ r.keys \intersect wanted = {}
  /\ UNCHANGED <<wanted, others>>

ByOthers == others' = others + 1 /\ UNCHANGED wanted

Next == Decide \/ Provide \/ Clean \/ ByOthers

Spec == Init /\ [][Next]_<<rules, wanted, others>>
=============================================================================
