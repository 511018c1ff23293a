----------------------------- MODULE MCDNSRound -----------------------------
(***************************************************************************)
(* Small instances of DNSRound: groups that share hosts, breakers that     *)
(* open after a round without success.                                           *)
(***************************************************************************)
EXTENDS DNSRound

CONSTANTS g1, g2

TwoGroups == {g1, g2}
TwoHosts  == {"a", "b"}
JustOne   == {1}
=============================================================================
