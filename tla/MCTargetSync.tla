---------------------------- MODULE MCTargetSync ----------------------------
(***************************************************************************)
(* Small instances of TargetSync.  The host's answers move between two     *)
(* addresses; the pool holds owned, foreign, ambiguous and undetermined    *)
(* rules, among them rules for both addresses.                             *)
(***************************************************************************)
EXTENDS TargetSync

A1 == [family |-> "ipv4", cidr |-> "192.0.2.1/32"]
A2 == [family |-> "ipv4", cidr |-> "192.0.2.2/32"]
A6 == [family |-> "ipv6", cidr |-> "2001:db8::1/128"]

Ssh(h)  == [id |-> 1, host |-> h, proto |-> "TCP", ports |-> {"22"}, action |-> "ACCEPT",
            ipv6 |-> FALSE]
Ping(h) == [id |-> 2, host |-> h, proto |-> "ICMP", ports |-> {"ALL"}, action |-> "ACCEPT",
            ipv6 |-> TRUE]

OneRule   == {Ssh("a")}
TwoRules  == {Ssh("a"), Ping("a")}
TwoHosts  == {Ssh("a"), [Ssh("b") EXCEPT !.id = 2, !.ports = {"80"}]}

PortNames == {"22", "53", "80", "ALL", "1-65535"}

OneHost  == {"a"}
HostsAB  == {"a", "b"}
V4       == {A1, A2}
V4V6     == {A1, A6}
Single   == {A1}

Key(a, port, action) ==
  [family |-> a.family, cidr |-> a.cidr, proto |-> "TCP", port |-> port, action |-> action]

K1 == Key(A1, "22", "ACCEPT")
K2 == Key(A2, "22", "ACCEPT")
K3 == Key([family |-> "ipv4", cidr |-> "198.51.100.9/32"], "22", "ACCEPT")

Rule(keys, tag, located, born) ==
  [keys |-> keys, tag |-> tag, located |-> located, born |-> born]

Old1      == Rule({K1}, "auto", TRUE, 0)
Old2      == Rule({K2}, "auto", TRUE, 0)
Old3      == Rule({K3}, "auto", TRUE, 0)
Foreign2  == Rule({K2}, "team", TRUE, -1)
Foreign3  == Rule({K3}, "team", TRUE, -1)
Twin2     == Rule({K2}, "auto", TRUE, -2)
Merged    == Rule({K1, K3}, "auto", TRUE, 0)
Lost3     == Rule({K3}, "auto", FALSE, -2)
Opaque    == Rule({}, "auto", TRUE, 0)
Blocked1  == Rule({Key(A1, "22", "DROP")}, "team", TRUE, 0)

Clouds ==
  {{}, {Old1, Old3}, {Old2, Foreign2}, {Old3, Foreign2}, {Foreign3, Old2}, {Old2, Twin2, Old3},
   {Merged}, {Merged, Old2}, {Old1, Lost3}, {Old1, Opaque, Old3}, {Old1, Old2, Old3},
   {Blocked1, Old3}}
FewClouds == {{}, {Old1, Old3}, {Old2, Foreign2, Old3}, {Merged, Old2}}
OldCloud  == {{Old1, Old2, Old3}, {Old2, Foreign3}}

New(keys, tag) == [keys |-> keys, tag |-> tag, located |-> TRUE]

Editors  == {New({K1}, "team"), New({K2}, "team"), New({K3}, "auto")}
NoEditor == {}
NoTags   == {}
TeamTag  == {"team"}
=============================================================================
