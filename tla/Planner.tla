------------------------------- MODULE Planner -------------------------------
(***************************************************************************)
(* The target planner (provider/plan.go): a pure function from the domain  *)
(* rules of one target, the DNS answers and one cloud snapshot to what is  *)
(* to be added, what is stale and what may be deleted.                     *)
(*                                                                         *)
(* A functional key is the record [family, cidr, proto, port, action]; a   *)
(* cloud rule carries the set of its keys (SnapshotRuleKeys; the empty set *)
(* stands for a rule whose fields do not determine it), the TAG of its     *)
(* description, whether the API returned the locator its product deletes   *)
(* by, and `born`, the write that created it: <<born, keys>> is the cloud  *)
(* identity (RuleId) of a rule.                                            *)
(***************************************************************************)
EXTENDS Integers, FiniteSets

CONSTANTS
  CloudType,    \* product of the target: one of CloudTypes
  Tag,          \* the TAG namespace this process owns
  DomainRules,  \* the enabled rules that apply to the target
  Hosts,        \* their domain names
  Addresses,    \* what a name may resolve to: records [family, cidr]
  Ports         \* port expressions: a number, a range or "ALL"

CloudTypes == {"tc_lighthouse", "tc_cvm", "ali_swas", "ali_ecs"}
Versioned  == CloudType \in {"tc_lighthouse", "tc_cvm"}
NoRevision == -1

Families == {"ipv4", "ipv6"}
ProtoNames == {"TCP", "UDP", "TCP+UDP", "ICMP", "ALL"}
Actions    == {"ACCEPT", "DROP"}

DomainRuleType ==
  [id : Nat, host : Hosts, proto : ProtoNames, ports : SUBSET Ports,
   action : Actions, ipv6 : BOOLEAN]

KeyType ==
  [family : Families, cidr : STRING, proto : ProtoNames, port : Ports, action : Actions]

ASSUME PlannerAssumption ==
  /\ CloudType \in CloudTypes
  /\ DomainRules \subseteq DomainRuleType /\ IsFiniteSet(DomainRules)
  /\ \A r, s \in DomainRules : r.id = s.id => r = s
  /\ \A r \in DomainRules : r.ports # {} /\ IsFiniteSet(r.ports)
  /\ Addresses \subseteq [family : Families, cidr : STRING] /\ IsFiniteSet(Addresses)
  /\ {"ALL", "1-65535"} \subseteq Ports

(***************************************************************************)
(* DNS.  A host resolves to a non-empty set of addresses or to an error    *)
(* that isRetryable classifies as retryable or not.                        *)
(***************************************************************************)
Resolution ==
  [err : {"none"}, ips : SUBSET Addresses \ {{}}]
    \union [err : {"retryable", "fatal"}, ips : {{}}]

\* filterIPv4: without EnableIPv6 only the IPv4 addresses of the host count.
RuleAddresses(r, res) ==
  {a \in res[r.host].ips : r.ipv6 \/ a.family = "ipv4"}

\* TargetPlan.DNSErrors: the rules with a dns_failed or dns_empty issue.
DNSErrors(res) == {r \in DomainRules : RuleAddresses(r, res) = {}}

(***************************************************************************)
(* Platform capabilities and the desired keys.                             *)
(***************************************************************************)
Capabilities ==
  [IPv6   |-> CloudType # "ali_swas",
   ICMPv6 |-> CloudType \notin {"ali_swas", "ali_ecs"},
   TCPUDP |-> CloudType = "ali_swas",
   Drop   |-> CloudType # "ali_swas"]

Implementable(k) ==
  /\ k.family = "ipv6" => Capabilities.IPv6
  /\ k.family = "ipv6" /\ k.proto = "ICMP" => Capabilities.ICMPv6
  /\ k.action = "DROP" => Capabilities.Drop

\* A rule for TCP+UDP is two rules where the platform has no such protocol.
Protocols(r) ==
  IF r.proto = "TCP+UDP" /\ ~Capabilities.TCPUDP THEN {"TCP", "UDP"} ELSE {r.proto}

\* expandPlannedPorts and canonicalPortExpression: ICMP and ALL have no port,
\* and Aliyun expresses "all ports" of TCP or UDP as the range 1-65535.
KeyPort(proto, port) ==
  CASE proto \in {"ICMP", "ALL"} -> "ALL"
    [] proto \notin {"ICMP", "ALL"} /\ port = "ALL" /\ ~Versioned -> "1-65535"
    [] OTHER -> port

KeysOf(r, res) ==
  {[family |-> a.family, cidr |-> a.cidr, proto |-> p, port |-> KeyPort(p, q),
    action |-> r.action] :
      a \in RuleAddresses(r, res), p \in Protocols(r), q \in r.ports}

Desired(res)     == UNION {KeysOf(r, res) : r \in DomainRules}
Needed(res)      == {k \in Desired(res) : Implementable(k)}
Unsupported(res) == Desired(res) \ Needed(res)

(***************************************************************************)
(* The snapshot: [rules, revision].                                        *)
(***************************************************************************)
\* Mutant of Owned: any rule counts as managed.
OwnedAny(r) == TRUE

Owned(r) == r.tag = Tag

OwnedIndex(k, snap)    == {r \in snap.rules : k \in r.keys /\ Owned(r)}
ExternalIndex(k, snap) == {r \in snap.rules : k \in r.keys /\ ~Owned(r)}

Covers(rules, k) == \E r \in rules : k \in r.keys

\* Mutant of ToAdd: any rule for the same address counts as coverage.
ToAddByAddress(res, snap) ==
  {k \in Needed(res) : ~\E r \in snap.rules : \E l \in r.keys : l.cidr = k.cidr}

\* TargetPlan.ToAdd: the implementable keys no rule, owned or external, has.
ToAdd(res, snap) == {k \in Needed(res) : ~Covers(snap.rules, k)}

\* Mutant of CoverageReady: external rules do not count as coverage.
CoverageReadyOwned(res, snap) ==
  Needed(res) # {} /\ \A k \in Needed(res) : OwnedIndex(k, snap) # {}

CoverageReady(res, snap) == Needed(res) # {} /\ ToAdd(res, snap) = {}

Opposite(k, l) == l.action # k.action /\ [l EXCEPT !.action = k.action] = k

\* TargetPlan.Conflicts is non-empty: an undetermined rule, ACCEPT and DROP
\* for the same traffic, or a Tencent snapshot without a version.
Conflict(snap) ==
  \/ \E r \in snap.rules : r.keys = {}
  \/ \E r, s \in snap.rules : \E k \in r.keys, l \in s.keys : Opposite(k, l)
  \/ Versioned /\ snap.revision = NoRevision

\* TargetPlan.CleanupCandidates: owned rules none of whose keys is desired.
Candidates(res, snap) ==
  {r \in snap.rules : Owned(r) /\ r.keys # {} /\ r.keys \intersect Desired(res) = {}}

\* The cleanup gate of PlanTarget, step 5.
GateOpen(res, snap) ==
  /\ Desired(res) # {}
  /\ DNSErrors(res) = {}
  /\ Unsupported(res) = {}
  /\ ~Conflict(snap)
  /\ CoverageReady(res, snap)

\* Mutant of Locatable: a foreign rule of the same value does not matter.
LocatableBesideForeign(r, snap) == \A k \in r.keys : OwnedIndex(k, snap) = {r}

\* cleanupLocatorIssue: can this snapshot name the rule without ambiguity?
Locatable(r, snap) ==
  IF CloudType = "tc_lighthouse"
  THEN \A k \in r.keys : OwnedIndex(k, snap) = {r} /\ ExternalIndex(k, snap) = {}
  ELSE r.located

\* TargetPlan.CleanupDeletable.
Deletable(res, snap) ==
  {r \in Candidates(res, snap) : GateOpen(res, snap) /\ Locatable(r, snap)}

=============================================================================
