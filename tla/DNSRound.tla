------------------------------ MODULE DNSRound ------------------------------
(***************************************************************************)
(* DNS in one sync round (syncer/dns_round.go) and the circuit breaker     *)
(* that outlives it (dns/circuitbreaker.go).  The groups of a round run in *)
(* parallel; a group runs its targets, and the attempts of a target, one   *)
(* after another, and each attempt resolves the hosts of its target.  A    *)
(* host that was open when the round began is probed once, by whoever      *)
(* comes first; the others wait for the probe.  Meanwhile the coordinator  *)
(* may build a new state, with a copy of the breaker, and publish it.      *)
(***************************************************************************)
EXTENDS Naturals, FiniteSets

CONSTANTS
  Hosts,       \* domain names, by DomainKey
  Groups,      \* the products with targets
  Thresholds,  \* values of DNSFailThreshold
  MaxThreshold,
  MaxPasses,   \* bound: attempts of all targets of one group in one round
  MaxRounds,   \* bound: rounds
  MaxPublish   \* bound: states published after the initial one

ASSUME DNSRoundAssumption ==
  /\ MaxThreshold \in Nat /\ Thresholds \subseteq 1..MaxThreshold
  /\ {MaxPasses, MaxRounds, MaxPublish} \subseteq Nat
  /\ Hosts # {} /\ Thresholds # {}

VARIABLES
  breakers,  \* the breaker of each state built so far; all but the last published
  published, \* the state that is published
  candidate, \* the coordinator has built the next state and not published it
  phase,     \* "idle", "running", "finishing"
  used,      \* the state this round works on
  round,     \* dnsRound.hosts
  group,     \* what the goroutine of a group does
  failures,  \* hosts whose failure finish() has still to record
  rounds,    \* rounds begun
  \* history of the round
  before,    \* the breaker when the round began
  queries,   \* DNS queries begun, per host
  answered   \* hosts with a successful answer

roundVars == <<phase, used, round, group, failures, rounds, before, queries, answered>>
vars == <<breakers, published, candidate, roundVars>>

Breaker == [hosts : SUBSET Hosts, threshold : Thresholds, count : [Hosts -> 0..MaxThreshold]]

\* dnsRoundHost; `done` is its channel.
RoundHost ==
  [open : BOOLEAN, done : {"none", "pending", "closed"}, err : BOOLEAN,
   attempted : BOOLEAN, success : BOOLEAN]

\* A group is between hosts ("next"), in a query, waiting for a probe, or done.
GroupState ==
  [pc : {"next", "query", "wait", "done"}, host : Hosts, probe : BOOLEAN,
   todo : SUBSET Hosts, passes : 0..MaxPasses]

Fresh   == [open |-> FALSE, done |-> "none", err |-> FALSE, attempted |-> FALSE,
            success |-> FALSE]
Resting == [pc |-> "done", host |-> CHOOSE h \in Hosts : TRUE, probe |-> FALSE,
            todo |-> {}, passes |-> 0]
Empty(H, t) == [hosts |-> H, threshold |-> t, count |-> [h \in Hosts |-> 0]]

Init ==
  /\ \E H \in SUBSET Hosts, t \in Thresholds : breakers = [b \in 0..MaxPublish |-> Empty(H, t)]
  /\ published = 0 /\ candidate = FALSE
  /\ phase = "idle" /\ used = 0 /\ rounds = 0 /\ failures = {}
  /\ round = [h \in Hosts |-> Fresh]
  /\ group = [g \in Groups |-> Resting]
  /\ before = breakers[0] /\ queries = [h \in Hosts |-> 0] /\ answered = {}

-----------------------------------------------------------------------------
(***************************************************************************)
(* The breaker.                                                            *)
(***************************************************************************)
IsOpen(b, h) == b.count[h] >= b.threshold

RecordSuccess(b, h) == [b EXCEPT !.count[h] = 0]

\* An open breaker stays where it is.
RecordFailure(b, h) == IF IsOpen(b, h) THEN b ELSE [b EXCEPT !.count[h] = @ + 1]

\* CloneForDomains and SetThreshold: the counts of configured hosts survive.
CloneForDomains(b, H, t) ==
  [hosts |-> H, threshold |-> t, count |-> [h \in Hosts |-> IF h \in H THEN b.count[h] ELSE 0]]

(***************************************************************************)
(* The coordinator builds a candidate state, commits, and publishes it.    *)
(***************************************************************************)
BuildState ==
  /\ ~candidate /\ published < MaxPublish
  /\ \E H \in SUBSET Hosts, t \in Thresholds :
       \/ breakers' = [breakers EXCEPT ![published + 1] =
                         CloneForDomains(breakers[published], H, t)]
       \/ breakers' = [breakers EXCEPT ![published + 1] = Empty(H, t)]   \* BreakerReset
  /\ candidate' = TRUE
  /\ UNCHANGED <<published, roundVars>>

PublishState ==
  /\ candidate
  /\ candidate' = FALSE /\ published' = published + 1
  /\ UNCHANGED <<breakers, roundVars>>

\* The transaction failed.
DropState ==
  /\ candidate
  /\ candidate' = FALSE
  /\ UNCHANGED <<breakers, published, roundVars>>

-----------------------------------------------------------------------------
(***************************************************************************)
(* The round.                                                              *)
(***************************************************************************)
\* newDNSRound, on the snapshot of syncAll.
BeginRound ==
  /\ phase = "idle" /\ rounds < MaxRounds
  /\ phase' = "running" /\ used' = published /\ rounds' = rounds + 1
  /\ round' = [h \in Hosts |->
       [Fresh EXCEPT !.open = h \in breakers[published].hosts
                                /\ IsOpen(breakers[published], h)]]
  /\ group' = [g \in Groups |-> [Resting EXCEPT !.pc = "next"]]
  /\ before' = breakers[published] /\ queries' = [h \in Hosts |-> 0] /\ answered' = {}
  /\ UNCHANGED <<breakers, published, candidate, failures>>

\* An attempt of a target, which resolves the hosts of its rules.
BeginPass(g) ==
  /\ group[g].pc = "next" /\ group[g].todo = {} /\ group[g].passes < MaxPasses
  /\ \E H \in (SUBSET breakers[used].hosts) \ {{}} :
       group' = [group EXCEPT ![g].todo = H, ![g].passes = @ + 1]
  /\ UNCHANGED <<breakers, published, candidate, phase, used, round, failures, rounds,
                 before, queries, answered>>

EndGroup(g) ==
  /\ group[g].pc = "next" /\ group[g].todo = {}
  /\ group' = [group EXCEPT ![g].pc = "done"]
  /\ UNCHANGED <<breakers, published, candidate, phase, used, round, failures, rounds,
                 before, queries, answered>>

\* Group g turns to host h and goes on at `pc`.
Take(g, h, pc, probe) ==
  group' = [group EXCEPT ![g].todo = @ \ {h}, ![g].host = h, ![g].pc = pc, ![g].probe = probe]

\* Mutant of FirstComer: everybody probes an open host.
EverybodyProbes(h) == round[h].open

FirstComer(h) == round[h].open /\ round[h].done = "none"

\* dnsRound.resolve, up to the query or the wait.
Resolve(g, h) ==
  /\ group[g].pc = "next" /\ h \in group[g].todo
  /\ \/ /\ ~round[h].open
        /\ Take(g, h, "query", FALSE)
        /\ queries' = [queries EXCEPT ![h] = @ + 1]
        /\ UNCHANGED round
     \/ /\ FirstComer(h)
        /\ round' = [round EXCEPT ![h].done = "pending"]
        /\ Take(g, h, "query", TRUE)
        /\ queries' = [queries EXCEPT ![h] = @ + 1]
     \/ /\ round[h].open /\ ~FirstComer(h)
        /\ Take(g, h, "wait", FALSE)
        /\ UNCHANGED <<round, queries>>
  /\ UNCHANGED <<breakers, published, candidate, phase, used, failures, rounds, before, answered>>

\* The probe is over: a failed one is the answer, after a successful one the
\* waiter asks DNS itself.
Awake(g) ==
  LET h == group[g].host IN
  /\ group[g].pc = "wait" /\ round[h].done = "closed"
  /\ \/ /\ round[h].err
        /\ group' = [group EXCEPT ![g].pc = "next"]
        /\ UNCHANGED queries
     \/ /\ ~round[h].err
        /\ group' = [group EXCEPT ![g].pc = "query"]
        /\ queries' = [queries EXCEPT ![h] = @ + 1]
  /\ UNCHANGED <<breakers, published, candidate, phase, used, round, failures, rounds,
                 before, answered>>

\* Mutants of Settle: only a successful probe closes the channel; the latest
\* answer decides for the round.
SettleSuccessOnly(r, probe, ok) ==
  [r EXCEPT !.attempted = TRUE, !.success = @ \/ ok, !.err = (@ \/ (probe /\ ~ok)),
            !.open = @ /\ ~(probe /\ ok), !.done = IF probe /\ ok THEN "closed" ELSE @]
SettleLastWins(r, probe, ok) ==
  [r EXCEPT !.attempted = TRUE, !.success = ok, !.err = (@ \/ (probe /\ ~ok)),
            !.open = @ /\ ~(probe /\ ok), !.done = IF probe THEN "closed" ELSE @]

\* What run() notes of an answer.
Settle(r, probe, ok) ==
  [r EXCEPT !.attempted = TRUE, !.success = @ \/ ok, !.err = (@ \/ (probe /\ ~ok)),
            !.open = @ /\ ~(probe /\ ok), !.done = IF probe THEN "closed" ELSE @]

\* dnsRound.run after the query: addresses (ok), an error or no address.
Answer(g, ok) ==
  LET h == group[g].host IN
  /\ group[g].pc = "query"
  /\ round' = [round EXCEPT ![h] = Settle(@, group[g].probe, ok)]
  /\ breakers' = IF ok THEN [breakers EXCEPT ![used] = RecordSuccess(@, h)] ELSE breakers
  /\ answered' = IF ok THEN answered \union {h} ELSE answered
  /\ group' = [group EXCEPT ![g].pc = "next", ![g].probe = FALSE]
  /\ UNCHANGED <<published, candidate, phase, used, failures, rounds, before, queries>>

\* dnsRound.finish, after all groups: the hosts it will count, then one
\* critical section of the breaker per host.
BeginFinish ==
  /\ phase = "running" /\ \A g \in Groups : group[g].pc = "done"
  /\ phase' = "finishing"
  /\ failures' = {h \in Hosts : round[h].attempted /\ ~round[h].success}
  /\ UNCHANGED <<breakers, published, candidate, used, round, group, rounds,
                 before, queries, answered>>

\* Mutant of Counted: finish reads the runtime again.
CountedNow == published

Counted == used

FinishHost ==
  /\ phase = "finishing"
  /\ \E h \in failures :
       /\ breakers' = [breakers EXCEPT ![Counted] = RecordFailure(@, h)]
       /\ failures' = failures \ {h}
  /\ UNCHANGED <<published, candidate, phase, used, round, group, rounds,
                 before, queries, answered>>

EndRound ==
  /\ phase = "finishing" /\ failures = {}
  /\ phase' = "idle"
  /\ UNCHANGED <<breakers, published, candidate, used, round, group, failures, rounds,
                 before, queries, answered>>

-----------------------------------------------------------------------------
GroupStep(g) ==
  \/ BeginPass(g) \/ EndGroup(g) \/ Awake(g)
  \/ \E h \in Hosts : Resolve(g, h)
  \/ \E ok \in BOOLEAN : Answer(g, ok)

RoundStep == (\E g \in Groups : GroupStep(g)) \/ BeginFinish \/ FinishHost \/ EndRound

\* The configuration need not change any more: a round that hangs then shows as
\* one that does not end.
Quiet == published = MaxPublish /\ UNCHANGED vars

Next == RoundStep \/ BeginRound \/ BuildState \/ PublishState \/ DropState \/ Quiet

Spec == Init /\ [][Next]_vars

\* The goroutines of a round run on and the resolver has a timeout; nobody has
\* to begin a round or to change the configuration.
FairSpec == Spec /\ WF_vars(RoundStep)

-----------------------------------------------------------------------------
(***************************************************************************)
(* Properties.                                                             *)
(***************************************************************************)
\* The values the variables range over: no count passes the highest threshold.
TypeOK ==
  /\ breakers \in [0..MaxPublish -> Breaker]
  /\ published \in 0..MaxPublish /\ used \in 0..published /\ candidate \in BOOLEAN
  /\ candidate => published < MaxPublish
  /\ phase \in {"idle", "running", "finishing"}
  /\ round \in [Hosts -> RoundHost]
  /\ group \in [Groups -> GroupState]
  /\ failures \subseteq Hosts /\ answered \subseteq Hosts /\ rounds \in 0..MaxRounds
  /\ before \in Breaker /\ queries \in [Hosts -> Nat]

\* A round moves the count of a host by its whole result and never by the
\* number of targets, rules or retries: one success anywhere clears it, whatever
\* came before or after; with queries and no success it rises by one, up to the
\* threshold; a host nobody asked for keeps its count.
RoundVerdict ==
  phase = "idle" /\ rounds > 0 =>
    \A h \in Hosts :
      breakers[used].count[h] =
        CASE h \in answered -> 0
          [] h \notin answered /\ queries[h] > 0 -> RecordFailure(before, h).count[h]
          [] OTHER -> before.count[h]

\* A host whose breaker was open is asked once in a round, by all groups and
\* all their attempts together, unless that probe succeeds.
HalfOpenIsOneProbe ==
  \A h \in before.hosts : IsOpen(before, h) /\ h \notin answered => queries[h] <= 1

\* A round writes to the breaker of its own state only: a round that outlives
\* its state neither re-opens nor clears anything in the state now published.
OldRoundsHarmless ==
  [][\A b \in 0..published : b # used => breakers'[b] = breakers[b]]_vars

\* No group waits for ever for the probe of another: a round comes to its end.
RoundEnds == (phase = "running") ~> (phase = "idle")

=============================================================================
