------------------------------- MODULE Round -------------------------------
(***************************************************************************)
(* Rounds of the sync engine, one after the other (Scheduler), and dry     *)
(* runs beside them.  A round takes one snapshot of the runtime state,     *)
(* gives each product a goroutine that syncs its targets in turn, spaced   *)
(* by the cooldown of the product, and sums the results up once all have   *)
(* joined.  A dry run reads the targets one by one; it keeps the cooldowns *)
(* of its own.                                                             *)
(*                                                                         *)
(* Of syncTarget, here stands the loop over its attempts; what an attempt  *)
(* does to the cloud is in TargetSync.  Time counts in units and may pass  *)
(* at any moment.                                                          *)
(***************************************************************************)
EXTENDS Integers, FiniteSets, Sequences, FiniteSetsExt

CONSTANTS
  Targets, CloudType, \* CloudType[t] is the product of target t
  Slow, Fast,     \* the two cooldowns, in units
  States,         \* runtime states: [providers : Seq(Targets), rules : SUBSET SUBSET Targets]
  Attempts,       \* how an attempt may end: a subset of AttemptResults
  MaxRetries,     \* attempts per target (3 in the code)
  Callers,        \* handlers that ask for a dry run
  MaxRounds, MaxDryRuns \* bounds

Products == {"tc_lighthouse", "tc_cvm", "ali_swas", "ali_ecs"}

NoObservation == [basis |-> "none"]
Observations ==
  [basis : {"s1", "s2", "delete_progress"}, candidates : Nat, deferred : Nat, complete : BOOLEAN]

\* An attempt that failed before S1 observed nothing; at S1 only a failed name
\* is worth a retry; once S1 covers what is desired, every rule has addresses,
\* and only a clean-up leaves an error.
AttemptResults ==
  {a \in [err : {"none", "cleanup", "retryable", "fatal"}, outcome : {"success", "partial"},
          wrote : BOOLEAN, obs : Observations \union {NoObservation}] :
     /\ a.obs.basis = "none" => a.err \in {"retryable", "fatal"}
     /\ a.obs.basis \in {"none", "s1"} => a.err # "cleanup"
     /\ a.obs.basis = "s1" =>
          a.obs.deferred = a.obs.candidates /\ (a.err = "retryable" => ~a.obs.complete)
     /\ a.err \in {"none", "cleanup"} => a.obs.complete}

NoState == [providers |-> <<>>, rules |-> {}, none |-> TRUE]

ASSUME RoundAssumption ==
  /\ CloudType \in [Targets -> Products]
  /\ Slow \in Nat /\ Fast \in Nat
  /\ \A s \in States : /\ s.providers \in Seq(Targets) /\ IsInjective(s.providers)
                        /\ s.rules \subseteq SUBSET Targets
  /\ NoState \notin States /\ "free" \notin Callers
  /\ \A a \in Attempts : a \in AttemptResults
  /\ MaxRetries \in Nat \ {0}

VARIABLES
  rounds, state,    \* rounds begun; the snapshot of the one underway, or NoState
  lanes,            \* one record per group: where its goroutine stands
  counts, observations, \* the counters all goroutines add to
  targetNextStart,  \* units until a product may be synced again
  dryRuns, dryRunMu, dry, dryRunNextRead,
  \* history
  rest, dryRest,    \* units since a product was last synced, and last read by a dry run
  ended             \* what each target of the round came to

roundVars == <<rounds, state, lanes, counts, observations, targetNextStart, rest, ended>>
dryVars   == <<dryRuns, dryRunMu, dry, dryRunNextRead, dryRest>>
vars == <<roundVars, dryVars>>

-----------------------------------------------------------------------------
rateLimitInterval(ct) == IF ct \in {"ali_swas", "tc_lighthouse"} THEN Slow ELSE Fast

\* A rule without targets applies to all of them.
filterRulesForTarget(rules, t) == {r \in rules : r = {} \/ t \in r}

\* The targets of a state that some rule applies to, each after its place.
Units(s) == {u \in (1..Len(s.providers)) \X Targets :
               s.providers[u[1]] = u[2] /\ filterRulesForTarget(s.rules, u[2]) # {}}

\* Mutant of GroupKey: a goroutine per target.
GroupKeyTarget(t) == t

\* groupByCloud.
GroupKey(t) == CloudType[t]
Groups == {GroupKey(t) : t \in Targets}
InGroup(s, g) == {u \in Units(s) : GroupKey(u[2]) = g}

NoCounts == [ok |-> 0, changed |-> 0, failed |-> 0, skipped |-> 0]
NoneObserved == [observed |-> 0, estimated |-> 0, historical |-> 0, unknown |-> 0,
                 candidates |-> 0, deferred |-> 0]

outcomeOf(total, c) ==
  IF total = 0 THEN "idle"
  ELSE IF c.failed > 0 THEN "failed"
  ELSE IF c.skipped > 0 THEN "partial"
  ELSE "success"

NoResult == [attempt |-> 0, outcome |-> "success", wrote |-> FALSE,
             obs |-> NoObservation, observedBy |-> 0]
NoTarget == "none"

\* Where a goroutine or a dry run stands: its next step, the units still to come,
\* the target it is at and what has come of it.
Lane(at, left, target, res) == [at |-> at, left |-> left, target |-> target, res |-> res]
Between(left) == Lane("next", left, NoTarget, NoResult)
IsNext(u, left) == u \in left /\ \A v \in left : u[1] <= v[1]

Init ==
  /\ rounds = 0 /\ state = NoState
  /\ lanes = [g \in Groups |-> Between({})]
  /\ counts = NoCounts /\ observations = NoneObserved
  /\ targetNextStart = [ct \in Products |-> 0]
  /\ dryRuns = 0 /\ dryRunMu = "free"
  /\ dry = [c \in Callers |-> Between({})]
  /\ dryRunNextRead = [ct \in Products |-> 0]
  /\ rest = [ct \in Products |-> rateLimitInterval(ct)] /\ dryRest = rest
  /\ ended = <<>>

-----------------------------------------------------------------------------
(***************************************************************************)
(* A round.                                                                *)
(***************************************************************************)
\* Whatever state is published by now; what is published later is for others.
BeginRound ==
  /\ state = NoState /\ rounds < MaxRounds
  /\ rounds' = rounds + 1
  /\ state' \in States
  /\ lanes' = [g \in Groups |-> Between(InGroup(state', g))]
  /\ UNCHANGED <<counts, observations, targetNextStart, rest, ended, dryVars>>

LaneMoves(g, from, lane) ==
  /\ lanes[g].at = from
  /\ lanes' = [lanes EXCEPT ![g] = lane]
  /\ UNCHANGED <<rounds, state, dryVars>>

\* The wait for the cooldown comes before the target, not after it.
StartTarget(g) ==
  \E u \in lanes[g].left :
    /\ IsNext(u, lanes[g].left)
    /\ targetNextStart[CloudType[u[2]]] = 0
    /\ LaneMoves(g, "next", Lane("sync", lanes[g].left \ {u}, u[2], NoResult))
    /\ UNCHANGED <<counts, observations, targetNextStart, rest, ended>>

\* Mutant of mergeObservations: what the last attempt did not see is dropped.
mergeLatest(res, a) ==
  [res EXCEPT !.attempt = @ + 1, !.wrote = @ \/ a.wrote,
              !.obs = IF a.obs = NoObservation THEN @ ELSE a.obs,
              !.observedBy = IF res.obs = NoObservation /\ a.obs = NoObservation
                             THEN 0 ELSE res.attempt + 1]

\* An observation replaces the older one and is historical when a later
\* attempt made none; what was written stays written.
mergeObservations(res, a) ==
  [res EXCEPT !.attempt = @ + 1, !.wrote = @ \/ a.wrote,
              !.obs = IF a.obs = NoObservation THEN @ ELSE a.obs,
              !.observedBy = IF a.obs = NoObservation THEN @ ELSE res.attempt + 1]

Last(res) == res.attempt = MaxRetries

\* One attempt of syncTarget.  A clean-up that fails to the last leaves the
\* result of the attempt.
Attempt(g) ==
  \E a \in Attempts :
    LET merged == mergeObservations(lanes[g].res, a)
        again  == a.err \in {"retryable", "cleanup"} /\ ~Last(merged)
        kept   == a.err \in {"none", "cleanup"}
        res    == [merged EXCEPT !.outcome = IF again THEN @ ELSE IF kept THEN a.outcome
                                             ELSE "failed"]
        t      == lanes[g].target
    IN /\ LaneMoves(g, "sync", Lane(IF again THEN "sync" ELSE "stamp", lanes[g].left, t, res))
       /\ rest' = [rest EXCEPT ![CloudType[t]] = 0]
       /\ ended' = IF again THEN ended
                   ELSE [u \in DOMAIN ended \union {t} |->
                           IF u = t
                           THEN [outcome |-> res.outcome, wrote |-> res.wrote,
                                 saw |-> a.obs, ever |-> merged.obs # NoObservation]
                           ELSE ended[u]]
       /\ UNCHANGED <<counts, observations, targetNextStart>>

\* The cooldown counts from the end of the target, whatever came of it.
Stamp(g) ==
  LET ct == CloudType[lanes[g].target] IN
  /\ LaneMoves(g, "stamp", Lane("count", lanes[g].left, lanes[g].target, lanes[g].res))
  /\ targetNextStart' = [targetNextStart EXCEPT ![ct] = rateLimitInterval(ct)]
  /\ UNCHANGED <<counts, observations, rest, ended>>

Bucket(res) ==
  CASE res.outcome = "failed"  -> "failed"
    [] res.outcome = "partial" -> "skipped"
    [] OTHER -> IF res.wrote THEN "changed" ELSE "ok"

\* CleanupObservationSummary.add.
Observed(sum, res) ==
  IF res.obs = NoObservation THEN [sum EXCEPT !.unknown = @ + 1]
  ELSE IF res.observedBy # res.attempt THEN [sum EXCEPT !.historical = @ + 1]
  ELSE IF res.obs.basis = "delete_progress" \/ ~res.obs.complete
  THEN [sum EXCEPT !.estimated = @ + 1]
  ELSE [sum EXCEPT !.observed = @ + 1, !.candidates = @ + res.obs.candidates,
                   !.deferred = @ + res.obs.deferred]

Count(g) ==
  LET res == lanes[g].res IN
  /\ LaneMoves(g, "count", Between(lanes[g].left))
  /\ counts' = [counts EXCEPT ![Bucket(res)] = @ + 1]
  /\ observations' = Observed(observations, res)
  /\ UNCHANGED <<targetNextStart, rest, ended>>

\* wg.Wait.
Joined == state # NoState /\ \A g \in Groups : lanes[g] = Between({})

Summary ==
  LET total == Cardinality(Units(state)) IN
  [total |-> total, counts |-> counts, observations |-> observations,
   complete |-> observations.estimated + observations.historical + observations.unknown = 0,
   outcome |-> outcomeOf(total, counts)]

\* The summary becomes the status (Health) and an event; the counters go.
FinishRound ==
  /\ Joined
  /\ state' = NoState /\ counts' = NoCounts /\ observations' = NoneObserved /\ ended' = <<>>
  /\ UNCHANGED <<rounds, lanes, targetNextStart, rest, dryVars>>

-----------------------------------------------------------------------------
(***************************************************************************)
(* Dry runs.  A caller that finds the mutex taken is refused.              *)
(***************************************************************************)
BeginDryRun(c) ==
  /\ dryRunMu = "free" /\ dryRuns < MaxDryRuns
  /\ dryRuns' = dryRuns + 1
  /\ dryRunMu' = c
  /\ \E s \in States : dry' = [dry EXCEPT ![c] = Between(Units(s))]
  /\ UNCHANGED <<roundVars, dryRunNextRead, dryRest>>

DryMoves(c, from, run) ==
  /\ dryRunMu = c
  /\ dry[c].at = from
  /\ dry' = [dry EXCEPT ![c] = run]
  /\ UNCHANGED <<roundVars, dryRuns>>

DryRead(c) ==
  \E u \in dry[c].left :
    /\ IsNext(u, dry[c].left)
    /\ dryRunNextRead[CloudType[u[2]]] = 0
    /\ DryMoves(c, "next", Lane("read", dry[c].left \ {u}, u[2], NoResult))
    /\ UNCHANGED <<dryRunMu, dryRunNextRead, dryRest>>

\* GetSnapshot returns, with a snapshot or an error.
DryStamp(c) ==
  LET ct == CloudType[dry[c].target] IN
  /\ DryMoves(c, "read", Between(dry[c].left))
  /\ dryRunNextRead' = [dryRunNextRead EXCEPT ![ct] = rateLimitInterval(ct)]
  /\ dryRest' = [dryRest EXCEPT ![ct] = 0]
  /\ UNCHANGED dryRunMu

EndDryRun(c) ==
  /\ dry[c].left = {}
  /\ DryMoves(c, "next", Between({}))
  /\ dryRunMu' = "free"
  /\ UNCHANGED <<dryRunNextRead, dryRest>>

-----------------------------------------------------------------------------
Less(clock) == [ct \in Products |-> IF clock[ct] = 0 THEN 0 ELSE clock[ct] - 1]
More(clock) == [ct \in Products |-> IF clock[ct] = rateLimitInterval(ct) THEN clock[ct] ELSE clock[ct] + 1]

TimePasses ==
  /\ targetNextStart' = Less(targetNextStart) /\ dryRunNextRead' = Less(dryRunNextRead)
  /\ rest' = More(rest) /\ dryRest' = More(dryRest)
  /\ UNCHANGED <<rounds, state, lanes, counts, observations, dryRuns, dryRunMu, dry, ended>>

Next ==
  \/ BeginRound \/ FinishRound
  \/ \E g \in Groups : StartTarget(g) \/ Attempt(g) \/ Stamp(g) \/ Count(g)
  \/ \E c \in Callers : BeginDryRun(c) \/ DryRead(c) \/ DryStamp(c) \/ EndDryRun(c)
  \/ TimePasses

Spec == Init /\ [][Next]_vars

-----------------------------------------------------------------------------
(***************************************************************************)
(* Properties.                                                             *)
(***************************************************************************)
\* The summary of a round speaks of its own snapshot: every target a rule
\* applies to is counted once, in the class its last attempt put it in; the
\* clean-up figures are sums of what a last attempt saw of a complete plan
\* and of nothing else, what only an earlier attempt saw is historical; and a
\* success is one of every target.
TargetsWith(P(_)) == Cardinality({t \in DOMAIN ended : P(ended[t])})
Trusted == {t \in DOMAIN ended : ended[t].saw.basis \in {"s1", "s2"} /\ ended[t].saw.complete}

SummaryTrue ==
  Joined =>
    LET s == Summary IN
    /\ s.total = Cardinality(DOMAIN ended)
    /\ s.counts.failed  = TargetsWith(LAMBDA e : e.outcome = "failed")
    /\ s.counts.skipped = TargetsWith(LAMBDA e : e.outcome = "partial")
    /\ s.counts.changed = TargetsWith(LAMBDA e : e.outcome = "success" /\ e.wrote)
    /\ s.counts.ok      = TargetsWith(LAMBDA e : e.outcome = "success" /\ ~e.wrote)
    /\ s.observations.observed = Cardinality(Trusted)
    /\ s.observations.candidates = MapThenSumSet(LAMBDA t : ended[t].saw.candidates, Trusted)
    /\ s.observations.deferred   = MapThenSumSet(LAMBDA t : ended[t].saw.deferred, Trusted)
    /\ s.observations.historical = TargetsWith(LAMBDA e : e.saw = NoObservation /\ e.ever)
    /\ s.observations.unknown    = TargetsWith(LAMBDA e : ~e.ever)
    /\ s.complete <=> Trusted = DOMAIN ended
    /\ s.outcome = "success" <=>
         DOMAIN ended # {} /\ \A t \in DOMAIN ended : ended[t].outcome = "success"

\* Two targets of one product are never synced at once, and the second not
\* before the cooldown after the first has passed, retries included, across
\* rounds and states; and so with the reads of dry runs.
Syncing(ct) == {g \in Groups : lanes[g].at = "sync" /\ CloudType[lanes[g].target] = ct}
Reading(ct) == {c \in Callers : dry[c].at = "read" /\ CloudType[dry[c].target] = ct}

Spaced ==
  [][\A ct \in Products :
       /\ Cardinality(Syncing(ct)') <= 1 /\ Cardinality(Reading(ct)') <= 1
       /\ Syncing(ct) = {} /\ Syncing(ct)' # {} => rest[ct] >= rateLimitInterval(ct)
       /\ Reading(ct) = {} /\ Reading(ct)' # {} => dryRest[ct] >= rateLimitInterval(ct)]_vars

=============================================================================
