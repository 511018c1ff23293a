--------------------------- MODULE DNSRoundProofs ---------------------------
(***************************************************************************)
(* DNSRound for any hosts, groups, thresholds and bounds: a round counts   *)
(* once by its whole result, and an open host is probed once.              *)
(***************************************************************************)
EXTENDS DNSRound, TLAPS

-----------------------------------------------------------------------------
(***************************************************************************)
(* The inductive invariant.                                                *)
(***************************************************************************)
WasOpen(h) == h \in before.hosts /\ IsOpen(before, h)

\* A host is open in the round if it was open when the round began and no probe
\* has succeeded.
Opens ==
  \A h \in Hosts :
    /\ round[h].open => WasOpen(h)
    /\ WasOpen(h) /\ h \notin answered => round[h].open
    /\ round[h].success <=> h \in answered

\* The probe of an open host: one query from its begin on, and its error once it
\* has ended.
Probes ==
  \A h \in Hosts :
    /\ round[h].open => queries[h] = IF round[h].done = "none" THEN 0 ELSE 1
    /\ round[h].open /\ round[h].done = "closed" => round[h].err
    /\ round[h].done # "closed" => ~round[h].err

\* Who queries an open host is its prober, and it has one.
Probers ==
  /\ \A g \in Groups :
       /\ group[g].probe => group[g].pc = "query" /\ round[group[g].host].done = "pending"
       /\ group[g].pc = "query" => (group[g].probe <=> round[group[g].host].open)
       /\ group[g].pc = "wait" => round[group[g].host].done # "none"
  /\ \A f, g \in Groups :
       group[f].probe /\ group[g].probe /\ group[f].host = group[g].host => f = g

\* A host was queried if a result is noted or a group is at it.
Asked ==
  \A h \in Hosts :
    queries[h] > 0 <=> \/ round[h].attempted
                       \/ \E g \in Groups : group[g].pc = "query" /\ group[g].host = h

\* The phases: no group goes on after the round, failures are recorded after it.
Phases ==
  /\ phase # "running" => \A g \in Groups : group[g].pc = "done"
  /\ phase # "finishing" => failures = {}
  /\ \A h \in failures : round[h].attempted /\ h \notin answered

\* What the breaker of the round holds for host h at this point.
Due(h) ==
  IF h \in answered THEN 0
  ELSE IF phase # "running" /\ round[h].attempted /\ h \notin failures
    THEN RecordFailure(before, h).count[h]
    ELSE before.count[h]

Counts ==
  /\ breakers[used].threshold = before.threshold
  /\ \A h \in Hosts : breakers[used].count[h] = Due(h)

Inv == TypeOK /\ Opens /\ Probes /\ Probers /\ Asked /\ Phases /\ Counts

-----------------------------------------------------------------------------
\* The assumption on the constants, value by value.
LEMMA Bounds ==
  /\ MaxThreshold \in Nat /\ MaxPasses \in Nat /\ MaxRounds \in Nat /\ MaxPublish \in Nat
  /\ \A t \in Thresholds : t \in Nat /\ t > 0 /\ t <= MaxThreshold
<1>1. MaxThreshold \in Nat /\ MaxPasses \in Nat /\ MaxRounds \in Nat /\ MaxPublish \in Nat
  BY DNSRoundAssumption, Zenon DEF DNSRoundAssumption
<1>2. \A t \in Thresholds : t \in 1..MaxThreshold
  BY DNSRoundAssumption, Zenon DEF DNSRoundAssumption
<1> QED
  BY <1>1, <1>2

\* The choice in Resting is a host.
LEMMA RestingType == Resting \in GroupState
<1>1. (CHOOSE h \in Hosts : TRUE) \in Hosts
  BY DNSRoundAssumption DEF DNSRoundAssumption
<1> QED
  BY <1>1, Bounds DEF Resting, GroupState

\* A breaker without counts is a breaker and open for nobody.
LEMMA EmptyBreaker ==
  ASSUME NEW H \in SUBSET Hosts, NEW t \in Thresholds
  PROVE  Empty(H, t) \in Breaker /\ \A h \in Hosts : ~IsOpen(Empty(H, t), h)
BY Bounds DEF Empty, Breaker, IsOpen

\* A clone is a breaker.
LEMMA CloneBreaker ==
  ASSUME NEW b \in Breaker, NEW H \in SUBSET Hosts, NEW t \in Thresholds
  PROVE  CloneForDomains(b, H, t) \in Breaker
BY Bounds DEF CloneForDomains, Breaker

\* What a success and a failure do to a breaker; the count stays below the
\* highest threshold because an open breaker does not count.
LEMMA SuccessBreaker ==
  ASSUME NEW b \in Breaker, NEW h \in Hosts
  PROVE  /\ RecordSuccess(b, h) \in Breaker
         /\ RecordSuccess(b, h).threshold = b.threshold
         /\ RecordSuccess(b, h).count[h] = 0
         /\ \A k \in Hosts \ {h} : RecordSuccess(b, h).count[k] = b.count[k]
BY Bounds DEF RecordSuccess, Breaker

LEMMA FailureBreaker ==
  ASSUME NEW b \in Breaker, NEW h \in Hosts
  PROVE  /\ RecordFailure(b, h) \in Breaker
         /\ RecordFailure(b, h).threshold = b.threshold
         /\ \A k \in Hosts \ {h} : RecordFailure(b, h).count[k] = b.count[k]
         /\ RecordFailure(b, h).count[h] =
              IF b.count[h] >= b.threshold THEN b.count[h] ELSE b.count[h] + 1
<1>1. b.threshold \in Nat /\ b.threshold <= MaxThreshold /\ b.count[h] \in Nat
  BY Bounds DEF Breaker
<1>2. CASE b.count[h] >= b.threshold
  <2>1. RecordFailure(b, h) = b
    BY <1>2 DEF RecordFailure, IsOpen
  <2> QED
    BY <1>2, <2>1
<1>3. CASE ~(b.count[h] >= b.threshold)
  <2>1. RecordFailure(b, h) = [b EXCEPT !.count[h] = @ + 1]
    BY <1>3 DEF RecordFailure, IsOpen
  <2>2. b.count[h] + 1 \in 0..MaxThreshold
    BY <1>1, <1>3, Bounds 
  <2> QED
    BY <1>3, <2>1, <2>2 DEF Breaker
<1> QED
  BY <1>2, <1>3

-----------------------------------------------------------------------------
(***************************************************************************)
(* It holds at the start, and every step keeps it.                         *)
(***************************************************************************)
\* Nothing has been asked and no breaker is open.
LEMMA InitInvariant == Init => Inv
<1> SUFFICES ASSUME Init PROVE Inv
  OBVIOUS
<1>1. PICK H \in SUBSET Hosts, t \in Thresholds : breakers = [b \in 0..MaxPublish |-> Empty(H, t)]
  BY DEF Init
<1>2. /\ breakers \in [0..MaxPublish -> Breaker] /\ 0 \in 0..MaxPublish
      /\ before = breakers[0] /\ before \in Breaker /\ \A h \in Hosts : ~WasOpen(h)
  <2>1. 0 \in 0..MaxPublish
    BY Bounds
  <2>2. before = Empty(H, t) /\ before = breakers[0]
    BY <1>1, <2>1 DEF Init
  <2>3. Empty(H, t) \in Breaker /\ \A h \in Hosts : ~IsOpen(Empty(H, t), h)
    BY <1>1, EmptyBreaker
  <2> QED
    BY <1>1, <2>1, <2>2, <2>3 DEF WasOpen
<1>3. TypeOK
  <2>1. round \in [Hosts -> RoundHost] /\ group \in [Groups -> GroupState]
    BY RestingType DEF Init, RoundHost, Fresh
  <2>2. /\ published \in 0..MaxPublish /\ used \in 0..published /\ rounds \in 0..MaxRounds
    BY Bounds DEF Init
  <2>4. candidate \in BOOLEAN /\ ~candidate
    BY Zenon DEF Init
  <2>3. /\ phase \in {"idle", "running", "finishing"} /\ failures \subseteq Hosts
        /\ answered \subseteq Hosts /\ queries \in [Hosts -> Nat]
    BY DEF Init
  <2> QED
    BY <1>2, <2>1, <2>2, <2>3, <2>4 DEF TypeOK
<1>4. Opens /\ Probes
  BY <1>2 DEF Init, Opens, Probes, Fresh
<1>7. Asked /\ Phases
  <2>1. \A h \in Hosts : ~round[h].attempted /\ queries[h] = 0
    BY DEF Init, Fresh
  <2>2. \A g \in Groups : group[g].pc = "done"
    BY DEF Init, Resting
  <2>3. failures = {}
    BY DEF Init
  <2> QED
    BY <2>1, <2>2, <2>3 DEF Asked, Phases
<1>5. Probers
  BY DEF Init, Probers, Resting
<1>6. Counts
  BY <1>2 DEF Init, Counts, Due, Fresh
<1> QED
  BY <1>3, <1>4, <1>5, <1>6, <1>7 DEF Inv

\* The coordinator writes to no breaker a round has begun with.
LEMMA CoordinatorStep ==
  ASSUME Inv, BuildState \/ PublishState \/ DropState
  PROVE  Inv'
<1>1. UNCHANGED roundVars
  BY DEF BuildState, PublishState, DropState
<1>2. /\ breakers' \in [0..MaxPublish -> Breaker]
      /\ \A b \in 0..published : breakers'[b] = breakers[b]
  <2>1. CASE BuildState
    <3>1. PICK H \in SUBSET Hosts, t \in Thresholds :
            \/ breakers' = [breakers EXCEPT ![published + 1] =
                              CloneForDomains(breakers[published], H, t)]
            \/ breakers' = [breakers EXCEPT ![published + 1] = Empty(H, t)]
      BY <2>1 DEF BuildState
    <3>2. /\ breakers[published] \in Breaker /\ published + 1 \in 0..MaxPublish
          /\ published \in Nat
      BY <2>1, Bounds DEF Inv, TypeOK, BuildState
    <3>3. Empty(H, t) \in Breaker /\ CloneForDomains(breakers[published], H, t) \in Breaker
      BY <3>2, EmptyBreaker, CloneBreaker
    <3>4. breakers \in [0..MaxPublish -> Breaker]
      BY DEF Inv, TypeOK
    <3>5. \A b \in 0..published : b # published + 1
      BY <3>2
    <3>6. CASE breakers' = [breakers EXCEPT ![published + 1] =
                              CloneForDomains(breakers[published], H, t)]
      BY <3>2, <3>3, <3>4, <3>5, <3>6
    <3>7. CASE breakers' = [breakers EXCEPT ![published + 1] = Empty(H, t)]
      BY <3>2, <3>3, <3>4, <3>5, <3>7
    <3> QED
      BY <3>1, <3>6, <3>7
  <2>2. CASE PublishState \/ DropState
    BY <2>2 DEF PublishState, DropState, Inv, TypeOK
  <2> QED
    BY <2>1, <2>2
<1>3. /\ published' \in 0..MaxPublish /\ used \in 0..published'
      /\ candidate' \in BOOLEAN /\ (candidate' => published' < MaxPublish)
  <2> USE Bounds
      DEF Inv, TypeOK, BuildState, PublishState, DropState, roundVars
  <2>1. CASE BuildState
    BY <2>1
  <2>2. CASE PublishState
    <3>1. published < MaxPublish /\ published' = published + 1 /\ used' = used
      BY <2>2
    <3>2. candidate' \in BOOLEAN /\ ~candidate'
      BY <2>2, Zenon
    <3> QED
      BY <3>1, <3>2
  <2>3. CASE DropState
    BY <2>3
  <2> QED
    BY <2>1, <2>2, <2>3
<1>4. TypeOK'
  BY <1>1, <1>2, <1>3 DEF Inv, TypeOK, roundVars
<1>5. Opens' /\ Probes' /\ Probers' /\ Asked' /\ Phases'
  BY <1>1 DEF Inv, Opens, WasOpen, Probes, Probers, Asked, Phases, roundVars
<1>6. breakers'[used'] = breakers[used]
  BY <1>1, <1>2 DEF Inv, TypeOK, roundVars
<1>7. Counts'
  BY <1>1, <1>6 DEF Inv, Counts, Due, roundVars
<1> QED
  BY <1>4, <1>5, <1>7 DEF Inv

\* A round begins with the open hosts of its breaker.
LEMMA BeginRoundStep ==
  ASSUME Inv, BeginRound
  PROVE  Inv'
<1>1. breakers[published] \in Breaker /\ published \in Nat
  BY Bounds DEF Inv, TypeOK
<1>2. TypeOK'
  <2>1. group' \in [Groups -> GroupState]
    BY RestingType DEF BeginRound, GroupState
  <2>2. round' \in [Hosts -> RoundHost]
    <3>1. \A h \in Hosts :
            (h \in breakers[published].hosts /\ IsOpen(breakers[published], h)) \in BOOLEAN
      BY Zenon
    <3> HIDE DEF IsOpen
    <3> QED
      BY <3>1 DEF BeginRound, RoundHost, Fresh
  <2> QED
    BY <1>1, <2>1, <2>2, Bounds, SMTT(30) DEF Inv, TypeOK, BeginRound
<1>3. \A h \in Hosts : /\ ~round'[h].success /\ ~round'[h].attempted /\ ~round'[h].err
                       /\ round'[h].done = "none" /\ (round'[h].open <=> WasOpen(h)')
  BY DEF BeginRound, Fresh, WasOpen
<1>4. \A g \in Groups : group'[g].pc = "next" /\ ~group'[g].probe
  BY DEF BeginRound, Resting
<1>5. Opens' /\ Probes'
  BY <1>3 DEF Opens, Probes, BeginRound
<1>8. Asked'
  <2>1. \A h \in Hosts : queries'[h] = 0
    BY DEF BeginRound
  <2> QED
    BY <1>3, <1>4, <2>1 DEF Asked
<1>9. Phases'
  BY DEF Inv, Phases, BeginRound
<1>6. Probers'
  BY <1>4 DEF Probers
<1>7. Counts'
  BY <1>3 DEF Counts, Due, BeginRound
<1> QED
  BY <1>2, <1>5, <1>6, <1>7, <1>8, <1>9 DEF Inv

\* Between two queries: an attempt begins, or the group is done.
LEMMA PassStep ==
  ASSUME Inv, NEW g \in Groups, BeginPass(g) \/ EndGroup(g)
  PROVE  Inv'
<1>1. /\ group \in [Groups -> GroupState] /\ group[g] \in GroupState /\ group[g].pc = "next"
      /\ phase = "running"
      /\ UNCHANGED <<breakers, published, candidate, phase, used, round, failures, rounds,
                     before, queries, answered>>
  BY DEF Inv, TypeOK, Phases, BeginPass, EndGroup
<1>2. /\ group' \in [Groups -> GroupState]
      /\ \A f \in Groups : /\ group'[f].host = group[f].host /\ group'[f].probe = group[f].probe
                           /\ group'[f].pc = "wait" <=> group[f].pc = "wait"
                           /\ group'[f].pc = "query" <=> group[f].pc = "query"
  <2>1. CASE BeginPass(g)
    <3>1. PICK H \in (SUBSET breakers[used].hosts) \ {{}} :
            group' = [group EXCEPT ![g].todo = H, ![g].passes = @ + 1]
      BY <2>1 DEF BeginPass
    <3>2. breakers[used] \in Breaker
      BY Bounds DEF Inv, TypeOK
    <3>3. H \subseteq Hosts
      <4>1. breakers[used].hosts \in SUBSET Hosts
        BY <3>2 DEF Breaker
      <4>2. H \subseteq breakers[used].hosts
        BY Zenon
      <4> QED
        BY <4>1, <4>2, Zenon
    <3>4. group[g].passes + 1 \in 0..MaxPasses
      <4>1. group[g].passes \in 0..MaxPasses
        BY <1>1 DEF GroupState
      <4>2. group[g].passes < MaxPasses
        BY <2>1 DEF BeginPass
      <4> QED
        BY <4>1, <4>2, Bounds
    <3> QED
      BY <1>1, <3>1, <3>3, <3>4 DEF GroupState
  <2>2. CASE EndGroup(g)
    BY <1>1, <2>2 DEF EndGroup, GroupState
  <2> QED
    BY <2>1, <2>2
<1>3. TypeOK'
  BY <1>1, <1>2 DEF Inv, TypeOK
<1>4. Opens' /\ Probes' /\ Phases'
  BY <1>1 DEF Inv, Opens, WasOpen, Probes, Phases
<1>5. Probers'
  BY <1>1, <1>2 DEF Inv, Probers
<1>6. Asked'
  BY <1>1, <1>2 DEF Inv, Asked
<1>7. Counts'
  BY <1>1 DEF Inv, Counts, Due
<1> QED
  BY <1>3, <1>4, <1>5, <1>6, <1>7 DEF Inv

\* The groups after group g has turned to h.
LEMMA TakeGroup ==
  ASSUME TypeOK, NEW g \in Groups, NEW h \in Hosts, NEW pc \in {"query", "wait"},
         NEW probe \in BOOLEAN, Take(g, h, pc, probe)
  PROVE  /\ group' \in [Groups -> GroupState]
         /\ group'[g].pc = pc /\ group'[g].host = h /\ group'[g].probe = probe
         /\ \A f \in Groups \ {g} : group'[f] = group[f]
<1>1. /\ group \in [Groups -> GroupState] /\ group[g] \in GroupState
      /\ group' = [group EXCEPT ![g] =
           [group[g] EXCEPT !.todo = group[g].todo \ {h}, !.host = h, !.pc = pc, !.probe = probe]]
  BY DEF TypeOK, Take
<1>2. [group[g] EXCEPT !.todo = group[g].todo \ {h}, !.host = h, !.pc = pc, !.probe = probe]
        \in GroupState
  BY <1>1 DEF GroupState
<1> QED
  BY <1>1, <1>2 DEF GroupState

\* A group queries a host that is not open, as its prober, or waits for the prober.
LEMMA ResolveStep ==
  ASSUME Inv, NEW g \in Groups, NEW h \in Hosts, Resolve(g, h)
  PROVE  Inv'
<1>1. /\ group[g].pc = "next" /\ phase = "running" /\ TypeOK /\ ~group[g].probe
      /\ UNCHANGED <<breakers, published, candidate, phase, used, failures, rounds,
                     before, answered>>
  BY DEF Inv, Phases, Probers, Resolve
<1>2. CASE /\ ~round[h].open /\ Take(g, h, "query", FALSE)
           /\ queries' = [queries EXCEPT ![h] = @ + 1] /\ UNCHANGED round
  <2>1. /\ group' \in [Groups -> GroupState]
        /\ group'[g].pc = "query" /\ group'[g].host = h /\ ~group'[g].probe
        /\ \A f \in Groups \ {g} : group'[f] = group[f]
    BY <1>1, <1>2, TakeGroup, Zenon
  <2>2. /\ queries' \in [Hosts -> Nat] /\ queries'[h] > 0
        /\ \A k \in Hosts \ {h} : queries'[k] = queries[k]
    BY <1>1, <1>2 DEF TypeOK
  <2>3. TypeOK'
    BY <1>1, <1>2, <2>1, <2>2 DEF TypeOK
  <2>4. Opens' /\ Phases' /\ Counts'
    BY <1>1, <1>2 DEF Inv, Opens, WasOpen, Phases, Counts, Due
  <2>5. Probes'
    BY <1>2, <2>2 DEF Inv, Probes
  <2>6. Probers'
    BY <1>2, <2>1 DEF Inv, Probers
  <2>7. Asked'
    BY <1>1, <1>2, <2>1, <2>2 DEF Inv, Asked
  <2> QED
    BY <2>3, <2>4, <2>5, <2>6, <2>7 DEF Inv
<1>3. CASE /\ FirstComer(h) /\ round' = [round EXCEPT ![h].done = "pending"]
           /\ Take(g, h, "query", TRUE) /\ queries' = [queries EXCEPT ![h] = @ + 1]
  <2>1. /\ group' \in [Groups -> GroupState]
        /\ group'[g].pc = "query" /\ group'[g].host = h /\ group'[g].probe
        /\ \A f \in Groups \ {g} : group'[f] = group[f]
    BY <1>1, <1>3, TakeGroup, Zenon
  <2>2. /\ round[h].open /\ round[h].done = "none" /\ queries[h] = 0 /\ ~round[h].err
        /\ round[h] \in RoundHost
    BY <1>1, <1>3 DEF FirstComer, Inv, Probes, TypeOK
  <2>3. /\ queries' \in [Hosts -> Nat] /\ queries'[h] = 1
        /\ \A k \in Hosts \ {h} : queries'[k] = queries[k]
    BY <1>1, <1>3, <2>2 DEF TypeOK
  <2>4. /\ round' \in [Hosts -> RoundHost] /\ round'[h].done = "pending"
        /\ \A k \in Hosts : /\ round'[k].open = round[k].open /\ round'[k].err = round[k].err
                            /\ round'[k].attempted = round[k].attempted
                            /\ round'[k].success = round[k].success
        /\ \A k \in Hosts \ {h} : round'[k].done = round[k].done
    BY <1>1, <1>3, <2>2 DEF TypeOK, RoundHost
  <2>5. TypeOK'
    BY <1>1, <2>1, <2>3, <2>4 DEF TypeOK
  <2>6. Opens' /\ Phases' /\ Counts'
    BY <1>1, <2>4 DEF Inv, Opens, WasOpen, Phases, Counts, Due, TypeOK
  <2>7. Probes'
    BY <2>2, <2>3, <2>4 DEF Inv, Probes
  <2>8. Probers'
    <3>1. \A f \in Groups : group[f].host \in Hosts
      BY <1>1 DEF TypeOK, GroupState
    <3>2. \A f \in Groups : group[f].host = h => ~group[f].probe /\ group[f].pc # "wait"
      BY <2>2 DEF Inv, Probers
    <3> QED
      BY <2>1, <2>2, <2>4, <3>1, <3>2 DEF Inv, Probers
  <2>9. Asked'
    BY <1>1, <2>1, <2>3, <2>4 DEF Inv, Asked
  <2> QED
    BY <2>5, <2>6, <2>7, <2>8, <2>9 DEF Inv
<1>4. CASE /\ round[h].open /\ ~FirstComer(h) /\ Take(g, h, "wait", FALSE)
           /\ UNCHANGED <<round, queries>>
  <2>1. /\ group' \in [Groups -> GroupState]
        /\ group'[g].pc = "wait" /\ group'[g].host = h /\ ~group'[g].probe
        /\ \A f \in Groups \ {g} : group'[f] = group[f]
    BY <1>1, <1>4, TakeGroup, Zenon
  <2>2. TypeOK'
    BY <1>1, <1>4, <2>1 DEF TypeOK
  <2>3. Opens' /\ Phases' /\ Counts' /\ Probes'
    BY <1>1, <1>4 DEF Inv, Opens, WasOpen, Phases, Counts, Due, Probes
  <2>4. Probers'
    BY <1>4, <2>1 DEF Inv, Probers, FirstComer
  <2>5. Asked'
    BY <1>1, <1>4, <2>1 DEF Inv, Asked
  <2> QED
    BY <2>2, <2>3, <2>4, <2>5 DEF Inv
<1> QED
  BY <1>2, <1>3, <1>4, Zenon DEF Resolve

\* A waiter goes on when the probe has ended.
LEMMA AwakeStep ==
  ASSUME Inv, NEW g \in Groups, Awake(g)
  PROVE  Inv'
<1> DEFINE h == group[g].host
<1>1. /\ TypeOK /\ phase = "running" /\ h \in Hosts /\ group[g] \in GroupState
      /\ group[g].pc = "wait" /\ round[h].done = "closed" /\ ~group[g].probe
      /\ UNCHANGED <<breakers, published, candidate, phase, used, round, failures, rounds,
                     before, answered>>
  BY DEF Inv, TypeOK, GroupState, Phases, Probers, Awake
<1> HIDE DEF h
<1>2. Opens' /\ Phases' /\ Counts'
  BY <1>1 DEF Inv, Opens, WasOpen, Phases, Counts, Due
<1>3. CASE round[h].err /\ group' = [group EXCEPT ![g].pc = "next"] /\ UNCHANGED queries
  <2>1. /\ group' \in [Groups -> GroupState] /\ group'[g].pc = "next"
        /\ \A f \in Groups : group'[f].host = group[f].host /\ group'[f].probe = group[f].probe
        /\ \A f \in Groups \ {g} : group'[f].pc = group[f].pc
    BY <1>1, <1>3 DEF TypeOK, GroupState
  <2>2. TypeOK'
    BY <1>1, <1>3, <2>1 DEF TypeOK
  <2>3. Probes' /\ Asked'
    BY <1>1, <1>3, <2>1 DEF Inv, Probes, Asked
  <2>4. Probers'
    BY <1>1, <2>1 DEF Inv, Probers
  <2> QED
    BY <1>2, <2>2, <2>3, <2>4 DEF Inv
<1>4. CASE /\ ~round[h].err /\ group' = [group EXCEPT ![g].pc = "query"]
           /\ queries' = [queries EXCEPT ![h] = @ + 1]
  <2>1. /\ group' \in [Groups -> GroupState] /\ group'[g].pc = "query"
        /\ \A f \in Groups : group'[f].host = group[f].host /\ group'[f].probe = group[f].probe
        /\ \A f \in Groups \ {g} : group'[f].pc = group[f].pc
    BY <1>1, <1>4 DEF TypeOK, GroupState
  <2>2. /\ queries' \in [Hosts -> Nat] /\ queries'[h] > 0
        /\ \A k \in Hosts \ {h} : queries'[k] = queries[k]
    BY <1>1, <1>4 DEF TypeOK
  <2>3. ~round[h].open
    BY <1>1, <1>4 DEF Inv, Probes
  <2>4. TypeOK'
    BY <1>1, <2>1, <2>2 DEF TypeOK
  <2>5. Probes'
    BY <1>1, <2>2, <2>3 DEF Inv, Probes
  <2>6. Probers'
    BY <1>1, <2>1, <2>3 DEF Inv, Probers, h
  <2>7. Asked'
    <3>1. group[g].host = h
      BY DEF h
    <3> QED
      BY <1>1, <2>1, <2>2, <3>1 DEF Inv, Asked
  <2> QED
    BY <1>2, <2>4, <2>5, <2>6, <2>7 DEF Inv
<1> QED
  BY <1>3, <1>4 DEF Awake, h

\* What Settle notes of an answer.
LEMMA SettleFacts ==
  ASSUME NEW r \in RoundHost, NEW probe \in BOOLEAN, NEW ok \in BOOLEAN
  PROVE  /\ Settle(r, probe, ok) \in RoundHost
         /\ Settle(r, probe, ok).attempted
         /\ Settle(r, probe, ok).success <=> r.success \/ ok
         /\ Settle(r, probe, ok).err <=> r.err \/ (probe /\ ~ok)
         /\ Settle(r, probe, ok).open <=> r.open /\ ~(probe /\ ok)
         /\ Settle(r, probe, ok).done = IF probe THEN "closed" ELSE r.done
<1>1. /\ (r.success \/ ok) \in BOOLEAN /\ (r.err \/ (probe /\ ~ok)) \in BOOLEAN
      /\ (r.open /\ ~(probe /\ ok)) \in BOOLEAN
  BY Zenon
<1>2. (IF probe THEN "closed" ELSE r.done) \in {"none", "pending", "closed"}
  BY DEF RoundHost
<1> QED
  BY <1>1, <1>2 DEF Settle, RoundHost

\* An answer: a success is counted at once, a failure by the end of the round.
LEMMA AnswerStep ==
  ASSUME Inv, NEW g \in Groups, NEW ok \in BOOLEAN, Answer(g, ok)
  PROVE  Inv'
<1> DEFINE h == group[g].host
<1> DEFINE probe == group[g].probe
<1>1. /\ TypeOK /\ phase = "running" /\ h \in Hosts /\ probe \in BOOLEAN
      /\ group[g] \in GroupState /\ group[g].pc = "query" /\ round[h] \in RoundHost
      /\ UNCHANGED <<published, candidate, phase, used, failures, rounds, before, queries>>
  BY DEF Inv, TypeOK, GroupState, Phases, Answer
<1>2. /\ round' = [round EXCEPT ![h] = Settle(@, probe, ok)]
      /\ group' = [group EXCEPT ![g].pc = "next", ![g].probe = FALSE]
      /\ breakers' = IF ok THEN [breakers EXCEPT ![used] = RecordSuccess(@, h)] ELSE breakers
      /\ answered' = IF ok THEN answered \union {h} ELSE answered
      /\ group[g].host = h /\ group[g].probe = probe
  BY DEF Answer
<1> HIDE DEF h, probe
<1>3. /\ group' \in [Groups -> GroupState] /\ group'[g].pc = "next" /\ ~group'[g].probe
      /\ \A f \in Groups : group'[f].host = group[f].host
      /\ \A f \in Groups \ {g} : group'[f] = group[f]
  BY <1>1, <1>2 DEF TypeOK, GroupState
<1>4. /\ round' \in [Hosts -> RoundHost] /\ round'[h].attempted
      /\ round'[h].success <=> round[h].success \/ ok
      /\ round'[h].err <=> round[h].err \/ (probe /\ ~ok)
      /\ round'[h].open <=> round[h].open /\ ~(probe /\ ok)
      /\ round'[h].done = IF probe THEN "closed" ELSE round[h].done
      /\ \A k \in Hosts \ {h} : round'[k] = round[k]
  <2>1. Settle(round[h], probe, ok) \in RoundHost
    BY <1>1, SettleFacts
  <2>2. round \in [Hosts -> RoundHost]
    BY <1>1 DEF TypeOK
  <2>3. /\ round' \in [Hosts -> RoundHost] /\ round'[h] = Settle(round[h], probe, ok)
        /\ \A k \in Hosts \ {h} : round'[k] = round[k]
    BY <1>1, <1>2, <2>1, <2>2
  <2> QED
    BY <1>1, <2>3, SettleFacts
<1>5. /\ breakers' \in [0..MaxPublish -> Breaker]
      /\ breakers'[used].threshold = breakers[used].threshold
      /\ \A k \in Hosts : breakers'[used].count[k] =
                            IF ok /\ k = h THEN 0 ELSE breakers[used].count[k]
  <2>1. used \in 0..MaxPublish /\ breakers \in [0..MaxPublish -> Breaker]
    BY <1>1, Bounds DEF TypeOK
  <2>2. /\ RecordSuccess(breakers[used], h) \in Breaker
        /\ RecordSuccess(breakers[used], h).threshold = breakers[used].threshold
        /\ RecordSuccess(breakers[used], h).count[h] = 0
        /\ \A k \in Hosts \ {h} :
             RecordSuccess(breakers[used], h).count[k] = breakers[used].count[k]
    BY <1>1, <2>1, SuccessBreaker
  <2> QED
    BY <1>2, <2>1, <2>2
<1>6. answered' \subseteq Hosts
  BY <1>1, <1>2 DEF TypeOK
<1>7. TypeOK'
  BY <1>1, <1>3, <1>4, <1>5, <1>6 DEF TypeOK
<1>8. probe => round[h].done = "pending" /\ round[h].open
  BY <1>1, <1>2 DEF Inv, Probers
<1>9. Opens'
  <2>1. \A k \in Hosts : WasOpen(k)' <=> WasOpen(k)
    BY <1>1 DEF WasOpen
  <2>2. \A k \in Hosts : k \in answered' <=> k \in answered \/ (ok /\ k = h)
    BY <1>2
  <2> QED
    BY <1>1, <1>4, <2>1, <2>2 DEF Inv, Opens
<1>10. Probes'
  BY <1>1, <1>4, <1>8 DEF Inv, Probes
<1>11. Probers'
  <2>1. \A f \in Groups \ {g} : group[f].probe /\ group[f].host = h => ~probe
    BY <1>2 DEF Inv, Probers
  <2>2. \A f \in Groups : group[f].host \in Hosts
    BY <1>1 DEF TypeOK, GroupState
  <2>3. ~probe => ~round[h].open
    BY <1>1, <1>2 DEF Inv, Probers
  <2>4. \A f \in Groups \ {g} : group[f].pc = "query" /\ group[f].host = h => ~probe
    BY <1>8, <2>1 DEF Inv, Probers
  <2> QED
    BY <1>1, <1>3, <1>4, <1>8, <2>1, <2>2, <2>3, <2>4 DEF Inv, Probers
<1>12. Asked'
  <2>1. queries[h] > 0
    BY <1>1, <1>2 DEF Inv, Asked
  <2> QED
    BY <1>1, <1>2, <1>3, <1>4, <2>1 DEF Inv, Asked
<1>13. Phases'
  BY <1>1 DEF Inv, Phases
<1>14. Counts'
  <2>1. \A k \in Hosts : Due(k) = IF k \in answered THEN 0 ELSE before.count[k]
    BY <1>1 DEF Due
  <2>2. \A k \in Hosts : Due(k)' = IF ok /\ k = h THEN 0 ELSE Due(k)
    BY <1>1, <1>2, <2>1 DEF Due
  <2> QED
    BY <1>1, <1>5, <2>2 DEF Inv, Counts
<1> QED
  BY <1>7, <1>9, <1>10, <1>11, <1>12, <1>13, <1>14 DEF Inv

\* The end of a round: the failures are fixed, then recorded host by host.
LEMMA FinishStep ==
  ASSUME Inv, BeginFinish \/ FinishHost \/ EndRound
  PROVE  Inv'
<1>1. /\ TypeOK
      /\ UNCHANGED <<published, candidate, used, round, group, rounds, before, queries, answered>>
  BY DEF Inv, BeginFinish, FinishHost, EndRound
<1>2. Opens' /\ Probes' /\ Probers' /\ Asked'
  BY <1>1 DEF Inv, Opens, WasOpen, Probes, Probers, Asked
<1>3. CASE BeginFinish
  <2>1. TypeOK'
    BY <1>1, <1>3 DEF TypeOK, BeginFinish
  <2>2. \A h \in Hosts : h \in failures' <=> round[h].attempted /\ h \notin answered
    BY <1>3 DEF Inv, Opens, BeginFinish
  <2>3. Phases'
    BY <1>1, <1>3, <2>2 DEF Inv, TypeOK, Phases, BeginFinish
  <2>4. Counts'
    BY <1>1, <1>3, <2>2 DEF Inv, Counts, Due, BeginFinish
  <2> QED
    BY <1>2, <2>1, <2>3, <2>4 DEF Inv
<1>4. CASE FinishHost
  <2>1. PICK h \in failures : /\ breakers' = [breakers EXCEPT ![used] = RecordFailure(@, h)]
                              /\ failures' = failures \ {h}
    BY <1>4 DEF FinishHost, Counted
  <2>2. /\ phase = "finishing" /\ phase' = phase /\ h \in Hosts
        /\ round[h].attempted /\ h \notin answered
    BY <1>1, <1>4 DEF FinishHost, Inv, TypeOK, Phases
  <2>3. /\ used \in 0..MaxPublish /\ breakers[used] \in Breaker /\ before \in Breaker
        /\ breakers \in [0..MaxPublish -> Breaker]
    BY <1>1, Bounds DEF TypeOK
  <2>4. /\ RecordFailure(breakers[used], h) \in Breaker
        /\ RecordFailure(breakers[used], h).threshold = before.threshold
        /\ \A k \in Hosts \ {h} :
             RecordFailure(breakers[used], h).count[k] = breakers[used].count[k]
        /\ RecordFailure(breakers[used], h).count[h] = RecordFailure(before, h).count[h]
    <3>1. breakers[used].threshold = before.threshold /\ breakers[used].count[h] = before.count[h]
      BY <2>2 DEF Inv, Counts, Due
    <3>2. RecordFailure(before, h).count[h] =
            IF before.count[h] >= before.threshold THEN before.count[h] ELSE before.count[h] + 1
      BY <2>2, <2>3, FailureBreaker
    <3>3. /\ RecordFailure(breakers[used], h) \in Breaker
          /\ RecordFailure(breakers[used], h).threshold = breakers[used].threshold
          /\ \A k \in Hosts \ {h} :
               RecordFailure(breakers[used], h).count[k] = breakers[used].count[k]
          /\ RecordFailure(breakers[used], h).count[h] =
               IF breakers[used].count[h] >= breakers[used].threshold
               THEN breakers[used].count[h] ELSE breakers[used].count[h] + 1
      BY <2>2, <2>3, FailureBreaker
    <3> QED
      BY <3>1, <3>2, <3>3
  <2>5. TypeOK'
    BY <1>1, <2>1, <2>2, <2>3, <2>4 DEF TypeOK
  <2>6. Phases'
    BY <1>1, <2>1, <2>2 DEF Inv, Phases
  <2>7. Counts'
    <3>1. \A k \in Hosts : Due(k)' = IF k = h THEN RecordFailure(before, h).count[h] ELSE Due(k)
      BY <1>1, <2>1, <2>2 DEF Due
    <3>2. breakers'[used] = RecordFailure(breakers[used], h)
      BY <2>1, <2>3
    <3>3. \A k \in Hosts : breakers[used].count[k] = Due(k)
      BY DEF Inv, Counts
    <3> QED
      BY <1>1, <2>4, <3>1, <3>2, <3>3 DEF Counts
  <2> QED
    BY <1>2, <2>5, <2>6, <2>7 DEF Inv
<1>5. CASE EndRound
  <2>1. TypeOK'
    BY <1>1, <1>5 DEF TypeOK, EndRound
  <2>2. Phases' /\ Counts'
    BY <1>1, <1>5 DEF Inv, Phases, Counts, Due, EndRound
  <2> QED
    BY <1>2, <2>1, <2>2 DEF Inv
<1> QED
  BY <1>3, <1>4, <1>5

\* Every step keeps the invariant.
LEMMA NextInvariant == Inv /\ [Next]_vars => Inv'
<1> SUFFICES ASSUME Inv, [Next]_vars PROVE Inv'
  OBVIOUS
<1>1. CASE UNCHANGED vars
  BY <1>1 DEF vars, roundVars, Inv, TypeOK, Opens, WasOpen, Probes, Probers, Asked, Phases,
              Counts, Due
<1>2. CASE RoundStep
  <2>1. CASE \E g \in Groups : GroupStep(g)
    BY <2>1, PassStep, ResolveStep, AwakeStep, AnswerStep, Zenon DEF GroupStep
  <2>2. CASE BeginFinish \/ FinishHost \/ EndRound
    BY <2>2, FinishStep, Zenon
  <2> QED
    BY <1>2, <2>1, <2>2, Zenon DEF RoundStep
<1>3. CASE BeginRound
  BY <1>3, BeginRoundStep
<1>4. CASE BuildState \/ PublishState \/ DropState
  BY <1>4, CoordinatorStep
<1> QED
  BY <1>1, <1>2, <1>3, <1>4, Zenon DEF Next, Quiet

-----------------------------------------------------------------------------
(***************************************************************************)
(* The theorems.                                                           *)
(***************************************************************************)
\* Every reachable state satisfies the invariant.
THEOREM Inductive == Spec => []Inv
<1>1. Init => Inv
  BY InitInvariant
<1>2. Inv /\ [Next]_vars => Inv'
  BY NextInvariant
<1> QED
  BY <1>1, <1>2, PTL DEF Spec

\* The variables keep their types: no count of the breaker passes the highest
\* threshold.
THEOREM TypeCorrect == Spec => []TypeOK
<1>1. Inv => TypeOK
  BY DEF Inv
<1> QED
  BY <1>1, Inductive, PTL

\* An open host is asked once per round by all groups together, unless its
\* probe succeeds.
THEOREM OneProbe == Spec => []HalfOpenIsOneProbe
<1>1. Inv => HalfOpenIsOneProbe
  <2> SUFFICES ASSUME Inv, NEW h \in before.hosts, IsOpen(before, h), h \notin answered
               PROVE  queries[h] <= 1
    BY DEF HalfOpenIsOneProbe
  <2>1. before.hosts \subseteq Hosts
    BY DEF Inv, TypeOK, Breaker
  <2>2. round[h].open
    BY <2>1 DEF Inv, Opens, WasOpen
  <2>3. queries[h] = IF round[h].done = "none" THEN 0 ELSE 1
    BY <2>1, <2>2 DEF Inv, Probes
  <2> QED
    BY <2>3
<1> QED
  BY <1>1, Inductive, PTL

\* A round counts a host once, by the result of the whole round.
THEOREM VerdictOfRound == Spec => []RoundVerdict
<1>1. Inv => RoundVerdict
  <2> SUFFICES ASSUME Inv, phase = "idle", NEW h \in Hosts
               PROVE  breakers[used].count[h] =
                        CASE h \in answered -> 0
                          [] h \notin answered /\ queries[h] > 0 ->
                               RecordFailure(before, h).count[h]
                          [] OTHER -> before.count[h]
    BY Zenon DEF RoundVerdict
  <2>1. queries[h] > 0 <=> round[h].attempted
    BY DEF Inv, Asked, Phases
  <2>2. breakers[used].count[h] =
          IF h \in answered THEN 0
          ELSE IF round[h].attempted THEN RecordFailure(before, h).count[h] ELSE before.count[h]
    BY DEF Inv, Counts, Due, Phases
  <2> QED
    BY <2>1, <2>2
<1> QED
  BY <1>1, Inductive, PTL

\* A round writes to the breaker of its own state only, whatever is published
\* meanwhile.
THEOREM OldRounds == Spec => OldRoundsHarmless
<1>1. Inv /\ [Next]_vars => (\A b \in 0..published : b # used => breakers'[b] = breakers[b])
  <2> SUFFICES ASSUME Inv, [Next]_vars, NEW b \in 0..published, b # used
               PROVE  breakers'[b] = breakers[b]
    BY Zenon
  <2>1. breakers \in [0..MaxPublish -> Breaker] /\ published \in 0..MaxPublish /\ used \in 0..published
    BY DEF Inv, TypeOK
  <2>2. CASE BuildState
    BY <2>1, <2>2, Bounds DEF BuildState
  <2>3. CASE \E g \in Groups, ok \in BOOLEAN : Answer(g, ok)
    BY <2>1, <2>3 DEF Answer
  <2>4. CASE FinishHost
    BY <2>1, <2>4 DEF FinishHost, Counted
  <2>5. CASE UNCHANGED breakers
    BY <2>5
  <2>6. BuildState \/ (\E g \in Groups, ok \in BOOLEAN : Answer(g, ok)) \/ FinishHost
          \/ UNCHANGED breakers
    <3>1. \A g \in Groups : GroupStep(g) =>
            (\E ok \in BOOLEAN : Answer(g, ok)) \/ UNCHANGED breakers
      BY DEF GroupStep, BeginPass, EndGroup, Awake, Resolve
    <3>2. RoundStep => (\E g \in Groups, ok \in BOOLEAN : Answer(g, ok)) \/ FinishHost
                         \/ UNCHANGED breakers
      BY <3>1 DEF RoundStep, BeginFinish, EndRound
    <3> QED
      BY <3>2 DEF Next, BeginRound, PublishState, DropState, Quiet, vars
  <2> QED
    BY <2>2, <2>3, <2>4, <2>5, <2>6
<1>2. Inv /\ [Next]_vars =>
        [\A b \in 0..published : b # used => breakers'[b] = breakers[b]]_vars
  BY <1>1
<1> QED
  BY <1>2, Inductive, PTL DEF Spec, OldRoundsHarmless
=============================================================================
