---------------------------- MODULE RoundProofs ----------------------------
(***************************************************************************)
(* Proofs about Round: for any targets, states, results of attempts,       *)
(* cooldowns and bounds, the cooldown of a product holds between any two   *)
(* of its targets, and the summary of a round is true of its targets.      *)
(***************************************************************************)
EXTENDS Round, TLAPS, FiniteSetTheorems, WellFoundedInduction

(***************************************************************************)
(* The invariant.                                                          *)
(***************************************************************************)
\* The goroutine of a product has targets of this product only, and none
\* between two rounds.
LanesOfOneProduct ==
  /\ lanes = [g \in Groups |-> lanes[g]]
  /\ \A g \in Groups :
       /\ lanes[g].at \in {"next", "sync", "stamp", "count"}
       /\ \A u \in lanes[g].left : u[2] \in Targets /\ CloudType[u[2]] = g
       /\ lanes[g].at # "next" => lanes[g].target \in Targets /\ CloudType[lanes[g].target] = g
  /\ state = NoState => \A g \in Groups : lanes[g] = Between({})

\* A dry run reads under the mutex.
DryRunsUnderMutex ==
  /\ dry = [c \in Callers |-> dry[c]]
  /\ \A c \in Callers :
       /\ dry[c].at \in {"next", "read"}
       /\ \A u \in dry[c].left : u[2] \in Targets
       /\ dry[c].at = "read" => dryRunMu = c /\ dry[c].target \in Targets

Clocks ==
  /\ targetNextStart \in [Products -> Nat] /\ rest \in [Products -> Nat]
  /\ dryRunNextRead \in [Products -> Nat] /\ dryRest \in [Products -> Nat]

Busy(ct) == ct \in Groups /\ lanes[ct].at \in {"sync", "stamp"}

\* What is left of the cooldown makes up for what has not passed of it since
\* the last target, unless the stamp of that target is still to come.
Owed ==
  \A ct \in Products : ~Busy(ct) => rest[ct] + targetNextStart[ct] >= rateLimitInterval(ct)

DryOwed ==
  \A ct \in Products : dryRest[ct] + dryRunNextRead[ct] >= rateLimitInterval(ct)

IInv == LanesOfOneProduct /\ DryRunsUnderMutex /\ Clocks /\ Owed /\ DryOwed

-----------------------------------------------------------------------------
LEMMA Bounds ==
  /\ \A t \in Targets : CloudType[t] \in Products
  /\ \A ct \in Products : rateLimitInterval(ct) \in Nat
  /\ NoState \notin States /\ "free" \notin Callers
BY RoundAssumption DEF RoundAssumption, rateLimitInterval

LEMMA GroupsAreProducts == Groups \subseteq Products
BY Bounds DEF Groups, GroupKey

LEMMA UnitsAreTargets == \A s, u : u \in Units(s) => u[2] \in Targets
BY DEF Units

\* A lane is what its four parts say.
LEMMA LaneParts ==
  ASSUME NEW at, NEW left, NEW target, NEW res
  PROVE  /\ Lane(at, left, target, res).at = at
         /\ Lane(at, left, target, res).left = left
         /\ Lane(at, left, target, res).target = target
BY DEF Lane

LEMMA BetweenParts ==
  ASSUME NEW left
  PROVE  Between(left).at = "next" /\ Between(left).left = left
BY LaneParts DEF Between

\* The step of one lane is the step of this lane alone.
LEMMA OneLane ==
  ASSUME LanesOfOneProduct, NEW g \in Groups, NEW from, NEW lane, LaneMoves(g, from, lane)
  PROVE  /\ lanes[g].at = from /\ lanes'[g] = lane
         /\ lanes' = [h \in Groups |-> lanes'[h]]
         /\ \A h \in Groups : h # g => lanes'[h] = lanes[h]
         /\ state' = state /\ UNCHANGED dryVars
BY DEF LanesOfOneProduct, LaneMoves

\* A lane that moves on with a target of its product stays within its product.
LEMMA LaneStays ==
  ASSUME LanesOfOneProduct, NEW g \in Groups, NEW from, NEW lane, LaneMoves(g, from, lane),
         lane.at \in {"next", "sync", "stamp", "count"}, lane.left \subseteq lanes[g].left,
         lane.at # "next" => lane.target \in Targets /\ CloudType[lane.target] = g,
         state # NoState
  PROVE  LanesOfOneProduct'
BY OneLane DEF LanesOfOneProduct

\* Who is not between two targets is in a round.
LEMMA InRound ==
  ASSUME LanesOfOneProduct, NEW g \in Groups, lanes[g].at # "next" \/ lanes[g].left # {}
  PROVE  state # NoState
BY BetweenParts DEF LanesOfOneProduct

-----------------------------------------------------------------------------
(***************************************************************************)
(* The steps of a round.                                                   *)
(***************************************************************************)
LEMMA InitInvariant == Init => IInv
<1> SUFFICES ASSUME Init PROVE IInv
  OBVIOUS
<1> USE DEF Init
<1>1. LanesOfOneProduct
  BY BetweenParts DEF LanesOfOneProduct
<1>2. DryRunsUnderMutex
  BY BetweenParts DEF DryRunsUnderMutex
<1>3. Clocks /\ Owed /\ DryOwed
  BY Bounds DEF Clocks, Owed, DryOwed
<1> QED
  BY <1>1, <1>2, <1>3 DEF IInv

\* A step that leaves dry runs alone leaves their invariant alone.
LEMMA DryUnmoved ==
  ASSUME IInv, UNCHANGED dryVars
  PROVE  DryRunsUnderMutex' /\ DryOwed'
BY DEF IInv, DryRunsUnderMutex, DryOwed, dryVars

LEMMA BeginRoundStep ==
  ASSUME IInv, BeginRound
  PROVE  IInv'
<1> USE DEF IInv, BeginRound
<1>1. \A g \in Groups : lanes[g].at = "next" /\ lanes'[g].at = "next"
  BY BetweenParts DEF LanesOfOneProduct
<1>2. LanesOfOneProduct'
  <2>1. state' # NoState
    BY Bounds
  <2>2. \A g \in Groups : lanes'[g].left = InGroup(state', g)
    BY BetweenParts
  <2>3. \A g \in Groups : \A u \in lanes'[g].left : u[2] \in Targets /\ CloudType[u[2]] = g
    BY <2>2, UnitsAreTargets DEF InGroup, GroupKey
  <2> QED
    BY <1>1, <2>1, <2>3 DEF LanesOfOneProduct
<1>3. Clocks'
  BY DEF Clocks, dryVars
<1>4. Owed'
  BY <1>1 DEF Owed, Busy
<1> QED
  BY <1>2, <1>3, <1>4, DryUnmoved

LEMMA FinishRoundStep ==
  ASSUME IInv, FinishRound
  PROVE  IInv'
<1> USE DEF IInv, FinishRound
<1>1. LanesOfOneProduct'
  BY DEF LanesOfOneProduct, Joined
<1>2. Clocks' /\ Owed'
  BY DEF Clocks, Owed, Busy, dryVars
<1> QED
  BY <1>1, <1>2, DryUnmoved

LEMMA StartTargetStep ==
  ASSUME IInv, NEW g \in Groups, StartTarget(g)
  PROVE  IInv'
<1> USE DEF IInv
<1>1. PICK u \in lanes[g].left :
        /\ LaneMoves(g, "next", Lane("sync", lanes[g].left \ {u}, u[2], NoResult))
        /\ UNCHANGED <<targetNextStart, rest>>
  BY DEF StartTarget
<1>2. LanesOfOneProduct'
  <2>1. state # NoState
    BY <1>1, InRound
  <2>2. u[2] \in Targets /\ CloudType[u[2]] = g
    BY <1>1 DEF LanesOfOneProduct
  <2> QED
    BY <1>1, <2>1, <2>2, LaneParts, LaneStays
<1>3. UNCHANGED dryVars /\ Clocks'
  BY <1>1, OneLane DEF Clocks, dryVars
<1>4. \A ct \in Products : Busy(ct) => Busy(ct)'
  BY <1>1, OneLane, LaneParts DEF Busy
<1>5. Owed'
  BY <1>1, <1>4 DEF Owed
<1> QED
  BY <1>2, <1>3, <1>5, DryUnmoved

LEMMA AttemptStep ==
  ASSUME IInv, NEW g \in Groups, Attempt(g)
  PROVE  IInv' /\ lanes[g].at = "sync"
<1> USE DEF IInv
<1>1. PICK at, res, t :
        /\ at \in {"sync", "stamp"} /\ t = lanes[g].target
        /\ LaneMoves(g, "sync", Lane(at, lanes[g].left, t, res))
        /\ rest' = [rest EXCEPT ![CloudType[t]] = 0]
        /\ UNCHANGED targetNextStart
  BY DEF Attempt
<1>2. /\ lanes[g].at = "sync" /\ t \in Targets /\ CloudType[t] = g
      /\ state # NoState
  BY <1>1, OneLane, InRound DEF LanesOfOneProduct
<1>3. LanesOfOneProduct'
  BY <1>1, <1>2, LaneParts, LaneStays
<1>4. UNCHANGED dryVars
  BY <1>1, OneLane
<1>5. Clocks'
  BY <1>1, <1>4 DEF Clocks, dryVars
<1>6. /\ \A ct \in Products : Busy(ct)' <=> Busy(ct)
      /\ Busy(g)
  BY <1>1, <1>2, OneLane, LaneParts DEF Busy
<1>7. Owed'
  BY <1>1, <1>2, <1>6 DEF Owed, Clocks
<1> QED
  BY <1>2, <1>3, <1>4, <1>5, <1>7, DryUnmoved

LEMMA StampStep ==
  ASSUME IInv, NEW g \in Groups, Stamp(g)
  PROVE  IInv' /\ lanes[g].at = "stamp"
<1> USE DEF IInv
<1>1. /\ LaneMoves(g, "stamp", Lane("count", lanes[g].left, lanes[g].target, lanes[g].res))
      /\ targetNextStart' = [targetNextStart EXCEPT
           ![CloudType[lanes[g].target]] = rateLimitInterval(CloudType[lanes[g].target])]
      /\ UNCHANGED rest
  BY DEF Stamp
<1>2. /\ lanes[g].at = "stamp" /\ lanes[g].target \in Targets /\ CloudType[lanes[g].target] = g
      /\ state # NoState
  BY <1>1, OneLane, InRound DEF LanesOfOneProduct
<1>3. LanesOfOneProduct'
  BY <1>1, <1>2, LaneParts, LaneStays
<1>4. UNCHANGED dryVars
  BY <1>1, OneLane
<1>5. Clocks'
  BY <1>1, <1>2, <1>4, Bounds DEF Clocks, dryVars
<1>6. \A ct \in Products : ct # g => (Busy(ct)' <=> Busy(ct))
  BY <1>1, <1>2, OneLane, LaneParts DEF Busy
<1>7. Owed'
  BY <1>1, <1>2, <1>6, Bounds DEF Owed, Clocks
<1> QED
  BY <1>2, <1>3, <1>4, <1>5, <1>7, DryUnmoved

LEMMA CountStep ==
  ASSUME IInv, NEW g \in Groups, Count(g)
  PROVE  IInv' /\ lanes'[g].at = "next"
<1> USE DEF IInv
<1>1. /\ LaneMoves(g, "count", Between(lanes[g].left))
      /\ UNCHANGED <<targetNextStart, rest>>
  BY DEF Count
<1>2. lanes[g].at = "count" /\ state # NoState
  BY <1>1, OneLane, InRound
<1>3. LanesOfOneProduct'
  BY <1>1, <1>2, BetweenParts, LaneStays
<1>4. UNCHANGED dryVars /\ Clocks'
  BY <1>1, OneLane DEF Clocks, dryVars
<1>5. \A ct \in Products : Busy(ct)' <=> Busy(ct)
  BY <1>1, <1>2, OneLane, BetweenParts DEF Busy
<1>6. Owed'
  BY <1>1, <1>5 DEF Owed
<1> QED
  BY <1>1, <1>3, <1>4, <1>6, DryUnmoved, OneLane, BetweenParts

-----------------------------------------------------------------------------
(***************************************************************************)
(* The steps of a dry run, and time.                                       *)
(***************************************************************************)
LEMMA RoundUnmoved ==
  ASSUME IInv, UNCHANGED roundVars
  PROVE  LanesOfOneProduct' /\ Owed'
BY DEF IInv, LanesOfOneProduct, Owed, Busy, roundVars

LEMMA BeginDryRunStep ==
  ASSUME IInv, NEW c \in Callers, BeginDryRun(c)
  PROVE  IInv'
<1> USE DEF IInv
<1>1. PICK s \in States : dry' = [dry EXCEPT ![c] = Between(Units(s))]
  BY DEF BeginDryRun
<1>2. dryRunMu = "free" /\ dryRunMu' = c /\ UNCHANGED <<roundVars, dryRunNextRead, dryRest>>
  BY DEF BeginDryRun
<1>3. DryRunsUnderMutex'
  <2>1. /\ dry'[c].at = "next" /\ dry'[c].left = Units(s)
        /\ \A d \in Callers : d # c => dry'[d] = dry[d]
        /\ dry' = [d \in Callers |-> dry'[d]]
    BY <1>1, BetweenParts DEF DryRunsUnderMutex
  <2>2. \A d \in Callers : dry[d].at # "read"
    BY <1>2, Bounds DEF DryRunsUnderMutex
  <2> QED
    BY <2>1, <2>2, UnitsAreTargets DEF DryRunsUnderMutex
<1>4. Clocks' /\ DryOwed'
  BY <1>2 DEF Clocks, DryOwed, roundVars
<1> QED
  BY <1>2, <1>3, <1>4, RoundUnmoved

\* The step of the caller that holds the mutex.
LEMMA OneDryRun ==
  ASSUME DryRunsUnderMutex, NEW c \in Callers, NEW from, NEW run, DryMoves(c, from, run)
  PROVE  /\ dryRunMu = c /\ dry[c].at = from /\ dry'[c] = run
         /\ dry' = [d \in Callers |-> dry'[d]]
         /\ \A d \in Callers : d # c => dry'[d] = dry[d] /\ dry[d].at = "next"
         /\ UNCHANGED roundVars
BY DEF DryRunsUnderMutex, DryMoves

LEMMA DryReadStep ==
  ASSUME IInv, NEW c \in Callers, DryRead(c)
  PROVE  IInv'
<1> USE DEF IInv
<1>1. PICK u \in dry[c].left :
        /\ DryMoves(c, "next", Lane("read", dry[c].left \ {u}, u[2], NoResult))
        /\ UNCHANGED <<dryRunMu, dryRunNextRead, dryRest>>
  BY DEF DryRead
<1>2. u[2] \in Targets
  BY DEF DryRunsUnderMutex
<1>3. DryRunsUnderMutex'
  BY <1>1, <1>2, OneDryRun, LaneParts DEF DryRunsUnderMutex
<1>4. UNCHANGED roundVars
  BY <1>1, OneDryRun
<1>5. Clocks' /\ DryOwed'
  BY <1>1, <1>4 DEF Clocks, DryOwed, roundVars
<1> QED
  BY <1>3, <1>4, <1>5, RoundUnmoved

LEMMA DryStampStep ==
  ASSUME IInv, NEW c \in Callers, DryStamp(c)
  PROVE  IInv' /\ dry[c].at = "read"
<1> USE DEF IInv
<1>1. /\ DryMoves(c, "read", Between(dry[c].left))
      /\ dryRunNextRead' = [dryRunNextRead EXCEPT
           ![CloudType[dry[c].target]] = rateLimitInterval(CloudType[dry[c].target])]
      /\ dryRest' = [dryRest EXCEPT ![CloudType[dry[c].target]] = 0]
      /\ dryRunMu' = dryRunMu
  BY DEF DryStamp
<1>2. dry[c].at = "read" /\ CloudType[dry[c].target] \in Products
  BY <1>1, OneDryRun, Bounds DEF DryRunsUnderMutex
<1>3. DryRunsUnderMutex'
  BY <1>1, OneDryRun, BetweenParts DEF DryRunsUnderMutex
<1>4. UNCHANGED roundVars
  BY <1>1, OneDryRun
<1>5. Clocks'
  BY <1>1, <1>2, <1>4, Bounds DEF Clocks, roundVars
<1>6. DryOwed'
  BY <1>1, <1>2, Bounds DEF DryOwed, Clocks
<1> QED
  BY <1>2, <1>3, <1>4, <1>5, <1>6, RoundUnmoved

LEMMA EndDryRunStep ==
  ASSUME IInv, NEW c \in Callers, EndDryRun(c)
  PROVE  IInv'
<1> USE DEF IInv
<1>1. /\ DryMoves(c, "next", Between({}))
      /\ UNCHANGED <<dryRunNextRead, dryRest>>
  BY DEF EndDryRun
<1>2. DryRunsUnderMutex'
  BY <1>1, OneDryRun, BetweenParts DEF DryRunsUnderMutex
<1>3. UNCHANGED roundVars
  BY <1>1, OneDryRun
<1>4. Clocks' /\ DryOwed'
  BY <1>1, <1>3 DEF Clocks, DryOwed, roundVars
<1> QED
  BY <1>2, <1>3, <1>4, RoundUnmoved

\* What time takes from the cooldown it adds to what has passed.
LEMMA Exchanged ==
  ASSUME NEW passed \in [Products -> Nat], NEW left \in [Products -> Nat]
  PROVE  /\ More(passed) \in [Products -> Nat] /\ Less(left) \in [Products -> Nat]
         /\ \A ct \in Products :
              passed[ct] + left[ct] >= rateLimitInterval(ct) =>
                More(passed)[ct] + Less(left)[ct] >= rateLimitInterval(ct)
<1>1. More(passed) \in [Products -> Nat]
  BY DEF More
<1>2. Less(left) \in [Products -> Nat]
  BY DEF Less
<1>3. ASSUME NEW ct \in Products, passed[ct] + left[ct] >= rateLimitInterval(ct)
      PROVE  More(passed)[ct] + Less(left)[ct] >= rateLimitInterval(ct)
  <2>1. rateLimitInterval(ct) \in Nat /\ passed[ct] \in Nat /\ left[ct] \in Nat
    BY Bounds
  <2>2. More(passed)[ct] = IF passed[ct] = rateLimitInterval(ct) THEN passed[ct] ELSE passed[ct] + 1
    BY DEF More
  <2>3. Less(left)[ct] = IF left[ct] = 0 THEN 0 ELSE left[ct] - 1
    BY DEF Less
  <2> QED
    BY <1>3, <2>1, <2>2, <2>3
<1> QED
  BY <1>1, <1>2, <1>3

LEMMA TimePassesStep ==
  ASSUME IInv, TimePasses
  PROVE  IInv'
<1> USE DEF IInv, TimePasses
<1>1. LanesOfOneProduct' /\ DryRunsUnderMutex'
  BY DEF LanesOfOneProduct, DryRunsUnderMutex
<1>2. Clocks'
  BY Exchanged DEF Clocks
<1>3. \A ct \in Products : Busy(ct)' <=> Busy(ct)
  BY DEF Busy
<1>4. Owed'
  BY <1>3, Exchanged DEF Owed, Clocks
<1>5. DryOwed'
  BY Exchanged DEF DryOwed, Clocks
<1> QED
  BY <1>1, <1>2, <1>4, <1>5

-----------------------------------------------------------------------------
(***************************************************************************)
(* The theorems.                                                           *)
(***************************************************************************)
LEMMA NextInvariant == IInv /\ [Next]_vars => IInv'
<1> SUFFICES ASSUME IInv, [Next]_vars PROVE IInv'
  OBVIOUS
<1>1. CASE UNCHANGED vars
  BY <1>1, DryUnmoved, RoundUnmoved DEF vars, IInv, Clocks, roundVars, dryVars
<1> QED
  BY <1>1, BeginRoundStep, FinishRoundStep, StartTargetStep, AttemptStep, StampStep, CountStep,
     BeginDryRunStep, DryReadStep, DryStampStep, EndDryRunStep, TimePassesStep DEF Next

\* A product waits out its cooldown: what has passed of it and what is left add up to it.
THEOREM CooldownsAddUp == Spec => []IInv
BY InitInvariant, NextInvariant, PTL DEF Spec

LEMMA AtMostOne ==
  ASSUME NEW S, NEW x, S \subseteq {x}
  PROVE  Cardinality(S) <= 1
<1>1. CASE S = {}
  BY <1>1, FS_EmptySet
<1>2. CASE S = {x}
  BY <1>2, FS_Singleton
<1> QED
  BY <1>1, <1>2

\* No two goroutines are at targets of one product, and no two dry runs read one.
LEMMA OneAtATime ==
  ASSUME IInv', NEW ct \in Products
  PROVE  Cardinality(Syncing(ct)') <= 1 /\ Cardinality(Reading(ct)') <= 1
<1>1. Syncing(ct)' \subseteq {ct}
  BY DEF IInv, LanesOfOneProduct, Syncing
<1>2. Reading(ct)' \subseteq {dryRunMu'}
  BY DEF IInv, DryRunsUnderMutex, Reading
<1> QED
  BY <1>1, <1>2, AtMostOne

\* A target starts, and a dry run reads, only with nothing left of the cooldown.
LEMMA TargetsAreSpaced ==
  ASSUME IInv, [Next]_vars, NEW ct \in Products, Syncing(ct) = {}, Syncing(ct)' # {}
  PROVE  rest[ct] >= rateLimitInterval(ct)
<1> USE DEF IInv
<1>1. PICK g \in Groups : lanes'[g].at = "sync" /\ CloudType[lanes'[g].target] = ct
  BY DEF Syncing
<1>2. lanes'[g] # lanes[g]
  BY <1>1 DEF Syncing
<1>3. PICK h \in Groups : StartTarget(h) \/ Attempt(h) \/ Stamp(h) \/ Count(h)
  <2>1. CASE BeginRound
    BY <2>1, <1>1, BetweenParts DEF BeginRound
  <2>2. CASE FinishRound \/ TimePasses \/ UNCHANGED vars
    BY <2>2, <1>2 DEF FinishRound, TimePasses, vars, roundVars
  <2>3. ASSUME NEW c \in Callers, BeginDryRun(c) \/ DryRead(c) \/ DryStamp(c) \/ EndDryRun(c)
        PROVE  FALSE
    BY <2>3, <1>2 DEF BeginDryRun, DryRead, DryStamp, EndDryRun, DryMoves, roundVars
  <2> QED
    BY <2>1, <2>2, <2>3 DEF Next
<1>4. CASE StartTarget(h)
  <2>1. PICK u \in lanes[h].left :
          /\ targetNextStart[CloudType[u[2]]] = 0
          /\ LaneMoves(h, "next", Lane("sync", lanes[h].left \ {u}, u[2], NoResult))
    BY <1>4 DEF StartTarget
  <2>2. lanes[h].at = "next" /\ h = g /\ lanes'[g].target = u[2]
    BY <2>1, <1>2, OneLane, LaneParts
  <2>3. CloudType[u[2]] = g /\ g = ct
    BY <2>1, <2>2, <1>1 DEF LanesOfOneProduct
  <2>4. ~Busy(ct) /\ targetNextStart[ct] = 0
    BY <2>1, <2>2, <2>3 DEF Busy
  <2> QED
    BY <2>4, Bounds DEF Owed, Clocks
<1>5. CASE Attempt(h)
  <2>1. PICK lane : LaneMoves(h, "sync", lane)
    BY <1>5 DEF Attempt
  <2>2. lanes[h].at = "sync" /\ h = g
    BY <2>1, <1>2, OneLane
  <2>3. IInv'
    BY <1>5, AttemptStep
  <2>4. g = ct /\ CloudType[lanes[g].target] = g
    BY <2>2, <2>3, <1>1 DEF LanesOfOneProduct
  <2> QED
    BY <2>2, <2>4 DEF Syncing
<1>6. CASE Stamp(h)
  BY <1>1, <1>2, <1>6, OneLane, LaneParts DEF Stamp
<1>7. CASE Count(h)
  BY <1>1, <1>2, <1>7, OneLane, BetweenParts DEF Count
<1> QED
  BY <1>3, <1>4, <1>5, <1>6, <1>7

LEMMA ReadsAreSpaced ==
  ASSUME IInv, [Next]_vars, NEW ct \in Products, Reading(ct) = {}, Reading(ct)' # {}
  PROVE  dryRest[ct] >= rateLimitInterval(ct)
<1> USE DEF IInv
<1>1. PICK c \in Callers : dry'[c].at = "read" /\ CloudType[dry'[c].target] = ct
  BY DEF Reading
<1>2. dry'[c] # dry[c]
  BY <1>1 DEF Reading
<1>3. PICK d \in Callers : BeginDryRun(d) \/ DryRead(d) \/ DryStamp(d) \/ EndDryRun(d)
  <2>1. CASE BeginRound \/ FinishRound \/ TimePasses \/ UNCHANGED vars
    BY <2>1, <1>2 DEF BeginRound, FinishRound, TimePasses, vars, dryVars
  <2>2. ASSUME NEW g \in Groups, StartTarget(g) \/ Attempt(g) \/ Stamp(g) \/ Count(g)
        PROVE  FALSE
    BY <2>2, <1>2 DEF StartTarget, Attempt, Stamp, Count, LaneMoves, dryVars
  <2> QED
    BY <2>1, <2>2 DEF Next
<1>4. CASE DryRead(d)
  <2>1. PICK u \in dry[d].left :
          /\ dryRunNextRead[CloudType[u[2]]] = 0
          /\ DryMoves(d, "next", Lane("read", dry[d].left \ {u}, u[2], NoResult))
    BY <1>4 DEF DryRead
  <2>2. d = c /\ dry'[c].target = u[2]
    BY <2>1, <1>2, OneDryRun, LaneParts
  <2>3. dryRunNextRead[ct] = 0
    BY <2>1, <2>2, <1>1
  <2> QED
    BY <2>3, Bounds DEF DryOwed, Clocks
<1>5. CASE BeginDryRun(d)
  BY <1>1, <1>2, <1>5, BetweenParts DEF BeginDryRun, DryRunsUnderMutex
<1>6. CASE DryStamp(d)
  BY <1>1, <1>2, <1>6, OneDryRun, BetweenParts DEF DryStamp
<1>7. CASE EndDryRun(d)
  BY <1>1, <1>2, <1>7, OneDryRun, BetweenParts DEF EndDryRun
<1> QED
  BY <1>3, <1>4, <1>5, <1>6, <1>7

\* For any targets, results of attempts and cooldowns, the engine keeps the cooldown of
\* a product between any two of its targets, retries included, across rounds and states,
\* and dry runs keep it between their reads.
THEOREM CooldownsHold == Spec => Spaced
<1>1. IInv /\ IInv' /\ [Next]_vars =>
        [\A ct \in Products :
           /\ Cardinality(Syncing(ct)') <= 1 /\ Cardinality(Reading(ct)') <= 1
           /\ Syncing(ct) = {} /\ Syncing(ct)' # {} => rest[ct] >= rateLimitInterval(ct)
           /\ Reading(ct) = {} /\ Reading(ct)' # {} => dryRest[ct] >= rateLimitInterval(ct)]_vars
  BY OneAtATime, TargetsAreSpaced, ReadsAreSpaced
<1> QED
  BY <1>1, CooldownsAddUp, PTL DEF Spec, Spaced

-----------------------------------------------------------------------------
(***************************************************************************)
(* Sums over finite sets.                                                  *)
(***************************************************************************)
\* Of some subsets of a finite set, one contains no other one.
LEMMA SmallestSubset ==
  ASSUME NEW S, IsFiniteSet(S), NEW B \in SUBSET SUBSET S, B # {}
  PROVE  \E s \in B : \A t \in B : t \subseteq s => t = s
<1>1. B \subseteq FiniteSubsetsOf(S)
  BY FS_FiniteSubsetsOfFinite
<1> DEFINE R == StrictSubsetOrdering(S)
<1>2. IsWellFoundedOn(R, FiniteSubsetsOf(S))
  BY FS_StrictSubsetOrderingWellFounded
<1> HIDE DEF R
<1>3. PICK s \in B : \A t \in B : <<t, s>> \notin R
  BY <1>1, <1>2, WFMin
<1> QED
  BY <1>3 DEF R, StrictSubsetOrdering

Chosen(s) == CHOOSE x \in s : TRUE

LEMMA ChosenIsIn == ASSUME NEW s, s # {} PROVE Chosen(s) \in s
BY DEF Chosen

\* f gives every subset of S the sum of F over it.
IsSum(F, S, f) ==
  /\ f \in [SUBSET S -> Nat] /\ f[{}] = 0
  /\ \A s \in SUBSET S : s # {} => f[s] = F[Chosen(s)] + f[s \ {Chosen(s)}]

\* The order of the terms does not matter.
LEMMA AnyOrder ==
  ASSUME NEW S, IsFiniteSet(S), NEW F \in [S -> Nat], NEW f, IsSum(F, S, f)
  PROVE  \A s \in SUBSET S : \A x \in s : f[s] = F[x] + f[s \ {x}]
<1> DEFINE B == {s \in SUBSET S : ~ \A x \in s : f[s] = F[x] + f[s \ {x}]}
<1> SUFFICES ASSUME B # {} PROVE FALSE
  OBVIOUS
<1>1. PICK s \in B : \A t \in B : t \subseteq s => t = s
  <2>1. B \in SUBSET SUBSET S
    OBVIOUS
  <2> HIDE DEF B
  <2> QED
    BY <2>1, SmallestSubset
<1>2. PICK x \in s : f[s] # F[x] + f[s \ {x}]
  OBVIOUS
<1>3. \A t \in SUBSET S : t \subseteq s /\ t # s => \A y \in t : f[t] = F[y] + f[t \ {y}]
  BY <1>1
<1> DEFINE c == Chosen(s)
<1>4. s \in SUBSET S /\ c \in s /\ f[s] = F[c] + f[s \ {c}]
  BY <1>2, ChosenIsIn DEF IsSum
<1> HIDE DEF B, c
<1>5. c # x
  BY <1>2, <1>4
<1> DEFINE a == s \ {c}
           b == s \ {x}
           r == s \ {c, x}
<1>6. /\ a \in SUBSET S /\ a \subseteq s /\ a # s /\ x \in a /\ a \ {x} = r
      /\ b \in SUBSET S /\ b \subseteq s /\ b # s /\ c \in b /\ b \ {c} = r
  BY <1>2, <1>4, <1>5
<1>7. f[a] = F[x] + f[r]
  BY <1>3, <1>6
<1>8. f[b] = F[c] + f[r]
  BY <1>3, <1>6
<1>9. F[x] \in Nat /\ F[c] \in Nat /\ f[r] \in Nat /\ f[a] \in Nat /\ f[b] \in Nat
  <2>1. r \in SUBSET S /\ x \in S /\ c \in S
    BY <1>4, <1>6
  <2> HIDE DEF a, b, r
  <2> QED
    BY <1>6, <2>1 DEF IsSum
<1> HIDE DEF a, b, r
<1>10. f[s] = F[c] + (F[x] + f[r])
  BY <1>4, <1>7 DEF a
<1>11. f[s] = F[x] + f[b]
  BY <1>8, <1>9, <1>10
<1> QED
  BY <1>2, <1>11 DEF b

\* Two sums agree where their terms do.
LEMMA SameSum ==
  ASSUME NEW S, IsFiniteSet(S), NEW F \in [S -> Nat], NEW f, IsSum(F, S, f),
         NEW T, NEW G \in [T -> Nat], NEW g, IsSum(G, T, g),
         S \subseteq T, \A x \in S : F[x] = G[x]
  PROVE  \A s \in SUBSET S : f[s] = g[s]
<1> DEFINE B == {s \in SUBSET S : f[s] # g[s]}
<1> SUFFICES ASSUME B # {} PROVE FALSE
  OBVIOUS
<1>1. PICK s \in B : \A t \in B : t \subseteq s => t = s
  <2>1. B \in SUBSET SUBSET S
    OBVIOUS
  <2> HIDE DEF B
  <2> QED
    BY <2>1, SmallestSubset
<1>2. s \in SUBSET S /\ s \in SUBSET T /\ f[s] # g[s]
  BY <1>1
<1>3. s # {}
  BY <1>2 DEF IsSum
<1> DEFINE c == Chosen(s)
           a == s \ {c}
<1>4. c \in s /\ a \in SUBSET S /\ a \subseteq s /\ a # s
  BY <1>2, <1>3, ChosenIsIn
<1>5. f[a] = g[a]
  BY <1>1, <1>4
<1>6. f[s] = F[c] + f[a] /\ g[s] = G[c] + g[a]
  BY <1>2, <1>3 DEF IsSum
<1> HIDE DEF c, a
<1>7. F[c] = G[c]
  BY <1>2, <1>4
<1> QED
  BY <1>2, <1>5, <1>6, <1>7

\* The subsets of S up to the size of T; f gives each of them its sum.
UpTo(S, T) == {s \in SUBSET S : Cardinality(s) <= Cardinality(T)}
IsSumUpTo(F, S, T, f) ==
  /\ f \in [UpTo(S, T) -> Nat] /\ f[{}] = 0
  /\ \A s \in UpTo(S, T) : s # {} => f[s] = F[Chosen(s)] + f[s \ {Chosen(s)}]

\* Every finite set has a sum: a smallest set that had none would have one.
LEMMA SumExists ==
  ASSUME NEW S, IsFiniteSet(S), NEW F \in [S -> Nat]
  PROVE  \E f : IsSum(F, S, f)
<1>1. \A s \in SUBSET S : IsFiniteSet(s) /\ Cardinality(s) \in Nat /\ Cardinality(s) <= Cardinality(S)
  BY FS_Subset, FS_CardinalityType
<1>2. \A s \in SUBSET S : Cardinality(s) = 0 <=> s = {}
  BY <1>1, FS_EmptySet
<1>3. \A s \in SUBSET S : \A x \in s : Cardinality(s \ {x}) = Cardinality(s) - 1
  BY <1>1, FS_RemoveElement
<1> DEFINE B == {T \in SUBSET S : ~ \E f : IsSumUpTo(F, S, T, f)}
<1>4. ASSUME B # {} PROVE FALSE
  <2>1. PICK T \in B : \A t \in B : t \subseteq T => t = T
    <3>1. B \in SUBSET SUBSET S
      OBVIOUS
    <3> HIDE DEF B
    <3> QED
      BY <1>4, <3>1, SmallestSubset
  <2>2. T \in SUBSET S /\ ~ \E f : IsSumUpTo(F, S, T, f)
    BY <2>1
  <2>3. T # {}
    <3> SUFFICES ASSUME T = {} PROVE \E f : IsSumUpTo(F, S, T, f)
      BY <2>2
    <3>1. UpTo(S, T) = {{}}
      BY <1>1, <1>2 DEF UpTo
    <3>2. IsSumUpTo(F, S, T, [s \in {{}} |-> 0])
      BY <3>1 DEF IsSumUpTo
    <3> QED
      BY <3>2
  <2> DEFINE c == Chosen(T)
             U == T \ {c}
  <2>4. c \in T /\ U \in SUBSET S /\ U \subseteq T /\ U # T
    BY <2>2, <2>3, ChosenIsIn
  <2>5. Cardinality(T) = Cardinality(U) + 1 /\ Cardinality(U) \in Nat
    BY <1>1, <1>3, <2>2, <2>4
  <2>6. U \notin B
    BY <2>1, <2>4
  <2>7. PICK f : IsSumUpTo(F, S, U, f)
    BY <2>4, <2>6
  <2> HIDE DEF c, U, B
  <2> DEFINE g == [s \in UpTo(S, T) |-> IF s = {} THEN 0 ELSE F[Chosen(s)] + f[s \ {Chosen(s)}]]
  <2>8. \A s \in UpTo(S, T) : s # {} =>
          Chosen(s) \in S /\ s \ {Chosen(s)} \in UpTo(S, U)
    <3> SUFFICES ASSUME NEW s \in UpTo(S, T), s # {}
                 PROVE  Chosen(s) \in S /\ s \ {Chosen(s)} \in UpTo(S, U)
      OBVIOUS
    <3>1. s \in SUBSET S /\ Chosen(s) \in s /\ Cardinality(s) <= Cardinality(T) /\ Cardinality(s) \in Nat
      BY <1>1, ChosenIsIn DEF UpTo
    <3>2. Cardinality(s \ {Chosen(s)}) <= Cardinality(U)
      BY <1>3, <2>5, <3>1
    <3> QED
      BY <3>1, <3>2 DEF UpTo
  <2>9. {} \in UpTo(S, T) /\ {} \in UpTo(S, U) /\ UpTo(S, U) \subseteq UpTo(S, T)
    <3>1. Cardinality({}) = 0
      BY FS_EmptySet
    <3> QED
      BY <1>1, <2>5, <3>1 DEF UpTo
  <2>10. g \in [UpTo(S, T) -> Nat] /\ g[{}] = 0
    BY <2>7, <2>8, <2>9 DEF IsSumUpTo
  <2>11. \A s \in UpTo(S, U) : g[s] = f[s]
    BY <2>7, <2>9 DEF IsSumUpTo
  <2>12. \A s \in UpTo(S, T) : s # {} => g[s] = F[Chosen(s)] + g[s \ {Chosen(s)}]
    BY <2>8, <2>11
  <2>13. IsSumUpTo(F, S, T, g)
    BY <2>10, <2>12 DEF IsSumUpTo
  <2> QED
    BY <2>2, <2>13
<1>5. PICK f : IsSumUpTo(F, S, S, f)
  BY <1>4
<1>6. UpTo(S, S) = SUBSET S
  BY <1>1 DEF UpTo
<1> QED
  BY <1>5, <1>6 DEF IsSumUpTo, IsSum

\* The recursive definition of a fold has the sum as its only solution.
LEMMA SumIsFold ==
  ASSUME NEW S, IsFiniteSet(S), NEW F \in [S -> Nat], NEW h,
         h = [s \in SUBSET S |-> IF s = {} THEN 0 ELSE F[Chosen(s)] + h[s \ {Chosen(s)}]]
  PROVE  IsSum(F, S, h)
<1>1. PICK f : IsSum(F, S, f)
  BY SumExists
<1>2. /\ h[{}] = 0
      /\ \A s \in SUBSET S : s # {} => h[s] = F[Chosen(s)] + h[s \ {Chosen(s)}]
  OBVIOUS
<1> DEFINE B == {s \in SUBSET S : h[s] # f[s]}
<1>3. ASSUME B # {} PROVE FALSE
  <2>1. PICK s \in B : \A t \in B : t \subseteq s => t = s
    <3>1. B \in SUBSET SUBSET S
      OBVIOUS
    <3> HIDE DEF B
    <3> QED
      BY <1>3, <3>1, SmallestSubset
  <2>2. s \in SUBSET S /\ h[s] # f[s] /\ s # {}
    BY <1>1, <1>2, <2>1 DEF IsSum
  <2>3. Chosen(s) \in s
    BY <2>2, ChosenIsIn
  <2>4. h[s \ {Chosen(s)}] = f[s \ {Chosen(s)}]
    BY <2>1, <2>2, <2>3
  <2> QED
    BY <1>1, <1>2, <2>2, <2>4 DEF IsSum
<1>4. \A s \in SUBSET S : h[s] = f[s]
  BY <1>3
<1>5. h \in [SUBSET S -> Nat]
  <2>1. f \in [SUBSET S -> Nat]
    BY <1>1 DEF IsSum
  <2>2. DOMAIN h = SUBSET S /\ h = [s \in SUBSET S |-> h[s]]
    OBVIOUS
  <2> QED
    BY <1>4, <2>1, <2>2
<1> QED
  BY <1>2, <1>5 DEF IsSum

\* A total of the summary: of the candidates or the deferred ones.
TotalOf(e, k, S) == MapThenSumSet(LAMBDA t : e[t].saw[k], S)

LEMMA TotalsOfSummary ==
  ASSUME NEW e, NEW S
  PROVE  /\ MapThenSumSet(LAMBDA t : e[t].saw.candidates, S) = TotalOf(e, "candidates", S)
         /\ MapThenSumSet(LAMBDA t : e[t].saw.deferred, S) = TotalOf(e, "deferred", S)
BY DEF TotalOf, MapThenSumSet, MapThenFoldSet

LEMMA TotalIsSum ==
  ASSUME NEW e, NEW k, NEW S, IsFiniteSet(S), \A t \in S : e[t].saw[k] \in Nat
  PROVE  \E f : IsSum([t \in S |-> e[t].saw[k]], S, f) /\ TotalOf(e, k, S) = f[S]
<1> DEFINE F == [t \in S |-> e[t].saw[k]]
           Body(f) == f = [s \in SUBSET S |-> IF s = {} THEN 0
                             ELSE e[CHOOSE x \in s : TRUE].saw[k] + f[s \ {CHOOSE x \in s : TRUE}]]
           h == CHOOSE f : Body(f)
<1>1. TotalOf(e, k, S) = h[S]
  BY DEF TotalOf, MapThenSumSet, MapThenFoldSet
<1>2. \A f : Body(f) <=>
         f = [s \in SUBSET S |-> IF s = {} THEN 0 ELSE F[Chosen(s)] + f[s \ {Chosen(s)}]]
  <2>1. \A s \in SUBSET S : s # {} => F[Chosen(s)] = e[CHOOSE x \in s : TRUE].saw[k]
    BY ChosenIsIn DEF Chosen
  <2> QED
    BY <2>1 DEF Chosen
<1>3. F \in [S -> Nat]
  OBVIOUS
<1> HIDE DEF F
<1>4. PICK f : IsSum(F, S, f)
  BY <1>3, SumExists
<1>5. f = [s \in SUBSET S |-> IF s = {} THEN 0 ELSE F[Chosen(s)] + f[s \ {Chosen(s)}]]
  BY <1>4 DEF IsSum
<1>6. Body(h)
  <2>1. Body(f)
    BY <1>2, <1>5
  <2> HIDE DEF Body
  <2> QED
    BY <2>1
<1> HIDE DEF h
<1>7. IsSum(F, S, h)
  BY <1>2, <1>3, <1>6, SumIsFold
<1> QED
  BY <1>1, <1>7 DEF F

LEMMA TotalOfNone ==
  ASSUME NEW e, NEW k
  PROVE  TotalOf(e, k, {}) = 0
<1>1. PICK f : IsSum([t \in {} |-> e[t].saw[k]], {}, f) /\ TotalOf(e, k, {}) = f[{}]
  BY TotalIsSum, FS_EmptySet
<1> QED
  BY <1>1 DEF IsSum

\* A total depends on what it is of only.
LEMMA SameTotal ==
  ASSUME NEW d, NEW e, NEW k, NEW S, IsFiniteSet(S),
         \A t \in S : e[t].saw[k] \in Nat /\ d[t].saw[k] = e[t].saw[k]
  PROVE  TotalOf(d, k, S) = TotalOf(e, k, S) /\ TotalOf(e, k, S) \in Nat
<1> DEFINE F == [t \in S |-> e[t].saw[k]]
           G == [t \in S |-> d[t].saw[k]]
<1>1. F \in [S -> Nat] /\ G \in [S -> Nat] /\ \A x \in S : F[x] = G[x]
  OBVIOUS
<1>2. PICK f : IsSum(F, S, f) /\ TotalOf(e, k, S) = f[S]
  BY TotalIsSum
<1>3. PICK g : IsSum(G, S, g) /\ TotalOf(d, k, S) = g[S]
  BY TotalIsSum
<1> HIDE DEF F, G
<1>4. \A s \in SUBSET S : f[s] = g[s]
  BY <1>1, <1>2, <1>3, SameSum
<1>5. f[S] = g[S] /\ f[S] \in Nat
  BY <1>2, <1>4 DEF IsSum
<1> QED
  BY <1>2, <1>3, <1>5

\* One more adds what it has.
LEMMA OneMore ==
  ASSUME NEW e, NEW k, NEW S, IsFiniteSet(S), NEW x, x \notin S,
         \A t \in S \union {x} : e[t].saw[k] \in Nat
  PROVE  TotalOf(e, k, S \union {x}) = TotalOf(e, k, S) + e[x].saw[k]
<1> DEFINE T == S \union {x}
           F == [t \in S |-> e[t].saw[k]]
           G == [t \in T |-> e[t].saw[k]]
<1>1. F \in [S -> Nat] /\ G \in [T -> Nat] /\ (\A y \in S : F[y] = G[y]) /\ G[x] = e[x].saw[k]
  OBVIOUS
<1>2. IsFiniteSet(T) /\ x \in T /\ S \subseteq T /\ T \ {x} = S
  BY FS_AddElement
<1>3. PICK f : IsSum(F, S, f) /\ TotalOf(e, k, S) = f[S]
  BY TotalIsSum
<1>4. PICK g : IsSum(G, T, g) /\ TotalOf(e, k, T) = g[T]
  <2>1. \A t \in T : e[t].saw[k] \in Nat
    OBVIOUS
  <2> HIDE DEF T
  <2> QED
    BY <1>2, <2>1, TotalIsSum
<1> HIDE DEF F, G, T
<1>5. f[S] = g[S]
  BY <1>1, <1>2, <1>3, <1>4, SameSum
<1>6. g[T] = G[x] + g[S]
  BY <1>1, <1>2, <1>4, AnyOrder
<1>7. f[S] \in Nat /\ G[x] \in Nat /\ g[S] \in Nat
  BY <1>1, <1>2, <1>3, <1>5 DEF IsSum
<1>8. TotalOf(e, k, T) = TotalOf(e, k, S) + e[x].saw[k]
  BY <1>1, <1>3, <1>4, <1>5, <1>6, <1>7
<1> QED
  BY <1>8 DEF T

-----------------------------------------------------------------------------
(***************************************************************************)
(* The counters of a round: what they say of the targets counted so far.   *)
(***************************************************************************)
\* What a target may have come to, and the result its goroutine carries.
Endings ==
  {e \in [outcome : {"success", "partial", "failed"}, wrote : BOOLEAN,
          saw : Observations \union {NoObservation}, ever : BOOLEAN] :
     e.saw # NoObservation => e.ever}
Results ==
  [attempt : Nat, outcome : {"success", "partial", "failed"}, wrote : BOOLEAN,
   obs : Observations \union {NoObservation}, observedBy : Nat]

\* The result of the last attempt says what the target came to.
Agrees(e, r) ==
  /\ e.outcome = r.outcome /\ (e.wrote <=> r.wrote)
  /\ e.ever <=> r.obs # NoObservation
  /\ e.saw # NoObservation => r.obs = e.saw /\ r.observedBy = r.attempt
  /\ e.saw = NoObservation /\ e.ever => r.observedBy # r.attempt

Ending ==
  /\ DOMAIN ended \subseteq Targets /\ \A t \in DOMAIN ended : ended[t] \in Endings
  /\ \A g \in Groups :
       LET r == lanes[g].res IN
       /\ lanes[g].at # "next" => r \in Results
       /\ lanes[g].at = "sync" => r.observedBy <= r.attempt
       /\ lanes[g].at \in {"stamp", "count"} =>
            lanes[g].target \in DOMAIN ended /\ Agrees(ended[lanes[g].target], r)

\* Every target of the snapshot that a rule applies to is still to come, at
\* work or at its end, and only in one of these places.
Applied(s) == {u[2] : u \in Units(s)}
Covered ==
  /\ state # NoState => state \in States
  /\ state = NoState => DOMAIN ended = {}
  /\ DOMAIN ended \subseteq Applied(state)
  /\ \A g \in Groups :
       /\ \A u \in lanes[g].left :
            /\ u \in Units(state) /\ u[2] \notin DOMAIN ended
            /\ lanes[g].at = "sync" => u[2] # lanes[g].target
       /\ lanes[g].at = "sync" => lanes[g].target \in Applied(state) \ DOMAIN ended
  /\ \A u \in Units(state) :
       \/ u[2] \in DOMAIN ended
       \/ u \in lanes[CloudType[u[2]]].left
       \/ lanes[CloudType[u[2]]].at = "sync" /\ lanes[CloudType[u[2]]].target = u[2]

\* The classes of the summary among the targets C, which came to e.
Failed(e, C)     == {t \in C : e[t].outcome = "failed"}
Skipped(e, C)    == {t \in C : e[t].outcome = "partial"}
Changed(e, C)    == {t \in C : e[t].outcome = "success" /\ e[t].wrote}
Fine(e, C)       == {t \in C : e[t].outcome = "success" /\ ~e[t].wrote}
Confirmed(e, C)  == {t \in C : e[t].saw.basis \in {"s1", "s2"} /\ e[t].saw.complete}
Estimated(e, C)  == {t \in C : e[t].saw # NoObservation
                                 /\ (e[t].saw.basis = "delete_progress" \/ ~e[t].saw.complete)}
Historical(e, C) == {t \in C : e[t].saw = NoObservation /\ e[t].ever}
Unknown(e, C)    == {t \in C : ~e[t].ever}

\* The counters of the targets C, which came to e.
Buckets(e, C) ==
  [ok |-> Cardinality(Fine(e, C)), changed |-> Cardinality(Changed(e, C)),
   failed |-> Cardinality(Failed(e, C)), skipped |-> Cardinality(Skipped(e, C))]
Figures(e, C) ==
  [observed |-> Cardinality(Confirmed(e, C)), estimated |-> Cardinality(Estimated(e, C)),
   historical |-> Cardinality(Historical(e, C)), unknown |-> Cardinality(Unknown(e, C)),
   candidates |-> TotalOf(e, "candidates", Confirmed(e, C)),
   deferred |-> TotalOf(e, "deferred", Confirmed(e, C))]
Tally(n, o, e, C) == n = Buckets(e, C) /\ o = Figures(e, C)

\* Ended and not counted yet.
Held == {lanes[g].target : g \in {h \in Groups : lanes[h].at \in {"stamp", "count"}}}
Counted == DOMAIN ended \ Held

Tallied == Tally(counts, observations, ended, Counted)

Sums == Ending /\ Covered /\ Tallied

LEMMA ObservationsAreNotNone ==
  /\ NoObservation \notin Observations /\ NoObservation.basis = "none"
  /\ \A b \in Observations : b.basis \in {"s1", "s2", "delete_progress"}
  /\ \A b \in Observations : b.candidates \in Nat /\ b.deferred \in Nat
BY DEF NoObservation, Observations

\* The classes of the clean-up figures leave no target out and no two share one.
LEMMA FourClasses ==
  ASSUME NEW e, NEW C, \A t \in C : e[t] \in Endings
  PROVE  /\ \A t \in C : t \in Confirmed(e, C) <=>
              /\ t \notin Estimated(e, C) /\ t \notin Historical(e, C) /\ t \notin Unknown(e, C)
         /\ \A t \in Confirmed(e, C) : e[t].saw \in Observations
<1> SUFFICES ASSUME NEW t \in C
             PROVE  /\ t \in Confirmed(e, C) <=>
                         /\ t \notin Estimated(e, C) /\ t \notin Historical(e, C) /\ t \notin Unknown(e, C)
                    /\ t \in Confirmed(e, C) => e[t].saw \in Observations
  BY DEF Confirmed
<1>1. /\ e[t].saw \in Observations \union {NoObservation}
      /\ e[t].saw # NoObservation => e[t].ever
  BY DEF Endings
<1>2. CASE e[t].saw = NoObservation
  <2>1. e[t].saw.basis \notin {"s1", "s2"}
    BY <1>2, ObservationsAreNotNone
  <2> QED
    BY <1>2, <2>1 DEF Confirmed, Historical, Unknown
<1>3. CASE e[t].saw \in Observations
  <2>1. e[t].saw # NoObservation /\ e[t].ever /\ e[t].saw.basis \in {"s1", "s2", "delete_progress"}
    BY <1>1, <1>3, ObservationsAreNotNone
  <2>2. t \notin Historical(e, C) /\ t \notin Unknown(e, C)
    BY <2>1, Zenon DEF Historical, Unknown
  <2>3. t \in Confirmed(e, C) <=> e[t].saw.basis \in {"s1", "s2"} /\ e[t].saw.complete
    BY Zenon DEF Confirmed
  <2>4. t \in Estimated(e, C) <=> e[t].saw.basis = "delete_progress" \/ ~e[t].saw.complete
    BY <2>1, Zenon DEF Estimated
  <2>5. e[t].saw.basis = "delete_progress" <=> e[t].saw.basis \notin {"s1", "s2"}
    BY <2>1
  <2> QED
    BY <1>3, <2>2, <2>3, <2>4, <2>5, Zenon
<1> QED
  BY <1>1, <1>2, <1>3

\* The classes of the outcomes likewise.
LEMMA FourOutcomes ==
  ASSUME NEW e, NEW C, \A t \in C : e[t] \in Endings, NEW t \in C
  PROVE  /\ e[t].outcome \in {"success", "partial", "failed"}
         /\ t \in Failed(e, C) <=> e[t].outcome = "failed"
         /\ t \in Skipped(e, C) <=> e[t].outcome = "partial"
         /\ t \in Changed(e, C) <=> e[t].outcome = "success" /\ e[t].wrote
         /\ t \in Fine(e, C) <=> e[t].outcome = "success" /\ ~e[t].wrote
<1>1. e[t].outcome \in {"success", "partial", "failed"}
  BY DEF Endings
<1> QED
  BY <1>1, Zenon DEF Failed, Skipped, Changed, Fine

\* The counters of some targets depend on what these came to only.
LEMMA SameTally ==
  ASSUME NEW C, IsFiniteSet(C), NEW d, NEW e, \A t \in C : e[t] \in Endings /\ d[t] = e[t],
         NEW n, NEW o, Tally(n, o, e, C)
  PROVE  Tally(n, o, d, C)
<1>1. /\ Failed(d, C) = Failed(e, C) /\ Skipped(d, C) = Skipped(e, C)
      /\ Changed(d, C) = Changed(e, C) /\ Fine(d, C) = Fine(e, C)
      /\ Confirmed(d, C) = Confirmed(e, C) /\ Estimated(d, C) = Estimated(e, C)
      /\ Historical(d, C) = Historical(e, C) /\ Unknown(d, C) = Unknown(e, C)
  BY Zenon DEF Failed, Skipped, Changed, Fine, Confirmed, Estimated, Historical, Unknown
<1> DEFINE K == Confirmed(e, C)
<1>2. K \subseteq C /\ IsFiniteSet(K)
  BY FS_Subset DEF Confirmed
<1>3. \A t \in K : /\ e[t].saw["candidates"] \in Nat /\ d[t].saw["candidates"] = e[t].saw["candidates"]
                   /\ e[t].saw["deferred"] \in Nat /\ d[t].saw["deferred"] = e[t].saw["deferred"]
  <2>1. \A t \in K : e[t].saw \in Observations
    BY FourClasses
  <2> QED
    BY <1>2, <2>1, ObservationsAreNotNone
<1> HIDE DEF K
<1>4. TotalOf(d, "candidates", K) = TotalOf(e, "candidates", K)
  BY <1>2, <1>3, SameTotal
<1>5. TotalOf(d, "deferred", K) = TotalOf(e, "deferred", K)
  BY <1>2, <1>3, SameTotal
<1> QED
  BY <1>1, <1>4, <1>5 DEF Tally, Buckets, Figures, K

LEMMA TallyOfNone ==
  ASSUME NEW e
  PROVE  Tally(NoCounts, NoneObserved, e, {})
<1>1. /\ Failed(e, {}) = {} /\ Skipped(e, {}) = {} /\ Changed(e, {}) = {} /\ Fine(e, {}) = {}
      /\ Confirmed(e, {}) = {} /\ Estimated(e, {}) = {} /\ Historical(e, {}) = {} /\ Unknown(e, {}) = {}
  BY DEF Failed, Skipped, Changed, Fine, Confirmed, Estimated, Historical, Unknown
<1>2. Cardinality({}) = 0
  BY FS_EmptySet
<1> QED
  BY <1>1, <1>2, TotalOfNone DEF Tally, Buckets, Figures, NoCounts, NoneObserved

\* A class S of the targets C after x has joined these.
LEMMA OneMoreOf ==
  ASSUME NEW S, IsFiniteSet(S), NEW x, x \notin S
  PROVE  Cardinality(S \union {x}) = Cardinality(S) + 1
BY FS_AddElement

LEMMA CountsMore ==
  ASSUME NEW C, IsFiniteSet(C), NEW x, x \notin C, NEW e, \A t \in C \union {x} : e[t] \in Endings,
         NEW r, e[x].outcome = r.outcome, e[x].wrote <=> r.wrote,
         NEW n, n = Buckets(e, C)
  PROVE  [n EXCEPT ![Bucket(r)] = @ + 1] = Buckets(e, C \union {x})
<1> DEFINE D == C \union {x}
<1>1. /\ IsFiniteSet(Failed(e, C)) /\ x \notin Failed(e, C)
      /\ IsFiniteSet(Skipped(e, C)) /\ x \notin Skipped(e, C)
      /\ IsFiniteSet(Changed(e, C)) /\ x \notin Changed(e, C)
      /\ IsFiniteSet(Fine(e, C)) /\ x \notin Fine(e, C)
  BY FS_Subset DEF Failed, Skipped, Changed, Fine
<1>2. /\ Failed(e, D) = IF e[x].outcome = "failed" THEN Failed(e, C) \union {x} ELSE Failed(e, C)
      /\ Skipped(e, D) = IF e[x].outcome = "partial" THEN Skipped(e, C) \union {x} ELSE Skipped(e, C)
  BY DEF Failed, Skipped
<1>3. ASSUME e[x].outcome = "success", e[x].wrote
      PROVE  Changed(e, D) = Changed(e, C) \union {x} /\ Fine(e, D) = Fine(e, C)
  BY <1>3, Zenon DEF Changed, Fine
<1>4. ASSUME e[x].outcome = "success", ~e[x].wrote
      PROVE  Changed(e, D) = Changed(e, C) /\ Fine(e, D) = Fine(e, C) \union {x}
  BY <1>4, Zenon DEF Changed, Fine
<1>5. ASSUME e[x].outcome # "success"
      PROVE  Changed(e, D) = Changed(e, C) /\ Fine(e, D) = Fine(e, C)
  BY <1>5, Zenon DEF Changed, Fine
<1>6. e[x].outcome \in {"success", "partial", "failed"}
  BY DEF Endings
<1> HIDE DEF D
<1>7. CASE e[x].outcome = "failed"
  <2>1. Bucket(r) = "failed"
    BY <1>7 DEF Bucket
  <2>2. /\ Failed(e, D) = Failed(e, C) \union {x}
        /\ Skipped(e, D) = Skipped(e, C) /\ Changed(e, D) = Changed(e, C) /\ Fine(e, D) = Fine(e, C)
    BY <1>2, <1>5, <1>7
  <2>3. Cardinality(Failed(e, D)) = Cardinality(Failed(e, C)) + 1
    BY <1>1, <2>2, OneMoreOf
  <2> QED
    BY <2>1, <2>2, <2>3 DEF D, Buckets
<1>8. CASE e[x].outcome = "partial"
  <2>1. Bucket(r) = "skipped"
    BY <1>8 DEF Bucket
  <2>2. /\ Skipped(e, D) = Skipped(e, C) \union {x}
        /\ Failed(e, D) = Failed(e, C) /\ Changed(e, D) = Changed(e, C) /\ Fine(e, D) = Fine(e, C)
    BY <1>2, <1>5, <1>8
  <2>3. Cardinality(Skipped(e, D)) = Cardinality(Skipped(e, C)) + 1
    BY <1>1, <2>2, OneMoreOf
  <2> QED
    BY <2>1, <2>2, <2>3 DEF D, Buckets
<1>9. CASE e[x].outcome = "success" /\ e[x].wrote
  <2>1. Bucket(r) = "changed"
    BY <1>9 DEF Bucket
  <2>2. /\ Changed(e, D) = Changed(e, C) \union {x}
        /\ Failed(e, D) = Failed(e, C) /\ Skipped(e, D) = Skipped(e, C) /\ Fine(e, D) = Fine(e, C)
    BY <1>2, <1>3, <1>9
  <2>3. Cardinality(Changed(e, D)) = Cardinality(Changed(e, C)) + 1
    BY <1>1, <2>2, OneMoreOf
  <2> QED
    BY <2>1, <2>2, <2>3 DEF D, Buckets
<1>10. CASE e[x].outcome = "success" /\ ~e[x].wrote
  <2>1. Bucket(r) = "ok"
    BY <1>10 DEF Bucket
  <2>2. /\ Fine(e, D) = Fine(e, C) \union {x}
        /\ Failed(e, D) = Failed(e, C) /\ Skipped(e, D) = Skipped(e, C) /\ Changed(e, D) = Changed(e, C)
    BY <1>2, <1>4, <1>10
  <2>3. Cardinality(Fine(e, D)) = Cardinality(Fine(e, C)) + 1
    BY <1>1, <2>2, OneMoreOf
  <2> QED
    BY <2>1, <2>2, <2>3 DEF D, Buckets
<1> QED
  BY <1>6, <1>7, <1>8, <1>9, <1>10

LEMMA FiguresMore ==
  ASSUME NEW C, IsFiniteSet(C), NEW x, x \notin C, NEW e, \A t \in C \union {x} : e[t] \in Endings,
         NEW r \in Results, Agrees(e[x], r), NEW o, o = Figures(e, C)
  PROVE  Observed(o, r) = Figures(e, C \union {x})
<1> DEFINE D == C \union {x}
<1>1. /\ IsFiniteSet(Confirmed(e, C)) /\ x \notin Confirmed(e, C)
      /\ IsFiniteSet(Estimated(e, C)) /\ x \notin Estimated(e, C)
      /\ IsFiniteSet(Historical(e, C)) /\ x \notin Historical(e, C)
      /\ IsFiniteSet(Unknown(e, C)) /\ x \notin Unknown(e, C)
  BY FS_Subset DEF Confirmed, Estimated, Historical, Unknown
<1>2. /\ x \in Confirmed(e, D) => Confirmed(e, D) = Confirmed(e, C) \union {x}
      /\ x \notin Confirmed(e, D) => Confirmed(e, D) = Confirmed(e, C)
  BY Zenon DEF Confirmed
<1>3. /\ x \in Estimated(e, D) => Estimated(e, D) = Estimated(e, C) \union {x}
      /\ x \notin Estimated(e, D) => Estimated(e, D) = Estimated(e, C)
  BY Zenon DEF Estimated
<1>4. /\ x \in Historical(e, D) => Historical(e, D) = Historical(e, C) \union {x}
      /\ x \notin Historical(e, D) => Historical(e, D) = Historical(e, C)
  BY Zenon DEF Historical
<1>5. /\ x \in Unknown(e, D) => Unknown(e, D) = Unknown(e, C) \union {x}
      /\ x \notin Unknown(e, D) => Unknown(e, D) = Unknown(e, C)
  BY Zenon DEF Unknown
<1>6. /\ x \in Estimated(e, D) <=>
           /\ e[x].saw # NoObservation
           /\ e[x].saw.basis = "delete_progress" \/ ~e[x].saw.complete
      /\ x \in Historical(e, D) <=> e[x].saw = NoObservation /\ e[x].ever
      /\ x \in Unknown(e, D) <=> ~e[x].ever
  BY Zenon DEF Estimated, Historical, Unknown
<1>7. /\ x \in Confirmed(e, D) <=>
           x \notin Estimated(e, D) /\ x \notin Historical(e, D) /\ x \notin Unknown(e, D)
      /\ \A t \in Confirmed(e, D) : e[t].saw \in Observations
  <2>1. x \in D /\ \A t \in D : e[t] \in Endings
    OBVIOUS
  <2> HIDE DEF D
  <2> QED
    BY <2>1, FourClasses
<1>8. \A t \in Confirmed(e, D) : e[t].saw["candidates"] \in Nat /\ e[t].saw["deferred"] \in Nat
  BY <1>7, ObservationsAreNotNone
<1>9. /\ e[x].ever <=> r.obs # NoObservation
      /\ e[x].saw # NoObservation => r.obs = e[x].saw /\ r.observedBy = r.attempt /\ e[x].ever
      /\ e[x].saw = NoObservation /\ e[x].ever => r.observedBy # r.attempt
  <2>1. e[x].saw # NoObservation => e[x].ever
    BY DEF Endings
  <2> QED
    BY <2>1, Zenon DEF Agrees
<1> HIDE DEF D
<1>10. CASE r.obs = NoObservation
  <2>1. x \in Unknown(e, D) /\ x \notin Estimated(e, D) /\ x \notin Historical(e, D) /\ x \notin Confirmed(e, D)
    BY <1>6, <1>7, <1>9, <1>10, Zenon
  <2>2. Cardinality(Unknown(e, D)) = Cardinality(Unknown(e, C)) + 1
    BY <1>1, <1>5, <2>1, OneMoreOf
  <2>3. Confirmed(e, D) = Confirmed(e, C) /\ Estimated(e, D) = Estimated(e, C) /\ Historical(e, D) = Historical(e, C)
    BY <1>2, <1>3, <1>4, <2>1
  <2>4. Observed(o, r) = [o EXCEPT !.unknown = @ + 1]
    BY <1>10 DEF Observed
  <2> QED
    BY <2>2, <2>3, <2>4 DEF Figures, D
<1>11. CASE r.obs # NoObservation /\ r.observedBy # r.attempt
  <2>1. x \in Historical(e, D) /\ x \notin Estimated(e, D) /\ x \notin Unknown(e, D) /\ x \notin Confirmed(e, D)
    BY <1>6, <1>7, <1>9, <1>11, Zenon
  <2>2. Cardinality(Historical(e, D)) = Cardinality(Historical(e, C)) + 1
    BY <1>1, <1>4, <2>1, OneMoreOf
  <2>3. Confirmed(e, D) = Confirmed(e, C) /\ Estimated(e, D) = Estimated(e, C) /\ Unknown(e, D) = Unknown(e, C)
    BY <1>2, <1>3, <1>5, <2>1
  <2>4. Observed(o, r) = [o EXCEPT !.historical = @ + 1]
    BY <1>11 DEF Observed
  <2> QED
    BY <2>2, <2>3, <2>4 DEF Figures, D
<1>12. CASE r.obs # NoObservation /\ r.observedBy = r.attempt
  <2>1. e[x].saw # NoObservation /\ r.obs = e[x].saw /\ e[x].ever
    BY <1>9, <1>12, Zenon
  <2>2. x \notin Historical(e, D) /\ x \notin Unknown(e, D)
    BY <1>6, <2>1, Zenon
  <2>3. Historical(e, D) = Historical(e, C) /\ Unknown(e, D) = Unknown(e, C)
    BY <1>4, <1>5, <2>2
  <2>4. CASE x \in Estimated(e, D)
    <3>1. x \notin Confirmed(e, D)
      BY <1>7, <2>4
    <3>2. r.obs.basis = "delete_progress" \/ ~r.obs.complete
      BY <1>6, <2>1, <2>4, Zenon
    <3>3. Observed(o, r) = [o EXCEPT !.estimated = @ + 1]
      BY <1>12, <3>2 DEF Observed
    <3>4. Cardinality(Estimated(e, D)) = Cardinality(Estimated(e, C)) + 1 /\ Confirmed(e, D) = Confirmed(e, C)
      BY <1>1, <1>2, <1>3, <2>4, <3>1, OneMoreOf
    <3> QED
      BY <2>3, <3>3, <3>4 DEF Figures, D
  <2>5. CASE x \notin Estimated(e, D)
    <3>1. x \in Confirmed(e, D) /\ Confirmed(e, D) = Confirmed(e, C) \union {x} /\ Estimated(e, D) = Estimated(e, C)
      BY <1>2, <1>3, <1>7, <2>2, <2>5, Zenon
    <3>2. ~(r.obs.basis = "delete_progress" \/ ~r.obs.complete)
      BY <1>6, <2>1, <2>5, Zenon
    <3>3. Observed(o, r) = [o EXCEPT !.observed = @ + 1, !.candidates = @ + r.obs.candidates,
                                     !.deferred = @ + r.obs.deferred]
      BY <1>12, <3>2 DEF Observed
    <3>4. Cardinality(Confirmed(e, D)) = Cardinality(Confirmed(e, C)) + 1
      BY <1>1, <3>1, OneMoreOf
    <3>5. TotalOf(e, "candidates", Confirmed(e, D)) =
            TotalOf(e, "candidates", Confirmed(e, C)) + r.obs.candidates
      BY <1>1, <1>8, <2>1, <3>1, OneMore
    <3>6. TotalOf(e, "deferred", Confirmed(e, D)) =
            TotalOf(e, "deferred", Confirmed(e, C)) + r.obs.deferred
      BY <1>1, <1>8, <2>1, <3>1, OneMore
    <3> QED
      BY <2>3, <3>1, <3>3, <3>4, <3>5, <3>6 DEF Figures, D
  <2> QED
    BY <2>4, <2>5
<1> QED
  BY <1>10, <1>11, <1>12

\* A target counted by its result is counted by what it came to.
LEMMA TallyMore ==
  ASSUME NEW C, IsFiniteSet(C), NEW x, x \notin C, NEW e, \A t \in C \union {x} : e[t] \in Endings,
         NEW r \in Results, Agrees(e[x], r), NEW n, NEW o, Tally(n, o, e, C)
  PROVE  Tally([n EXCEPT ![Bucket(r)] = @ + 1], Observed(o, r), e, C \union {x})
<1>1. e[x].outcome = r.outcome /\ (e[x].wrote <=> r.wrote)
  BY Zenon DEF Agrees
<1>2. n = Buckets(e, C) /\ o = Figures(e, C)
  BY DEF Tally
<1>3. [n EXCEPT ![Bucket(r)] = @ + 1] = Buckets(e, C \union {x})
  BY <1>1, <1>2, CountsMore
<1>4. Observed(o, r) = Figures(e, C \union {x})
  BY <1>2, FiguresMore
<1> QED
  BY <1>3, <1>4 DEF Tally

-----------------------------------------------------------------------------
(***************************************************************************)
(* What a step does to the counters.                                       *)
(***************************************************************************)
\* A state lists a target once.
LEMMA UnitsOfState ==
  ASSUME NEW s \in States \union {NoState}
  PROVE  /\ IsFiniteSet(Applied(s)) /\ Cardinality(Applied(s)) = Cardinality(Units(s))
         /\ \A u, v \in Units(s) : u[2] = v[2] => u = v
         /\ \A u \in Units(s) : u = <<u[1], u[2]>> /\ u[2] \in Targets
<1>1. s.providers \in Seq(Targets) /\ IsInjective(s.providers)
  <2>1. CASE s \in States
    BY <2>1, RoundAssumption DEF RoundAssumption
  <2>2. CASE s = NoState
    BY <2>2 DEF NoState, IsInjective
  <2> QED
    BY <2>1, <2>2
<1> DEFINE n == Len(s.providers)
<1>2. n \in Nat /\ DOMAIN s.providers = 1..n
  BY <1>1
<1>3. \A u \in Units(s) : u[1] \in 1..n /\ u[2] \in Targets /\ u = <<u[1], u[2]>> /\ s.providers[u[1]] = u[2]
  BY DEF Units
<1>4. \A u, v \in Units(s) : u[2] = v[2] => u = v
  BY <1>1, <1>2, <1>3 DEF IsInjective
<1>5. IsFiniteSet(Units(s))
  <2> DEFINE place == [u \in Units(s) |-> u[1]]
  <2>1. place \in Injection(Units(s), 1..n)
    BY <1>3 DEF Injection, IsInjective
  <2>2. IsFiniteSet(1..n)
    BY <1>2, FS_Interval
  <2> HIDE DEF place
  <2> QED
    BY <2>1, <2>2, FS_Injection
<1>6. IsFiniteSet(Applied(s)) /\ Cardinality(Applied(s)) = Cardinality(Units(s))
  <2> DEFINE target == [u \in Units(s) |-> u[2]]
  <2>1. target \in Bijection(Units(s), Applied(s))
    BY <1>4 DEF Applied, Bijection, Injection, Surjection, IsInjective
  <2>2. ExistsBijection(Units(s), Applied(s))
    BY <2>1 DEF ExistsBijection
  <2> QED
    BY <1>5, <2>2, FS_Bijection
<1> QED
  BY <1>3, <1>4, <1>5, <1>6

LEMMA CountedIsFinite ==
  ASSUME Covered
  PROVE  IsFiniteSet(DOMAIN ended) /\ IsFiniteSet(Counted) /\ Counted \subseteq DOMAIN ended
<1>1. DOMAIN ended \subseteq Applied(state) /\ state \in States \union {NoState}
  BY DEF Covered
<1>2. IsFiniteSet(DOMAIN ended)
  BY <1>1, UnitsOfState, FS_Subset
<1> QED
  BY <1>2, FS_Subset DEF Counted

LEMMA NothingSummed ==
  ASSUME UNCHANGED <<state, lanes, counts, observations, ended>>, Sums
  PROVE  Sums'
BY DEF Sums, Ending, Covered, Tallied, Counted, Held

LEMMA InitSums == Init => Sums
<1> SUFFICES ASSUME Init PROVE Sums
  OBVIOUS
<1>1. \A g \in Groups : lanes[g].at = "next" /\ lanes[g].left = {}
  BY BetweenParts DEF Init
<1>2. DOMAIN ended = {} /\ state = NoState
  BY DEF Init
<1>3. Units(state) = {}
  BY <1>2 DEF Units, NoState
<1>4. Ending
  BY <1>1, <1>2 DEF Ending
<1>5. Covered
  BY <1>1, <1>2, <1>3 DEF Covered
<1>6. Counted = {}
  BY <1>2 DEF Counted
<1>7. Tallied
  BY <1>6, TallyOfNone DEF Tallied, Init
<1> QED
  BY <1>4, <1>5, <1>7 DEF Sums

LEMMA BeginRoundSums ==
  ASSUME IInv, Sums, BeginRound
  PROVE  Sums'
<1>1. \A g \in Groups : lanes'[g].at = "next" /\ lanes'[g].left = InGroup(state', g)
  BY BetweenParts DEF BeginRound
<1>2. DOMAIN ended = {} /\ DOMAIN ended' = {} /\ UNCHANGED <<counts, observations, ended>>
  BY DEF Sums, Covered, BeginRound
<1>3. state' \in States /\ state' # NoState
  BY Bounds DEF BeginRound
<1>4. Ending'
  BY <1>1, <1>2 DEF Ending
<1>5. Covered'
  <2>1. \A u \in Units(state') : CloudType[u[2]] \in Groups /\ u \in lanes'[CloudType[u[2]]].left
    BY <1>1, UnitsAreTargets DEF Groups, GroupKey, InGroup
  <2>2. \A g \in Groups : \A u \in lanes'[g].left : u \in Units(state')
    BY <1>1 DEF InGroup
  <2> QED
    BY <1>1, <1>2, <1>3, <2>1, <2>2 DEF Covered
<1>6. Counted = {} /\ Counted' = {}
  BY <1>2 DEF Counted
<1>7. Tallied'
  BY <1>2, <1>6 DEF Sums, Tallied
<1> QED
  BY <1>4, <1>5, <1>7 DEF Sums

LEMMA FinishRoundSums ==
  ASSUME IInv, Sums, FinishRound
  PROVE  Sums'
<1>1. \A g \in Groups : lanes'[g].at = "next" /\ lanes'[g].left = {}
  BY BetweenParts DEF FinishRound, Joined
<1>2. DOMAIN ended' = {} /\ state' = NoState /\ counts' = NoCounts /\ observations' = NoneObserved
  BY DEF FinishRound
<1>3. Units(state') = {}
  BY <1>2 DEF Units, NoState
<1>4. Ending'
  BY <1>1, <1>2 DEF Ending
<1>5. Covered'
  BY <1>1, <1>2, <1>3 DEF Covered
<1>6. Counted' = {}
  BY <1>2 DEF Counted
<1>7. Tallied'
  BY <1>2, <1>6, TallyOfNone DEF Tallied
<1> QED
  BY <1>4, <1>5, <1>7 DEF Sums

\* Two lanes are never at one target.
LEMMA LanesApart ==
  ASSUME LanesOfOneProduct, NEW g \in Groups, NEW h \in Groups, lanes[g].at # "next",
         g # h
  PROVE  /\ lanes[h].at # "next" => lanes[h].target # lanes[g].target
         /\ \A u \in lanes[h].left : u[2] # lanes[g].target
BY DEF LanesOfOneProduct

LEMMA StartTargetSums ==
  ASSUME IInv, Sums, NEW g \in Groups, StartTarget(g)
  PROVE  Sums'
<1> USE DEF IInv, Sums
<1> DEFINE lane(u) == Lane("sync", lanes[g].left \ {u}, u[2], NoResult)
<1>1. PICK u \in lanes[g].left :
        /\ LaneMoves(g, "next", lane(u))
        /\ UNCHANGED <<counts, observations, ended>>
  BY DEF StartTarget
<1>2. /\ lane(u).at = "sync" /\ lane(u).left = lanes[g].left \ {u} /\ lane(u).target = u[2]
      /\ lane(u).res = NoResult
  BY DEF Lane
<1> HIDE DEF lane
<1>3. /\ lanes[g].at = "next" /\ lanes'[g] = lane(u) /\ state' = state
      /\ \A h \in Groups : h # g => lanes'[h] = lanes[h]
  BY <1>1, OneLane
<1>4. Ending'
  <2>1. NoResult \in Results /\ NoResult.observedBy <= NoResult.attempt
    BY DEF NoResult, Results
  <2> QED
    BY <1>1, <1>2, <1>3, <2>1 DEF Ending
<1>5. Covered'
  <2>1. /\ u \in Units(state) /\ u[2] \notin DOMAIN ended /\ u[2] \in Applied(state)
        /\ CloudType[u[2]] = g
    BY DEF Covered, Applied, LanesOfOneProduct
  <2>2. state \in States \union {NoState} /\ \A v \in lanes[g].left : v \in Units(state)
    BY DEF Covered
  <2>3. \A v \in lanes[g].left : v # u => v[2] # u[2]
    BY <2>1, <2>2, UnitsOfState
  <2>4. \A h \in Groups : \A v \in lanes'[h].left :
          /\ v \in Units(state) /\ v[2] \notin DOMAIN ended
          /\ lanes'[h].at = "sync" => v[2] # lanes'[h].target
    BY <1>2, <1>3, <2>3 DEF Covered
  <2>5. \A h \in Groups : lanes'[h].at = "sync" => lanes'[h].target \in Applied(state) \ DOMAIN ended
    BY <1>2, <1>3, <2>1 DEF Covered
  <2>6. \A v \in Units(state) :
          \/ v[2] \in DOMAIN ended
          \/ v \in lanes'[CloudType[v[2]]].left
          \/ lanes'[CloudType[v[2]]].at = "sync" /\ lanes'[CloudType[v[2]]].target = v[2]
    <3> SUFFICES ASSUME NEW v \in Units(state), v[2] \notin DOMAIN ended
                 PROVE  \/ v \in lanes'[CloudType[v[2]]].left
                        \/ lanes'[CloudType[v[2]]].at = "sync" /\ lanes'[CloudType[v[2]]].target = v[2]
      OBVIOUS
    <3>1. CloudType[v[2]] \in Groups
      BY UnitsAreTargets DEF Groups, GroupKey
    <3>2. CASE CloudType[v[2]] = g
      BY <1>2, <1>3, <2>1, <3>2 DEF Covered
    <3>3. CASE CloudType[v[2]] # g
      BY <1>3, <3>1, <3>3 DEF Covered
    <3> QED
      BY <3>2, <3>3
  <2> QED
    BY <1>1, <1>3, <2>4, <2>5, <2>6 DEF Covered
<1>6. Counted' = Counted
  <2>1. Held' = Held
    BY <1>2, <1>3 DEF Held
  <2> QED
    BY <1>1, <2>1 DEF Counted
<1>7. Tallied'
  BY <1>1, <1>6 DEF Tallied
<1> QED
  BY <1>4, <1>5, <1>7

LEMMA StampSums ==
  ASSUME IInv, Sums, NEW g \in Groups, Stamp(g)
  PROVE  Sums'
<1> USE DEF IInv, Sums
<1> DEFINE lane == Lane("count", lanes[g].left, lanes[g].target, lanes[g].res)
<1>1. /\ LaneMoves(g, "stamp", lane)
      /\ UNCHANGED <<counts, observations, ended>>
  BY DEF Stamp
<1>2. /\ lane.at = "count" /\ lane.left = lanes[g].left /\ lane.target = lanes[g].target
      /\ lane.res = lanes[g].res
  BY DEF Lane
<1> HIDE DEF lane
<1>3. /\ lanes[g].at = "stamp" /\ lanes'[g] = lane /\ state' = state
      /\ \A h \in Groups : h # g => lanes'[h] = lanes[h]
  BY <1>1, OneLane
<1>4. Ending'
  BY <1>1, <1>2, <1>3 DEF Ending
<1>5. Covered'
  <2>1. \A h \in Groups : /\ lanes'[h].left = lanes[h].left
                          /\ lanes'[h].at = "sync" <=> lanes[h].at = "sync"
                          /\ lanes'[h].target = lanes[h].target
    BY <1>2, <1>3
  <2>2. \A u \in Units(state) : CloudType[u[2]] \in Groups
    BY UnitsAreTargets DEF Groups, GroupKey
  <2> QED
    BY <1>1, <1>3, <2>1, <2>2 DEF Covered
<1>6. Counted' = Counted
  <2>1. Held' = Held
    BY <1>2, <1>3 DEF Held
  <2> QED
    BY <1>1, <2>1 DEF Counted
<1>7. Tallied'
  BY <1>1, <1>6 DEF Tallied
<1> QED
  BY <1>4, <1>5, <1>7

LEMMA CountSums ==
  ASSUME IInv, Sums, NEW g \in Groups, Count(g)
  PROVE  Sums'
<1> USE DEF IInv, Sums
<1> DEFINE r == lanes[g].res
           t == lanes[g].target
<1>1. /\ LaneMoves(g, "count", Between(lanes[g].left))
      /\ counts' = [counts EXCEPT ![Bucket(r)] = @ + 1]
      /\ observations' = Observed(observations, r) /\ ended' = ended
  BY DEF Count
<1>2. /\ lanes[g].at = "count" /\ lanes'[g] = Between(lanes[g].left) /\ state' = state
      /\ \A h \in Groups : h # g => lanes'[h] = lanes[h]
      /\ lanes'[g].at = "next" /\ lanes'[g].left = lanes[g].left
  BY <1>1, OneLane, BetweenParts
<1>3. Ending'
  BY <1>1, <1>2 DEF Ending
<1>4. Covered'
  <2>1. \A h \in Groups : /\ lanes'[h].left = lanes[h].left
                          /\ lanes'[h].at = "sync" <=> lanes[h].at = "sync"
                          /\ lanes'[h].at = "sync" => lanes'[h].target = lanes[h].target
    BY <1>2
  <2>2. \A u \in Units(state) : CloudType[u[2]] \in Groups
    BY UnitsAreTargets DEF Groups, GroupKey
  <2> QED
    BY <1>1, <1>2, <2>1, <2>2 DEF Covered
<1>5. Counted' = Counted \union {t} /\ t \notin Counted /\ t \in DOMAIN ended
  <2>1. t \in Held /\ t \in DOMAIN ended
    BY <1>2 DEF Held, Ending
  <2>2. \A h \in Groups : h # g /\ lanes[h].at # "next" => lanes[h].target # t
    BY <1>2, LanesApart
  <2>3. Held' = Held \ {t}
    BY <1>2, <2>2 DEF Held
  <2> QED
    BY <1>1, <2>1, <2>3 DEF Counted
<1>6. Tallied'
  <2>1. r \in Results /\ Agrees(ended[t], r)
    BY <1>2 DEF Ending
  <2>2. IsFiniteSet(Counted) /\ Counted \subseteq DOMAIN ended
    BY CountedIsFinite
  <2>3. \A u \in Counted \union {t} : ended[u] \in Endings
    BY <1>5, <2>2 DEF Ending
  <2>4. Tally(counts, observations, ended, Counted)
    BY DEF Tallied
  <2> HIDE DEF r, t
  <2>5. Tally([counts EXCEPT ![Bucket(r)] = @ + 1], Observed(observations, r), ended, Counted \union {t})
    BY <1>5, <2>1, <2>2, <2>3, <2>4, TallyMore
  <2> QED
    BY <1>1, <1>5, <2>5 DEF Tallied
<1> QED
  BY <1>3, <1>4, <1>6

LEMMA NewResult ==
  ASSUME NEW r \in Results, NEW n \in Nat, NEW w \in BOOLEAN,
         NEW b \in Observations \union {NoObservation}, NEW by \in Nat
  PROVE  [r EXCEPT !.attempt = n, !.wrote = w, !.obs = b, !.observedBy = by] \in Results
BY DEF Results

\* One attempt more: an observation is its own, what it did not see is older.
LEMMA NextOneIsLater ==
  ASSUME NEW r \in Results, r.observedBy <= r.attempt, NEW a \in AttemptResults
  PROVE  LET m == mergeObservations(r, a) IN
         /\ m \in Results /\ m.observedBy <= m.attempt
         /\ a.obs # NoObservation => m.obs = a.obs /\ m.observedBy = m.attempt
         /\ a.obs = NoObservation => m.obs = r.obs /\ m.observedBy # m.attempt
<1> DEFINE m == mergeObservations(r, a)
           n == r.attempt + 1
           w == r.wrote \/ a.wrote
           b == IF a.obs = NoObservation THEN r.obs ELSE a.obs
           by == IF a.obs = NoObservation THEN r.observedBy ELSE r.attempt + 1
<1>1. r.attempt \in Nat /\ r.observedBy \in Nat
  BY DEF Results
<1>2. n \in Nat /\ w \in BOOLEAN /\ b \in Observations \union {NoObservation} /\ by \in Nat
  BY DEF Results, AttemptResults
<1>3. m = [r EXCEPT !.attempt = n, !.wrote = w, !.obs = b, !.observedBy = by]
  BY Zenon DEF mergeObservations
<1>4. m.attempt = n /\ m.obs = b /\ m.observedBy = by
  BY DEF mergeObservations, Results
<1>5. m \in Results
  <2> HIDE DEF n, w, b, by, m
  <2>1. [r EXCEPT !.attempt = n, !.wrote = w, !.obs = b, !.observedBy = by] \in Results
    BY <1>2, NewResult
  <2> QED
    BY <1>3, <2>1, Zenon
<1> HIDE DEF m
<1>6. m.observedBy <= m.attempt
  BY <1>1, <1>4
<1>7. a.obs # NoObservation => m.obs = a.obs /\ m.observedBy = m.attempt
  BY <1>4
<1>8. a.obs = NoObservation => m.obs = r.obs /\ m.observedBy # m.attempt
  BY <1>1, <1>4
<1> QED
  BY <1>5, <1>6, <1>7, <1>8 DEF m

\* The result of an attempt with the outcome the last one gives it.
LEMMA ItsOutcome ==
  ASSUME NEW m \in Results, NEW o \in {"success", "partial", "failed"}
  PROVE  /\ [m EXCEPT !.outcome = o] \in Results
         /\ [m EXCEPT !.outcome = o].outcome = o
         /\ [m EXCEPT !.outcome = o].wrote = m.wrote
         /\ [m EXCEPT !.outcome = o].obs = m.obs
         /\ [m EXCEPT !.outcome = o].attempt = m.attempt
         /\ [m EXCEPT !.outcome = o].observedBy = m.observedBy
BY DEF Results

\* Another attempt at the same target.
LEMMA AgainSums ==
  ASSUME IInv, Sums, NEW g \in Groups, NEW r \in Results, r.observedBy <= r.attempt,
         LaneMoves(g, "sync", Lane("sync", lanes[g].left, lanes[g].target, r)),
         UNCHANGED <<counts, observations, ended>>
  PROVE  Sums'
<1> USE DEF IInv, Sums
<1> DEFINE lane == Lane("sync", lanes[g].left, lanes[g].target, r)
<1>1. lane.at = "sync" /\ lane.left = lanes[g].left /\ lane.target = lanes[g].target /\ lane.res = r
  BY DEF Lane
<1>2. /\ lanes[g].at = "sync" /\ lanes'[g] = lane /\ state' = state
      /\ \A h \in Groups : h # g => lanes'[h] = lanes[h]
  BY OneLane
<1> HIDE DEF lane
<1>3. \A h \in Groups : /\ lanes'[h].left = lanes[h].left /\ lanes'[h].at = lanes[h].at
                        /\ lanes'[h].target = lanes[h].target
  BY <1>1, <1>2
<1>4. Ending'
  BY <1>1, <1>2 DEF Ending
<1>5. Covered'
  <2>1. \A u \in Units(state) : CloudType[u[2]] \in Groups
    BY UnitsAreTargets DEF Groups, GroupKey
  <2> QED
    BY <1>2, <1>3, <2>1 DEF Covered
<1>6. Held' = Held
  BY <1>3 DEF Held
<1> QED
  BY <1>4, <1>5, <1>6 DEF Tallied, Counted

\* The last attempt at a target: it ends, and is not counted yet.
LEMMA EndedSums ==
  ASSUME IInv, Sums, NEW g \in Groups, NEW r \in Results, NEW e \in Endings, Agrees(e, r),
         LaneMoves(g, "sync", Lane("stamp", lanes[g].left, lanes[g].target, r)),
         ended' = [u \in DOMAIN ended \union {lanes[g].target} |->
                     IF u = lanes[g].target THEN e ELSE ended[u]],
         UNCHANGED <<counts, observations>>
  PROVE  Sums'
<1> USE DEF IInv, Sums
<1> DEFINE lane == Lane("stamp", lanes[g].left, lanes[g].target, r)
           t == lanes[g].target
<1>1. lane.at = "stamp" /\ lane.left = lanes[g].left /\ lane.target = t /\ lane.res = r
  BY DEF Lane
<1>2. /\ lanes[g].at = "sync" /\ lanes'[g] = lane /\ state' = state
      /\ \A h \in Groups : h # g => lanes'[h] = lanes[h]
  BY OneLane
<1>3. /\ DOMAIN ended' = DOMAIN ended \union {t} /\ ended'[t] = e
      /\ \A u \in DOMAIN ended : u # t => ended'[u] = ended[u]
  OBVIOUS
<1>4. t \in Targets /\ t \in Applied(state) /\ t \notin DOMAIN ended
  BY <1>2 DEF LanesOfOneProduct, Covered
<1>5. \A h \in Groups : h # g =>
        /\ lanes[h].at # "next" => lanes[h].target # t
        /\ \A u \in lanes[h].left : u[2] # t
  BY <1>2, LanesApart
<1> HIDE DEF lane, t
<1>6. Ending'
  <2>1. DOMAIN ended' \subseteq Targets /\ \A u \in DOMAIN ended' : ended'[u] \in Endings
    BY <1>3, <1>4 DEF Ending
  <2>2. \A h \in Groups : h # g => lanes'[h] = lanes[h] /\
          (lanes[h].at \in {"stamp", "count"} =>
             lanes'[h].target \in DOMAIN ended' /\ ended'[lanes'[h].target] = ended[lanes[h].target])
    BY <1>2, <1>3, <1>5 DEF Ending
  <2> QED
    BY <1>1, <1>2, <1>3, <2>1, <2>2 DEF Ending
<1>7. Covered'
  <2>1. \A h \in Groups : \A u \in lanes'[h].left :
          /\ u \in Units(state') /\ u[2] \notin DOMAIN ended'
          /\ lanes'[h].at = "sync" => u[2] # lanes'[h].target
    <3>1. \A u \in lanes[g].left : u[2] # t
      BY <1>2 DEF Covered, t
    <3> QED
      BY <1>1, <1>2, <1>3, <1>5, <3>1 DEF Covered
  <2>2. \A h \in Groups : lanes'[h].at = "sync" => lanes'[h].target \in Applied(state') \ DOMAIN ended'
    BY <1>1, <1>2, <1>3, <1>5 DEF Covered
  <2>3. \A u \in Units(state') :
          \/ u[2] \in DOMAIN ended'
          \/ u \in lanes'[CloudType[u[2]]].left
          \/ lanes'[CloudType[u[2]]].at = "sync" /\ lanes'[CloudType[u[2]]].target = u[2]
    <3>1. \A u \in Units(state) : CloudType[u[2]] \in Groups
      BY UnitsAreTargets DEF Groups, GroupKey
    <3> QED
      BY <1>1, <1>2, <1>3, <3>1 DEF Covered, t
  <2>4. state' # NoState
    BY <1>2, InRound
  <2>5. (state' # NoState => state' \in States) /\ DOMAIN ended' \subseteq Applied(state')
    BY <1>2, <1>3, <1>4 DEF Covered
  <2> QED
    BY <2>1, <2>2, <2>3, <2>4, <2>5 DEF Covered
<1>8. Counted' = Counted /\ t \notin Counted
  <2>1. Held' = Held \union {t}
    BY <1>1, <1>2 DEF Held
  <2> QED
    BY <1>3, <1>4, <2>1 DEF Counted
<1>9. Tallied'
  <2>1. IsFiniteSet(Counted) /\ Counted \subseteq DOMAIN ended
    BY CountedIsFinite
  <2>2. \A u \in Counted : ended[u] \in Endings /\ ended'[u] = ended[u]
    BY <1>3, <1>8, <2>1 DEF Ending
  <2>3. Tally(counts, observations, ended', Counted)
    BY <2>1, <2>2, SameTally DEF Tallied
  <2> QED
    BY <1>8, <2>3 DEF Tallied
<1> QED
  BY <1>6, <1>7, <1>9

LEMMA AttemptSums ==
  ASSUME IInv, Sums, NEW g \in Groups, Attempt(g)
  PROVE  Sums'
<1> USE DEF IInv, Sums
<1> DEFINE t == lanes[g].target
           r == lanes[g].res
           merged(a) == mergeObservations(r, a)
           again(a)  == a.err \in {"retryable", "cleanup"} /\ ~Last(merged(a))
           kept(a)   == a.err \in {"none", "cleanup"}
           oc(a)     == IF again(a) THEN merged(a).outcome ELSE IF kept(a) THEN a.outcome ELSE "failed"
           res(a)    == [merged(a) EXCEPT !.outcome = oc(a)]
           e(a)      == [outcome |-> res(a).outcome, wrote |-> res(a).wrote,
                         saw |-> a.obs, ever |-> merged(a).obs # NoObservation]
<1>1. PICK a \in Attempts :
        /\ LaneMoves(g, "sync", Lane(IF again(a) THEN "sync" ELSE "stamp", lanes[g].left, t, res(a)))
        /\ ended' = IF again(a) THEN ended
                    ELSE [u \in DOMAIN ended \union {t} |-> IF u = t THEN e(a) ELSE ended[u]]
        /\ UNCHANGED <<counts, observations>>
  BY DEF Attempt
<1>2. a \in AttemptResults
  BY RoundAssumption DEF RoundAssumption
<1>3. a.obs \in Observations \union {NoObservation} /\ a.outcome \in {"success", "partial"}
  BY <1>2 DEF AttemptResults
<1>4. r \in Results /\ r.observedBy <= r.attempt
  <2>1. lanes[g].at = "sync"
    BY <1>1, OneLane
  <2> QED
    BY <2>1 DEF Ending
<1>5. /\ merged(a) \in Results /\ merged(a).observedBy <= merged(a).attempt
      /\ a.obs # NoObservation => merged(a).obs = a.obs /\ merged(a).observedBy = merged(a).attempt
      /\ a.obs = NoObservation => merged(a).observedBy # merged(a).attempt
  BY <1>2, <1>4, NextOneIsLater
<1>6. oc(a) \in {"success", "partial", "failed"}
  <2>1. merged(a).outcome \in {"success", "partial", "failed"}
    BY <1>5 DEF Results
  <2> QED
    BY <1>3, <2>1
<1> HIDE DEF merged, oc, r, t, again
<1>7. /\ res(a) \in Results /\ res(a).obs = merged(a).obs
      /\ res(a).attempt = merged(a).attempt /\ res(a).observedBy = merged(a).observedBy
  BY <1>5, <1>6, ItsOutcome
<1>8. e(a) \in Endings /\ Agrees(e(a), res(a))
  <2>1. res(a).outcome \in {"success", "partial", "failed"} /\ res(a).wrote \in BOOLEAN
    BY <1>7 DEF Results
  <2> HIDE DEF res
  <2>2. /\ e(a).outcome = res(a).outcome /\ e(a).wrote = res(a).wrote /\ e(a).saw = a.obs
        /\ e(a).ever = (merged(a).obs # NoObservation)
    OBVIOUS
  <2>3. e(a) \in [outcome : {"success", "partial", "failed"}, wrote : BOOLEAN,
                  saw : Observations \union {NoObservation}, ever : BOOLEAN]
    BY <1>3, <2>1
  <2> HIDE DEF e
  <2>4. e(a).saw # NoObservation => e(a).ever
    BY <1>5, <2>2
  <2>5. e(a) \in Endings
    BY <2>3, <2>4, Zenon DEF Endings
  <2>6. Agrees(e(a), res(a))
    BY <1>5, <1>7, <2>2 DEF Agrees
  <2> QED
    BY <2>5, <2>6
<1> HIDE DEF res, e
<1>9. CASE again(a)
  <2>1. LaneMoves(g, "sync", Lane("sync", lanes[g].left, lanes[g].target, res(a)))
    BY <1>1, <1>9 DEF t
  <2> QED
    BY <1>1, <1>5, <1>7, <1>9, <2>1, AgainSums
<1>10. CASE ~again(a)
  <2>1. LaneMoves(g, "sync", Lane("stamp", lanes[g].left, lanes[g].target, res(a)))
    BY <1>1, <1>10 DEF t
  <2>2. ended' = [u \in DOMAIN ended \union {lanes[g].target} |->
                     IF u = lanes[g].target THEN e(a) ELSE ended[u]]
    BY <1>1, <1>10 DEF t
  <2> QED
    BY <1>1, <1>7, <1>8, <2>1, <2>2, EndedSums
<1> QED
  BY <1>9, <1>10

LEMMA NextSums ==
  ASSUME IInv, Sums, [Next]_vars
  PROVE  Sums'
<1>1. CASE BeginRound \/ FinishRound
  BY <1>1, BeginRoundSums, FinishRoundSums
<1>2. ASSUME NEW g \in Groups, StartTarget(g) \/ Attempt(g) \/ Stamp(g) \/ Count(g)
      PROVE  Sums'
  BY <1>2, StartTargetSums, AttemptSums, StampSums, CountSums
<1>3. ASSUME NEW c \in Callers, BeginDryRun(c) \/ DryRead(c) \/ DryStamp(c) \/ EndDryRun(c)
      PROVE  Sums'
  <2>1. UNCHANGED roundVars
    BY <1>3 DEF BeginDryRun, DryRead, DryStamp, EndDryRun, DryMoves
  <2> QED
    BY <2>1, NothingSummed DEF roundVars
<1>4. CASE TimePasses
  BY <1>4, NothingSummed DEF TimePasses
<1>5. CASE UNCHANGED vars
  BY <1>5, NothingSummed DEF vars, roundVars
<1> QED
  BY <1>1, <1>2, <1>3, <1>4, <1>5 DEF Next

\* Once all have joined, all of the snapshot has ended and is counted.
LEMMA JoinedIsAll ==
  ASSUME IInv, Sums, Joined
  PROVE  /\ DOMAIN ended = Applied(state) /\ Counted = DOMAIN ended
         /\ Cardinality(Units(state)) = Cardinality(DOMAIN ended)
<1>1. \A g \in Groups : lanes[g].at = "next" /\ lanes[g].left = {}
  BY BetweenParts DEF Joined
<1>2. state \in States
  BY DEF Joined, Sums, Covered
<1>3. \A u \in Units(state) : u[2] \in DOMAIN ended
  <2>1. \A u \in Units(state) : CloudType[u[2]] \in Groups
    BY UnitsAreTargets DEF Groups, GroupKey
  <2> QED
    BY <1>1, <2>1 DEF Sums, Covered
<1>4. DOMAIN ended = Applied(state)
  BY <1>3 DEF Sums, Covered, Applied
<1>5. Held = {}
  BY <1>1 DEF Held
<1> QED
  BY <1>2, <1>4, <1>5, UnitsOfState DEF Counted

LEMMA SumsSayTheTruth ==
  ASSUME IInv, Sums
  PROVE  SummaryTrue
<1> SUFFICES ASSUME Joined PROVE SummaryTrue
  BY DEF SummaryTrue
<1> DEFINE C == DOMAIN ended
<1>1. Tally(counts, observations, ended, C) /\ Cardinality(Units(state)) = Cardinality(C)
  BY JoinedIsAll DEF Sums, Tallied
<1>2. IsFiniteSet(C) /\ \A t \in C : ended[t] \in Endings
  BY CountedIsFinite DEF Sums, Ending
<1>3. /\ counts = Buckets(ended, C) /\ observations = Figures(ended, C)
  BY <1>1 DEF Tally
<1>4. /\ Failed(ended, C) \subseteq C /\ Skipped(ended, C) \subseteq C
      /\ Changed(ended, C) \subseteq C /\ Fine(ended, C) \subseteq C
      /\ Confirmed(ended, C) \subseteq C /\ Estimated(ended, C) \subseteq C
      /\ Historical(ended, C) \subseteq C /\ Unknown(ended, C) \subseteq C
  BY DEF Failed, Skipped, Changed, Fine, Confirmed, Estimated, Historical, Unknown
<1>5. \A S \in SUBSET C : IsFiniteSet(S) /\ Cardinality(S) \in Nat /\ (Cardinality(S) = 0 <=> S = {})
  <2>1. \A S \in SUBSET C : IsFiniteSet(S)
    BY <1>2, FS_Subset
  <2> QED
    BY <2>1, FS_CardinalityType, FS_EmptySet
<1>6. Trusted = Confirmed(ended, C)
  BY DEF Trusted, Confirmed
<1>7. /\ counts.failed = Cardinality(Failed(ended, C)) /\ counts.skipped = Cardinality(Skipped(ended, C))
      /\ counts.changed = Cardinality(Changed(ended, C)) /\ counts.ok = Cardinality(Fine(ended, C))
  BY <1>3 DEF Buckets
<1>8. /\ observations.observed = Cardinality(Confirmed(ended, C))
      /\ observations.estimated = Cardinality(Estimated(ended, C))
      /\ observations.historical = Cardinality(Historical(ended, C))
      /\ observations.unknown = Cardinality(Unknown(ended, C))
      /\ observations.candidates = TotalOf(ended, "candidates", Confirmed(ended, C))
      /\ observations.deferred = TotalOf(ended, "deferred", Confirmed(ended, C))
  BY <1>3 DEF Figures
<1>9. observations.estimated + observations.historical + observations.unknown = 0 <=>
        Confirmed(ended, C) = C
  <2>1. /\ observations.estimated \in Nat /\ observations.historical \in Nat /\ observations.unknown \in Nat
        /\ observations.estimated = 0 <=> Estimated(ended, C) = {}
        /\ observations.historical = 0 <=> Historical(ended, C) = {}
        /\ observations.unknown = 0 <=> Unknown(ended, C) = {}
    BY <1>4, <1>5, <1>8
  <2>2. observations.estimated + observations.historical + observations.unknown = 0 <=>
          observations.estimated = 0 /\ observations.historical = 0 /\ observations.unknown = 0
    BY <2>1
  <2>3. \A t \in C : t \in Confirmed(ended, C) <=>
          /\ t \notin Estimated(ended, C) /\ t \notin Historical(ended, C) /\ t \notin Unknown(ended, C)
    BY <1>2, FourClasses
  <2> QED
    BY <1>4, <2>1, <2>2, <2>3
<1>10. outcomeOf(Cardinality(C), counts) = "success" <=>
         C # {} /\ \A t \in C : ended[t].outcome = "success"
  <2>1. outcomeOf(Cardinality(C), counts) = "success" <=>
          Cardinality(C) # 0 /\ ~(counts.failed > 0) /\ ~(counts.skipped > 0)
    BY DEF outcomeOf
  <2>2. /\ Cardinality(C) = 0 <=> C = {}
        /\ counts.failed > 0 <=> Failed(ended, C) # {}
        /\ counts.skipped > 0 <=> Skipped(ended, C) # {}
    <3>1. \A S \in SUBSET C : Cardinality(S) > 0 <=> S # {}
      BY <1>5
    <3> HIDE DEF C
    <3> QED
      BY <1>4, <1>5, <1>7, <3>1
  <2>3. (\A t \in C : ended[t].outcome = "success") <=> Failed(ended, C) = {} /\ Skipped(ended, C) = {}
    <3>1. \A t \in C : /\ ended[t].outcome \in {"success", "partial", "failed"}
                       /\ t \in Failed(ended, C) <=> ended[t].outcome = "failed"
                       /\ t \in Skipped(ended, C) <=> ended[t].outcome = "partial"
      BY <1>2, FourOutcomes
    <3> QED
      BY <1>4, <3>1
  <2> QED
    BY <2>1, <2>2, <2>3
<1>11. /\ MapThenSumSet(LAMBDA t : ended[t].saw.candidates, Trusted) = observations.candidates
       /\ MapThenSumSet(LAMBDA t : ended[t].saw.deferred, Trusted) = observations.deferred
  BY <1>6, <1>8, TotalsOfSummary
<1>12. /\ TargetsWith(LAMBDA e : e.outcome = "failed") = counts.failed
       /\ TargetsWith(LAMBDA e : e.outcome = "partial") = counts.skipped
       /\ TargetsWith(LAMBDA e : e.outcome = "success" /\ e.wrote) = counts.changed
       /\ TargetsWith(LAMBDA e : e.outcome = "success" /\ ~e.wrote) = counts.ok
       /\ TargetsWith(LAMBDA e : e.saw = NoObservation /\ e.ever) = observations.historical
       /\ TargetsWith(LAMBDA e : ~e.ever) = observations.unknown
  BY <1>7, <1>8 DEF TargetsWith, Failed, Skipped, Changed, Fine, Historical, Unknown
<1> HIDE DEF C
<1>13. /\ Summary.total = Cardinality(C) /\ Summary.counts = counts /\ Summary.observations = observations
       /\ Summary.outcome = outcomeOf(Cardinality(C), counts)
  BY <1>1 DEF Summary
<1>14. Summary.complete <=>
         observations.estimated + observations.historical + observations.unknown = 0
  BY DEF Summary
<1> QED
  BY <1>6, <1>8, <1>9, <1>10, <1>11, <1>12, <1>13, <1>14, Zenon DEF SummaryTrue, C

\* For any targets, states and results of attempts, the summary of a round speaks of the
\* snapshot of this round: every target a rule applies to is counted once, in the class of
\* its last attempt, and the clean-up figures are sums of what last attempts saw of
\* complete plans.
THEOREM SummariesAreTrue == Spec => []SummaryTrue
<1>1. Init => IInv /\ Sums
  BY InitInvariant, InitSums
<1>2. (IInv /\ Sums) /\ [Next]_vars => (IInv /\ Sums)'
  BY NextInvariant, NextSums
<1>3. IInv /\ Sums => SummaryTrue
  BY SumsSayTheTruth
<1> QED
  BY <1>1, <1>2, <1>3, PTL DEF Spec

=============================================================================
