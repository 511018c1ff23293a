-------------------------- MODULE TargetSyncProofs --------------------------
(***************************************************************************)
(* Theorems about TargetSync, for every product, configuration, initial    *)
(* cloud and editor the assumptions on the constants allow.                *)
(***************************************************************************)
EXTENDS TargetSync, FiniteSetTheorems, TLAPS

-----------------------------------------------------------------------------
(***************************************************************************)
(* Lemmas about the planner.                                               *)
(***************************************************************************)
Answers == [Hosts -> [err : Classes \union {"none"}, ips : SUBSET Addresses]]

\* What a function with a finite domain reaches is finite.
LEMMA FiniteImage ==
  ASSUME NEW S, IsFiniteSet(S), NEW f, NEW T,
         \A t \in T : \E x \in S : t = f[x]
  PROVE  IsFiniteSet(T)
<1> DEFINE U == {f[x] : x \in S}
           g == [x \in S |-> f[x]]
<1>1. g \in Surjection(S, U)
  BY DEF Surjection
<1>2. IsFiniteSet(U)
  BY <1>1, FS_Surjection, Zenon
<1>3. T \in SUBSET U
  OBVIOUS
<1> QED
  BY <1>2, <1>3, FS_Subset, Zenon

\* Every desired key is a functional key.
LEMMA DesiredKeys ==
  ASSUME NEW a \in Answers
  PROVE  Desired(a) \subseteq KeyType
<1> SUFFICES ASSUME NEW r \in DomainRules, NEW d \in RuleAddresses(r, a),
                    NEW p \in Protocols(r), NEW q \in r.ports
             PROVE  [family |-> d.family, cidr |-> d.cidr, proto |-> p,
                     port |-> KeyPort(p, q), action |-> r.action] \in KeyType
  BY DEF Desired, KeysOf
<1>1. /\ r.host \in Hosts /\ r.proto \in ProtoNames
      /\ q \in Ports /\ r.action \in Actions
  BY PlannerAssumption DEF PlannerAssumption, DomainRuleType
<1>2. d \in [family : Families, cidr : STRING]
  BY <1>1, PlannerAssumption DEF PlannerAssumption, RuleAddresses, Answers
<1>3. p \in ProtoNames
  BY <1>1 DEF Protocols, ProtoNames
<1>4. KeyPort(p, q) \in Ports
  BY <1>1, PlannerAssumption DEF PlannerAssumption, KeyPort
<1> QED
  BY <1>1, <1>2, <1>3, <1>4 DEF KeyType

\* A finite configuration and finite answers give finitely many keys.
LEMMA DesiredFinite ==
  ASSUME NEW a \in Answers
  PROVE  IsFiniteSet(Desired(a))
<1>1. ASSUME NEW r \in DomainRules PROVE IsFiniteSet(KeysOf(r, a))
  <2> DEFINE D == RuleAddresses(r, a)
             S == (D \X Protocols(r)) \X r.ports
             f == [x \in S |-> [family |-> x[1][1].family, cidr |-> x[1][1].cidr,
                                proto |-> x[1][2], port |-> KeyPort(x[1][2], x[2]),
                                action |-> r.action]]
  <2>1. D \subseteq Addresses
    BY PlannerAssumption DEF PlannerAssumption, RuleAddresses, Answers, DomainRuleType
  <2>2. IsFiniteSet(D)
    BY <2>1, PlannerAssumption, FS_Subset DEF PlannerAssumption
  <2>3. IsFiniteSet(Protocols(r))
    <3>1. IsFiniteSet({"TCP", "UDP"})
      <4>1. IsFiniteSet({"TCP"} \union {"UDP"})
        BY FS_Singleton, FS_Union
      <4> QED
        BY <4>1, {"TCP"} \union {"UDP"} = {"TCP", "UDP"}, Zenon
    <3>2. IsFiniteSet({r.proto})
      BY FS_Singleton
    <3> QED
      BY <3>1, <3>2 DEF Protocols
  <2>4. IsFiniteSet(r.ports)
    BY PlannerAssumption DEF PlannerAssumption
  <2>5. IsFiniteSet(D \X Protocols(r))
    BY <2>2, <2>3, FS_Product
  <2>6. IsFiniteSet(S)
    BY <2>4, <2>5, FS_Product
  <2>7. ASSUME NEW d \in D, NEW p \in Protocols(r), NEW q \in r.ports
        PROVE  \E x \in S : [family |-> d.family, cidr |-> d.cidr, proto |-> p,
                             port |-> KeyPort(p, q), action |-> r.action] = f[x]
    <3> WITNESS <<<<d, p>>, q>> \in S
    <3> QED
      OBVIOUS
  <2> HIDE DEF S, f
  <2>8. \A k \in KeysOf(r, a) : \E x \in S : k = f[x]
    <3> TAKE k \in KeysOf(r, a)
    <3>1. PICK d \in D, p \in Protocols(r), q \in r.ports :
            k = [family |-> d.family, cidr |-> d.cidr, proto |-> p,
                 port |-> KeyPort(p, q), action |-> r.action]
      BY DEF KeysOf
    <3> QED
      BY <2>7, <3>1
  <2> QED
    BY <2>6, <2>8, FiniteImage
<1> DEFINE g == [r \in DomainRules |-> KeysOf(r, a)]
           G == {KeysOf(r, a) : r \in DomainRules}
<1>2. \A K \in G : \E r \in DomainRules : K = g[r]
  OBVIOUS
<1>3. IsFiniteSet(DomainRules)
  BY PlannerAssumption DEF PlannerAssumption
<1>4. \A K \in G : IsFiniteSet(K)
  BY <1>1
<1>5. Desired(a) = UNION G
  BY DEF Desired
<1> HIDE DEF G, g
<1>6. IsFiniteSet(G)
  BY <1>2, <1>3, FiniteImage
<1> QED
  BY <1>4, <1>5, <1>6, FS_UNION

\* What is to be added is wanted, and finite.
LEMMA ToAddFacts ==
  ASSUME NEW a \in Answers, NEW s
  PROVE  /\ ToAdd(a, s) \subseteq Desired(a)
         /\ ToAdd(a, s) \subseteq KeyType
         /\ IsFiniteSet(ToAdd(a, s))
         /\ Cardinality(ToAdd(a, s)) \in Nat
<1>1. ToAdd(a, s) \subseteq Desired(a)
  BY DEF ToAdd, Needed
<1>2. IsFiniteSet(ToAdd(a, s))
  BY <1>1, DesiredFinite, FS_Subset
<1> QED
  BY <1>1, <1>2, DesiredKeys, FS_CardinalityType

\* What is to be cleaned is in the snapshot, owned and not wanted.
LEMMA CleanupFacts ==
  ASSUME NEW s
  PROVE  /\ CleanupRequest(s) \subseteq Candidates(res, s)
         /\ Candidates(res, s) \subseteq s.rules
         /\ \A r \in CleanupRequest(s) :
              /\ r \in s.rules /\ r.tag = Tag /\ r.keys # {}
              /\ r.keys \intersect Desired(res) = {}
              /\ Locatable(r, s)
BY DEF CleanupRequest, Deletable, Candidates, Owned

\* The counts of the planner are natural numbers.
LEMMA CleanupCounts ==
  ASSUME NEW s, IsFiniteSet(s.rules), NEW W \in SUBSET CleanupRequest(s)
  PROVE  /\ IsFiniteSet(W)
         /\ Cardinality(W) \in Nat
         /\ Cardinality(Candidates(res, s)) \in Nat
         /\ Cardinality(Candidates(res, s)) - Cardinality(W) \in Nat
<1>1. Candidates(res, s) \in SUBSET s.rules /\ W \in SUBSET Candidates(res, s)
  BY CleanupFacts
<1>2. IsFiniteSet(Candidates(res, s))
  BY <1>1, FS_Subset
<1>3. IsFiniteSet(W) /\ Cardinality(W) <= Cardinality(Candidates(res, s))
  BY <1>1, <1>2, FS_Subset
<1>4. Cardinality(W) \in Nat /\ Cardinality(Candidates(res, s)) \in Nat
  BY <1>2, <1>3, FS_CardinalityType
<1> QED
  BY <1>3, <1>4

-----------------------------------------------------------------------------
(***************************************************************************)
(* Lemmas about the steps.                                                 *)
(***************************************************************************)
\* Every way in which an attempt ends leaves the control state well-typed.
LEMMA Endings ==
  ASSUME TypeOK, NEW class,
         FailAttempt(class) \/ RetryCleanup \/ Conclude
  PROVE  pc' \in Steps /\ outcome' \in Outcomes /\ attempt' \in 1..MaxRetries
BY TargetSyncAssumption
   DEF TargetSyncAssumption, TypeOK, FailAttempt, RetryCleanup, Conclude, RetryAttempt, Finish,
       Steps, Outcomes

\* The rules a create adds: well-typed, finite, of this TAG, for wanted keys.
LEMMA NewRuleFacts ==
  ASSUME TypeOK, NEW K \in SUBSET ToAdd(res, snap)
  PROVE  /\ NewRules(K) \subseteq RuleType
         /\ IsFiniteSet(NewRules(K))
         /\ \A r \in NewRules(K) : /\ r.tag = Tag /\ r.born = births + 1
                                   /\ r.keys \subseteq Desired(res)
         /\ IsFiniteSet(K) /\ Cardinality(K) \in Nat
<1> DEFINE f == [k \in K |-> [keys |-> {k}, tag |-> Tag, located |-> TRUE, born |-> births + 1]]
<1>1. res \in Answers
  BY DEF TypeOK, Answers
<1>2. K \subseteq KeyType /\ K \subseteq Desired(res)
  BY <1>1, ToAddFacts
<1>3. IsFiniteSet(K) /\ Cardinality(K) \in Nat
  BY <1>1, ToAddFacts, FS_Subset, FS_CardinalityType
<1>4. births + 1 \in Int /\ Tag \in STRING
  BY TargetSyncAssumption DEF TargetSyncAssumption, TypeOK
<1>5. NewRules(K) \subseteq RuleType
  <2>1. ASSUME NEW k \in K
        PROVE  [keys |-> {k}, tag |-> Tag, located |-> TRUE, born |-> births + 1] \in RuleType
    BY <1>2, <1>4 DEF RuleType
  <2> QED
    BY <2>1 DEF NewRules
<1>6. \A r \in NewRules(K) : r.tag = Tag /\ r.born = births + 1 /\ r.keys \subseteq Desired(res)
  BY <1>2 DEF NewRules
<1>7. \A r \in NewRules(K) : \E k \in K : r = f[k]
  BY DEF NewRules
<1> HIDE DEF f
<1>8. IsFiniteSet(NewRules(K))
  BY <1>3, <1>7, FiniteImage
<1> QED
  BY <1>3, <1>5, <1>6, <1>8

\* Rules created by one write differ in their keys.
LEMMA NewRuleIds ==
  ASSUME NEW K
  PROVE  /\ \A q \in NewRules(K) : q.born = births + 1
         /\ \A q, r \in NewRules(K) : q.keys = r.keys => q = r
<1>1. \A q \in NewRules(K) : \E k \in K :
        q = [keys |-> {k}, tag |-> Tag, located |-> TRUE, born |-> births + 1]
  BY DEF NewRules
<1>2. ASSUME NEW q \in NewRules(K), NEW r \in NewRules(K), q.keys = r.keys
      PROVE  q = r
  <2>1. PICK k \in K : q = [keys |-> {k}, tag |-> Tag, located |-> TRUE, born |-> births + 1]
    BY <1>1
  <2>2. PICK l \in K : r = [keys |-> {l}, tag |-> Tag, located |-> TRUE, born |-> births + 1]
    BY <1>1
  <2>3. {k} = {l}
    BY <1>2, <2>1, <2>2
  <2>4. k = l
    BY <2>3
  <2> QED
    BY <2>1, <2>2, <2>4
<1>3. \A q \in NewRules(K) : q.born = births + 1
  BY <1>1
<1> QED
  BY <1>2, <1>3

\* What a delete of the snapshot rules R may remove, product by product.
LEMMA EffectCases ==
  ASSUME NEW R, NEW D \in DeleteEffects(R)
  PROVE  /\ CloudType = "tc_lighthouse" =>
              D \subseteq cloud /\ \A q \in D : \E r \in R : q.keys = r.keys
         /\ CloudType = "tc_cvm" =>
              IF snap.revision = version THEN D = R ELSE D \subseteq cloud
         /\ CloudType \notin {"tc_lighthouse", "tc_cvm"} =>
              D \subseteq cloud /\ \A q \in D : \E r \in R : SameId(q, r)
<1>1. CASE CloudType = "tc_lighthouse"
  BY <1>1 DEF DeleteEffects
<1>2. CASE CloudType = "tc_cvm"
  <2>1. CASE snap.revision = version
    BY <1>2, <2>1 DEF DeleteEffects
  <2>2. CASE snap.revision # version
    BY <1>2, <2>2 DEF DeleteEffects
  <2> QED
    BY <1>2, <2>1, <2>2
<1>3. CASE CloudType \notin {"tc_lighthouse", "tc_cvm"}
  <2>1. D = {q \in cloud : \E r \in R : SameId(q, r)}
    BY <1>3 DEF DeleteEffects
  <2> QED
    BY <1>3, <2>1
<1> QED
  BY <1>1, <1>2, <1>3

\* It is a finite set.
LEMMA EffectFinite ==
  ASSUME TypeOK, NEW R \in SUBSET CleanupRequest(snap), NEW D \in DeleteEffects(R)
  PROVE  IsFiniteSet(D) /\ Cardinality(D) \in Nat
<1>1. D = R \/ D \in SUBSET cloud
  BY EffectCases
<1>2. IsFiniteSet(R)
  BY CleanupCounts DEF TypeOK
<1>3. IsFiniteSet(D)
  BY <1>1, <1>2, FS_Subset DEF TypeOK
<1> QED
  BY <1>3, FS_CardinalityType

\* A change of the cloud to well-typed rules.
LEMMA SetCloudType ==
  ASSUME TypeOK, NEW R, SetCloud(R), R \subseteq RuleType, IsFiniteSet(R)
  PROVE  /\ cloud' \subseteq RuleType /\ IsFiniteSet(cloud')
         /\ version' \in Nat
BY DEF SetCloud, TypeOK

\* A write of the tool that created the rules for K.
LEMMA CreateType ==
  ASSUME TypeOK, NEW K \in SUBSET ToAdd(res, snap), SetCloud(cloud \union NewRules(K))
  PROVE  /\ cloud' \subseteq RuleType /\ IsFiniteSet(cloud')
         /\ version' \in Nat
<1>1. cloud \union NewRules(K) \subseteq RuleType
  BY NewRuleFacts DEF TypeOK
<1>2. IsFiniteSet(cloud \union NewRules(K))
  BY NewRuleFacts, FS_Union DEF TypeOK
<1> QED
  BY <1>1, <1>2, SetCloudType

\* A change that takes rules away.
LEMMA RemoveType ==
  ASSUME TypeOK, NEW D, SetCloud(cloud \ D)
  PROVE  /\ cloud' \subseteq RuleType /\ IsFiniteSet(cloud')
         /\ version' \in Nat
<1>1. cloud \ D \subseteq RuleType /\ IsFiniteSet(cloud \ D)
  BY FS_Difference DEF TypeOK
<1> QED
  BY <1>1, SetCloudType

-----------------------------------------------------------------------------
(***************************************************************************)
(* Type correctness.                                                       *)
(***************************************************************************)
\* The initial states are well-typed.
LEMMA InitType ==
  Init => TypeOK
<1> SUFFICES ASSUME Init PROVE TypeOK
  OBVIOUS
<1>1. cloud \subseteq RuleType /\ IsFiniteSet(cloud)
  BY TargetSyncAssumption DEF TargetSyncAssumption, Init
<1>2. IsFiniteSet(snap.rules)
  BY FS_EmptySet DEF Init
<1>3. res \in [Hosts -> [err : Classes \union {"none"}, ips : SUBSET Addresses]]
  BY DEF Init
<1>4. snap \in [rules : SUBSET RuleType, revision : Nat \union {NoRevision}]
  BY DEF Init
<1>5. /\ version \in Nat /\ births \in Nat
      /\ edits \in 0..MaxEdits /\ seenEdits \in 0..MaxEdits
      /\ pc \in Steps /\ outcome \in Outcomes
      /\ attempt \in 1..MaxRetries
      /\ {added, deleted, deferred, trueAdded, trueDeleted} \subseteq Nat
      /\ faulty \in BOOLEAN
  <2>1. MaxRetries \in Nat \ {0} /\ MaxEdits \in Nat
    BY TargetSyncAssumption DEF TargetSyncAssumption
  <2>2. /\ version = 0 /\ births = 0 /\ edits = 0 /\ seenEdits = 0 /\ attempt = 1
        /\ added = 0 /\ deleted = 0 /\ deferred = 0 /\ trueAdded = 0 /\ trueDeleted = 0
    BY DEF Init
  <2>3. pc \in Steps /\ outcome \in Outcomes /\ faulty \in BOOLEAN
    BY DEF Init, Steps, Outcomes
  <2> QED
    BY <2>1, <2>2, <2>3
<1> QED
  BY <1>1, <1>2, <1>3, <1>4, <1>5 DEF TypeOK

\* Reads keep the types: a snapshot is the cloud.
LEMMA SnapshotType ==
  ASSUME TypeOK, TakeSnapshot
  PROVE  /\ snap' \in [rules : SUBSET RuleType, revision : Nat \union {NoRevision}]
         /\ IsFiniteSet(snap'.rules)
         /\ seenEdits' \in 0..MaxEdits
         /\ Cardinality(Candidates(res, snap')) \in Nat
<1>1. snap'.rules = cloud
  BY DEF TakeSnapshot
<1>2. IsFiniteSet(Candidates(res, snap'))
  BY <1>1, CleanupFacts, FS_Subset DEF TypeOK
<1> QED
  BY <1>1, <1>2, FS_CardinalityType DEF TakeSnapshot, TypeOK

\* Reads keep the types.
LEMMA ReadType ==
  TypeOK /\ (Resolve \/ Read) => TypeOK'
<1>1. ASSUME TypeOK, Resolve PROVE TypeOK'
  <2>1. res' \in [Hosts -> [err : Classes \union {"none"}, ips : SUBSET Addresses]]
    BY <1>1 DEF Resolve, Resolution, Classes
  <2>2. faulty' \in BOOLEAN
    BY <1>1 DEF Resolve, TypeOK
  <2> QED
    BY <1>1, <2>1, <2>2 DEF Resolve, TypeOK, cloudVars, Steps
<1>2. ASSUME TypeOK, ReadS0 PROVE TypeOK'
  BY <1>2, SnapshotType DEF ReadS0, TypeOK, cloudVars, Steps
<1>3. ASSUME TypeOK, ReadS1 PROVE TypeOK'
  <2>1. pc' \in Steps /\ outcome' \in Outcomes /\ attempt' \in 1..MaxRetries
    BY <1>3, Endings DEF ReadS1, TypeOK, Steps
  <2> QED
    BY <1>3, <2>1, SnapshotType DEF ReadS1, TypeOK, cloudVars
<1>4. ASSUME TypeOK, ReadS2 PROVE TypeOK'
  <2>1. pc' \in Steps /\ outcome' \in Outcomes /\ attempt' \in 1..MaxRetries
    BY <1>4, Endings DEF ReadS2
  <2>2. deferred' \in Nat
    BY <1>4, SnapshotType DEF ReadS2, TypeOK
  <2> QED
    BY <1>4, <2>1, <2>2, SnapshotType DEF ReadS2, TypeOK, cloudVars
<1>5. ASSUME TypeOK, ReadFails PROVE TypeOK'
  <2>1. pc' \in Steps /\ outcome' \in Outcomes /\ attempt' \in 1..MaxRetries
    BY <1>5, Endings DEF ReadFails
  <2> QED
    BY <1>5, <2>1 DEF ReadFails, TypeOK, cloudVars
<1> QED
  BY <1>1, <1>2, <1>3, <1>4, <1>5 DEF Read

\* So do creates, with every count of confirmed batches.
LEMMA CreateTypeOK ==
  TypeOK /\ Create => TypeOK'
<1>1. TypeOK => res \in Answers
  BY DEF TypeOK, Answers
<1>2. ASSUME TypeOK, CreateOk PROVE TypeOK'
  <2>1. /\ cloud' \subseteq RuleType /\ IsFiniteSet(cloud') /\ version' \in Nat
    BY <1>2, CreateType DEF CreateOk
  <2>2. Cardinality(ToAdd(res, snap)) \in Nat
    BY <1>1, <1>2, ToAddFacts
  <2>3. added' \in Nat /\ trueAdded' \in Nat /\ births' \in Nat
    BY <1>2, <2>2 DEF CreateOk, TypeOK
  <2> QED
    BY <1>2, <2>1, <2>3 DEF CreateOk, TypeOK, Steps
<1>3. ASSUME TypeOK, CreateExists PROVE TypeOK'
  <2>1. PICK W \in ConfirmedBefore(ToAdd(res, snap)) :
          /\ SetCloud(cloud \union NewRules(W))
          /\ added' = added + Cardinality(W)
          /\ trueAdded' = trueAdded + Cardinality(W)
    BY <1>3 DEF CreateExists
  <2>2. W \subseteq ToAdd(res, snap)
    BY DEF ConfirmedBefore
  <2>3. Cardinality(W) \in Nat
    BY <1>3, <2>2, NewRuleFacts
  <2>4. /\ cloud' \subseteq RuleType /\ IsFiniteSet(cloud') /\ version' \in Nat
    BY <1>3, <2>1, <2>2, CreateType
  <2>5. added' \in Nat /\ trueAdded' \in Nat /\ births' \in Nat
    BY <1>3, <2>1, <2>3 DEF CreateExists, TypeOK
  <2> QED
    BY <1>3, <2>4, <2>5 DEF CreateExists, TypeOK, Steps
<1>4. ASSUME TypeOK, CreateFails PROVE TypeOK'
  <2>1. PICK W \in ConfirmedBefore(ToAdd(res, snap)) :
          \E B \in FailingBatch(ToAdd(res, snap), W) :
            \E X \in {{}, B} :
              /\ SetCloud(cloud \union NewRules(W \union X))
              /\ added' = added + Cardinality(W)
              /\ trueAdded' = trueAdded + Cardinality(W \union X)
    BY <1>4 DEF CreateFails
  <2>2. PICK X \in SUBSET ToAdd(res, snap) :
          /\ SetCloud(cloud \union NewRules(W \union X))
          /\ added' = added + Cardinality(W)
          /\ trueAdded' = trueAdded + Cardinality(W \union X)
    <3>1. \A B \in FailingBatch(ToAdd(res, snap), W) : \A X \in SUBSET B : X \subseteq ToAdd(res, snap)
      BY DEF FailingBatch
    <3> QED
      BY <2>1, <3>1
  <2>3. W \subseteq ToAdd(res, snap) /\ W \union X \subseteq ToAdd(res, snap)
    BY DEF ConfirmedBefore
  <2>4. Cardinality(W) \in Nat /\ Cardinality(W \union X) \in Nat
    BY <1>4, <2>3, NewRuleFacts
  <2>5. /\ cloud' \subseteq RuleType /\ IsFiniteSet(cloud') /\ version' \in Nat
    BY <1>4, <2>2, <2>3, CreateType
  <2>6. added' \in Nat /\ trueAdded' \in Nat /\ births' \in Nat
    BY <1>4, <2>2, <2>4 DEF CreateFails, TypeOK
  <2>7. pc' \in Steps /\ outcome' \in Outcomes /\ attempt' \in 1..MaxRetries
    BY <1>4, Endings DEF CreateFails
  <2> QED
    BY <1>4, <2>5, <2>6, <2>7 DEF CreateFails, TypeOK
<1>5. ASSUME TypeOK, CreateRefused PROVE TypeOK'
  <2>1. pc' \in Steps /\ outcome' \in Outcomes /\ attempt' \in 1..MaxRetries
    BY <1>5, Endings DEF CreateRefused
  <2> QED
    BY <1>5, <2>1 DEF CreateRefused, TypeOK, cloudVars
<1> QED
  BY <1>2, <1>3, <1>4, <1>5 DEF Create

\* So do deletes: the residue never falls below zero.
LEMMA DeleteTypeOK ==
  TypeOK /\ Delete => TypeOK'
<1> DEFINE R == CleanupRequest(snap)
<1>1. TypeOK => /\ Cardinality(R) \in Nat
                /\ Cardinality(Candidates(res, snap)) - Cardinality(R) \in Nat
                /\ Cardinality(Candidates(res, snap)) - 0 \in Nat
  BY CleanupCounts DEF TypeOK
<1>2. ASSUME TypeOK, DeleteOk PROVE TypeOK'
  <2>1. PICK D \in DeleteEffects(R) :
          SetCloud(cloud \ D) /\ trueDeleted' = trueDeleted + Cardinality(D)
    BY <1>2 DEF DeleteOk
  <2>2. /\ cloud' \subseteq RuleType /\ IsFiniteSet(cloud') /\ version' \in Nat
    BY <1>2, <2>1, RemoveType
  <2>3. Cardinality(D) \in Nat
    BY <1>2, EffectFinite
  <2>4. trueDeleted' \in Nat /\ deleted' \in Nat /\ deferred' \in Nat
    BY <1>1, <1>2, <2>1, <2>3 DEF DeleteOk, Progress, TypeOK
  <2> QED
    BY <1>2, <2>2, <2>4 DEF DeleteOk, TypeOK, Steps
<1>3. ASSUME TypeOK, DeleteGone PROVE TypeOK'
  <2>1. deferred' \in Nat
    BY <1>1, <1>3 DEF DeleteGone, Progress
  <2> QED
    BY <1>3, <2>1 DEF DeleteGone, TypeOK, cloudVars, history, Steps
<1>4. ASSUME TypeOK, DeleteRefused PROVE TypeOK'
  <2>1. deferred' \in Nat
    BY <1>1, <1>4 DEF DeleteRefused, Progress
  <2>2. pc' \in Steps /\ outcome' \in Outcomes /\ attempt' \in 1..MaxRetries
    BY <1>4, Endings DEF DeleteRefused
  <2> QED
    BY <1>4, <2>1, <2>2 DEF DeleteRefused, TypeOK, cloudVars
<1>5. ASSUME TypeOK, DeleteFails PROVE TypeOK'
  <2>1. PICK W \in ConfirmedBefore(R) :
          /\ \E B \in FailingBatch(R, W) :
               \E X \in {{}, B} :
                 \E D \in DeleteEffects(W \union X) :
                   SetCloud(cloud \ D) /\ trueDeleted' = trueDeleted + Cardinality(D)
          /\ deleted' = deleted + Cardinality(W)
          /\ Progress(Cardinality(W))
          /\ \/ pc' = "s2" /\ UNCHANGED <<attempt, outcome>>
             \/ RetryCleanup
             \/ Conclude
    BY <1>5 DEF DeleteFails
  <2>2. PICK X \in SUBSET R :
          \E D \in DeleteEffects(W \union X) :
            SetCloud(cloud \ D) /\ trueDeleted' = trueDeleted + Cardinality(D)
    <3>1. \A B \in FailingBatch(R, W) : \A X \in SUBSET B : X \subseteq R
      BY DEF FailingBatch
    <3> QED
      BY <2>1, <3>1
  <2>3. PICK D \in DeleteEffects(W \union X) :
          SetCloud(cloud \ D) /\ trueDeleted' = trueDeleted + Cardinality(D)
    BY <2>2
  <2>4. W \in SUBSET R /\ W \union X \in SUBSET R
    BY DEF ConfirmedBefore
  <2>5. /\ cloud' \subseteq RuleType /\ IsFiniteSet(cloud') /\ version' \in Nat
    BY <1>5, <2>3, RemoveType
  <2>6. /\ Cardinality(D) \in Nat /\ Cardinality(W) \in Nat
        /\ Cardinality(Candidates(res, snap)) - Cardinality(W) \in Nat
    BY <1>5, <2>4, EffectFinite, CleanupCounts DEF TypeOK
  <2>7. trueDeleted' \in Nat /\ deleted' \in Nat /\ deferred' \in Nat
    BY <1>5, <2>1, <2>3, <2>6 DEF Progress, TypeOK
  <2>8. pc' \in Steps /\ outcome' \in Outcomes /\ attempt' \in 1..MaxRetries
    BY <1>5, <2>1, Endings DEF TypeOK, Steps
  <2> QED
    BY <1>5, <2>5, <2>7, <2>8 DEF DeleteFails, TypeOK
<1> QED
  BY <1>2, <1>3, <1>4, <1>5 DEF Delete

\* So do the edits of others.
LEMMA EditorTypeOK ==
  TypeOK /\ Editor => TypeOK'
<1>1. TypeOK /\ Others => edits' \in 0..MaxEdits
  BY TargetSyncAssumption DEF TargetSyncAssumption, TypeOK, Others
<1>2. ASSUME TypeOK, EditorAdds PROVE TypeOK'
  <2>1. PICK r \in EditorRules :
          SetCloud(cloud \union {[keys |-> r.keys, tag |-> r.tag, located |-> r.located,
                                  born |-> births + 1]})
    BY <1>2 DEF EditorAdds
  <2> DEFINE n == [keys |-> r.keys, tag |-> r.tag, located |-> r.located, born |-> births + 1]
  <2>2. r \in [keys : SUBSET KeyType, tag : STRING, located : BOOLEAN]
    BY TargetSyncAssumption DEF TargetSyncAssumption
  <2>3. n \in RuleType
    BY <1>2, <2>2 DEF RuleType, TypeOK
  <2>4. cloud \union {n} \subseteq RuleType /\ IsFiniteSet(cloud \union {n})
    BY <1>2, <2>3, FS_AddElement DEF TypeOK
  <2>5. /\ cloud' \subseteq RuleType /\ IsFiniteSet(cloud') /\ version' \in Nat
    BY <1>2, <2>1, <2>4, SetCloudType
  <2>6. births' \in Nat
    BY <1>2 DEF EditorAdds, TypeOK
  <2> QED
    BY <1>1, <1>2, <2>5, <2>6 DEF EditorAdds, Others, TypeOK, toolVars, history
<1>3. ASSUME TypeOK, EditorRemoves PROVE TypeOK'
  <2>1. /\ cloud' \subseteq RuleType /\ IsFiniteSet(cloud') /\ version' \in Nat
    BY <1>3, RemoveType DEF EditorRemoves
  <2> QED
    BY <1>1, <1>3, <2>1 DEF EditorRemoves, Others, TypeOK, toolVars, history
<1>4. ASSUME TypeOK, EditorRetags PROVE TypeOK'
  <2>1. PICK r \in cloud, t \in RetagTo : SetCloud((cloud \ {r}) \union {[r EXCEPT !.tag = t]})
    BY <1>4 DEF EditorRetags
  <2>2. r \in RuleType /\ t \in STRING
    BY <1>4, TargetSyncAssumption DEF TargetSyncAssumption, TypeOK
  <2>3. [r EXCEPT !.tag = t] \in RuleType
    BY <2>2 DEF RuleType
  <2>4. /\ (cloud \ {r}) \union {[r EXCEPT !.tag = t]} \subseteq RuleType
        /\ IsFiniteSet((cloud \ {r}) \union {[r EXCEPT !.tag = t]})
    BY <1>4, <2>3, FS_RemoveElement, FS_AddElement DEF TypeOK
  <2>5. /\ cloud' \subseteq RuleType /\ IsFiniteSet(cloud') /\ version' \in Nat
    BY <1>4, <2>1, <2>4, SetCloudType
  <2> QED
    BY <1>1, <1>4, <2>5 DEF EditorRetags, Others, TypeOK, toolVars, history
<1> QED
  BY <1>2, <1>3, <1>4 DEF Editor

\* Every step keeps the types.
LEMMA NextType ==
  TypeOK /\ [Next]_vars => TypeOK'
<1>1. TypeOK /\ UNCHANGED vars => TypeOK'
  BY DEF TypeOK, vars, cloudVars, toolVars, history
<1> QED
  BY <1>1, ReadType, CreateTypeOK, DeleteTypeOK, EditorTypeOK DEF Next, Tool, Returned

\* syncTarget keeps its types for every configuration: counts never go below
\* zero, and no more than MaxRetries attempts are made.
THEOREM TypeCorrect == Spec => []TypeOK
BY InitType, NextType, PTL DEF Spec

-----------------------------------------------------------------------------
(***************************************************************************)
(* The inductive invariant.  A write is decided on a snapshot and executed *)
(* on whatever the cloud holds by then, so the properties of a write need  *)
(* what relates the two: for the versioned products the revision, for the  *)
(* others the identity of a rule, which is only as good as the promise     *)
(* that nobody changes a description in place.                             *)
(***************************************************************************)
\* A revision that is still current means a snapshot that is still true.
SnapshotSound ==
  Versioned /\ snap.revision # NoRevision =>
    /\ snap.revision <= version
    /\ snap.revision = version => snap.rules = cloud

\* The versioned products never write without a revision.
WritesVersioned ==
  Versioned /\ pc \in {"create", "delete"} => snap.revision # NoRevision

\* A rule id names the same rule in the snapshot and in the cloud.
IdentityStable ==
  RetagTo = {} =>
    /\ \A q \in cloud \union snap.rules : q.born <= births
    /\ \A q, r \in cloud \union snap.rules : SameId(q, r) => q = r

\* The cloud is still what the snapshot shows.
Current == snap.revision = version /\ snap.rules = cloud

IInv == TypeOK /\ SnapshotSound /\ WritesVersioned /\ IdentityStable

\* What a step of the tool can do to the cloud: nothing, ...
Untouched == UNCHANGED <<cloud, version, births>>

\* ... add rules for keys its snapshot lacks, ...
Adds ==
  /\ UNCHANGED <<res, snap>> /\ births' = births + 1
  /\ \E K \in SUBSET ToAdd(res, snap) :
       /\ SetCloud(cloud \union NewRules(K))
       /\ K # {} /\ Versioned => Current

\* ... or remove what the deletion of rules of its snapshot removes.
Removes ==
  /\ UNCHANGED <<res, snap, births>>
  /\ \E R \in SUBSET CleanupRequest(snap) : \E D \in DeleteEffects(R) :
       /\ SetCloud(cloud \ D)
       /\ R # {} /\ Versioned => Current
       /\ R = {} => D = {}

\* A write that the cloud accepts runs on the rules of its snapshot.
LEMMA AcceptedIsCurrent ==
  ASSUME IInv, Versioned, pc \in {"create", "delete"}, Accepts(WriteRevision)
  PROVE  Current
BY DEF IInv, SnapshotSound, WritesVersioned, Accepts, WriteRevision, Current

\* A request for no rule removes none.
LEMMA EmptyEffect ==
  ASSUME TypeOK, NEW D \in DeleteEffects({})
  PROVE  D = {}
<1>1. CASE CloudType # "tc_cvm"
  BY <1>1, EffectCases DEF CloudTypes
<1>2. CASE CloudType = "tc_cvm"
  <2>1. CASE snap.revision = version
    BY <1>2, <2>1, EffectCases
  <2>2. CASE snap.revision # version
    <3>1. D \in SUBSET cloud /\ Cardinality(D) = Cardinality({})
      BY <1>2, <2>2 DEF DeleteEffects
    <3>2. IsFiniteSet(D)
      BY <3>1, FS_Subset DEF TypeOK
    <3> QED
      BY <3>1, <3>2, FS_EmptySet
  <2> QED
    BY <2>1, <2>2
<1> QED
  BY <1>1, <1>2

\* Every step of the tool is one of the three.
LEMMA ToolEffect ==
  ASSUME IInv, Tool
  PROVE  Untouched \/ Adds \/ Removes
<1>1. CASE Resolve \/ Read \/ CreateRefused \/ DeleteGone \/ DeleteRefused
  BY <1>1 DEF Resolve, Read, ReadS0, ReadS1, ReadS2, ReadFails, CreateRefused,
              DeleteGone, DeleteRefused, cloudVars, Untouched
<1>2. CASE CreateOk
  <2>1. pc = "create" /\ Accepts(WriteRevision)
    BY <1>2 DEF CreateOk
  <2>2. Versioned => Current
    BY <2>1, AcceptedIsCurrent
  <2> QED
    BY <1>2, <2>2 DEF CreateOk, Adds
<1>3. CASE CreateFails
  <2>1. PICK W \in ConfirmedBefore(ToAdd(res, snap)) :
          \E B \in FailingBatch(ToAdd(res, snap), W) :
            \E X \in {{}, B} :
              /\ W \union X # {} => Accepts(WriteRevision)
              /\ SetCloud(cloud \union NewRules(W \union X))
    BY <1>3 DEF CreateFails
  <2>2. \A B \in FailingBatch(ToAdd(res, snap), W) : \A X \in {{}, B} :
          W \union X \in SUBSET ToAdd(res, snap)
    BY DEF ConfirmedBefore, FailingBatch
  <2>3. PICK K \in SUBSET ToAdd(res, snap) :
          /\ K # {} => Accepts(WriteRevision)
          /\ SetCloud(cloud \union NewRules(K))
    BY <2>1, <2>2
  <2>4. K # {} /\ Versioned => Current
    BY <1>3, <2>3, AcceptedIsCurrent DEF CreateFails
  <2> QED
    BY <1>3, <2>3, <2>4 DEF CreateFails, Adds
<1>4. CASE CreateExists
  <2>1. PICK W \in ConfirmedBefore(ToAdd(res, snap)) :
          /\ W # {} => Accepts(WriteRevision)
          /\ SetCloud(cloud \union NewRules(W))
    BY <1>4 DEF CreateExists
  <2>2. W \in SUBSET ToAdd(res, snap)
    BY DEF ConfirmedBefore
  <2>3. W # {} /\ Versioned => Current
    BY <1>4, <2>1, AcceptedIsCurrent DEF CreateExists
  <2> QED
    BY <1>4, <2>1, <2>2, <2>3 DEF CreateExists, Adds
<1>5. CASE DeleteOk
  <2>1. pc = "delete" /\ Accepts(WriteRevision)
    BY <1>5 DEF DeleteOk
  <2>2. Versioned => Current
    BY <2>1, AcceptedIsCurrent
  <2>3. PICK D \in DeleteEffects(CleanupRequest(snap)) : SetCloud(cloud \ D)
    BY <1>5 DEF DeleteOk
  <2>4. CleanupRequest(snap) = {} => D = {}
    BY <2>3, EmptyEffect DEF IInv
  <2> QED
    BY <1>5, <2>2, <2>3, <2>4 DEF DeleteOk, Removes
<1>6. CASE DeleteFails
  <2>1. PICK W \in ConfirmedBefore(CleanupRequest(snap)) :
          \E B \in FailingBatch(CleanupRequest(snap), W) :
            \E X \in {{}, B} :
              /\ W \union X # {} => Accepts(WriteRevision)
              /\ \E D \in DeleteEffects(W \union X) : SetCloud(cloud \ D)
    BY <1>6 DEF DeleteFails
  <2>2. \A B \in FailingBatch(CleanupRequest(snap), W) : \A X \in {{}, B} :
          W \union X \in SUBSET CleanupRequest(snap)
    BY DEF ConfirmedBefore, FailingBatch
  <2>3. PICK R \in SUBSET CleanupRequest(snap) :
          /\ R # {} => Accepts(WriteRevision)
          /\ \E D \in DeleteEffects(R) : SetCloud(cloud \ D)
    BY <2>1, <2>2
  <2>4. R # {} /\ Versioned => Current
    BY <1>6, <2>3, AcceptedIsCurrent DEF DeleteFails
  <2>5. PICK D \in DeleteEffects(R) : SetCloud(cloud \ D)
    BY <2>3
  <2>6. R = {} => D = {}
    BY <2>5, EmptyEffect DEF IInv
  <2> QED
    BY <1>6, <2>4, <2>5, <2>6 DEF DeleteFails, Removes
<1> QED
  BY <1>1, <1>2, <1>3, <1>4, <1>5, <1>6 DEF Tool, Create, Delete

\* How the snapshot changes: never, or to what the cloud holds.
LEMMA SnapshotStep ==
  ASSUME Next
  PROVE  snap' = snap \/ (TakeSnapshot /\ UNCHANGED <<cloud, version, births>>)
BY DEF Next, Tool, Read, Create, Delete, Editor, Resolve, ReadS0, ReadS1, ReadS2, ReadFails,
       CreateOk, CreateExists, CreateFails, CreateRefused, DeleteOk, DeleteGone, DeleteRefused,
       DeleteFails, EditorAdds, EditorRemoves, EditorRetags, Others, Returned,
       vars, cloudVars, toolVars

\* It holds before the first call: the snapshot is empty and has no revision.
LEMMA InitInv ==
  Init => IInv
<1> SUFFICES ASSUME Init PROVE IInv
  OBVIOUS
<1>1. SnapshotSound /\ WritesVersioned
  BY DEF Init, SnapshotSound, WritesVersioned
<1>2. IdentityStable
  <2>1. /\ \A r \in cloud : r.born <= 0
        /\ \A r, s \in cloud : r.born = s.born /\ r.keys = s.keys => r = s
    BY TargetSyncAssumption DEF TargetSyncAssumption, Init
  <2> QED
    BY <2>1 DEF Init, IdentityStable, SameId
<1> QED
  BY <1>1, <1>2, InitType DEF IInv

\* Any change of the cloud moves the version away from the snapshot's.
LEMMA SnapshotSoundStep ==
  ASSUME IInv, Next
  PROVE  SnapshotSound'
<1>1. CASE TakeSnapshot /\ UNCHANGED <<cloud, version, births>>
  BY <1>1 DEF IInv, TypeOK, TakeSnapshot, SnapshotSound
<1>2. CASE snap' = snap
  <2>1. UNCHANGED <<cloud, version>> \/ \E R : SetCloud(R)
    <3>1. CASE Tool
      BY <3>1, ToolEffect DEF Untouched, Adds, Removes
    <3>2. CASE Editor
      BY <3>2 DEF Editor, EditorAdds, EditorRemoves, EditorRetags
    <3>3. CASE Returned
      BY <3>3 DEF Returned, vars, cloudVars
    <3> QED
      BY <3>1, <3>2, <3>3 DEF Next
  <2> QED
    BY <1>2, <2>1 DEF IInv, TypeOK, SetCloud, SnapshotSound
<1> QED
  BY <1>1, <1>2, SnapshotStep

\* Only a read leads to a write, and a read of a versioned product has a version.
LEMMA WritesVersionedStep ==
  ASSUME IInv, Next
  PROVE  WritesVersioned'
<1> SUFFICES ASSUME Versioned, pc' \in {"create", "delete"} PROVE snap'.revision # NoRevision
  BY DEF WritesVersioned
<1>1. (pc' = pc /\ snap' = snap) \/ TakeSnapshot
  BY DEF Next, Tool, Read, Create, Delete, Editor, Resolve, ReadS0, ReadS1, ReadS2, ReadFails,
       CreateOk, CreateExists, CreateFails, CreateRefused, DeleteOk, DeleteGone, DeleteRefused,
       DeleteFails, EditorAdds, EditorRemoves, EditorRetags, Others, Returned,
       vars, cloudVars, toolVars, FailAttempt, RetryCleanup, Conclude, RetryAttempt, Finish
<1>2. version # NoRevision
  BY DEF IInv, TypeOK, NoRevision
<1> QED
  BY <1>1, <1>2 DEF IInv, WritesVersioned, TakeSnapshot

\* New rules get new identities; nothing else changes what an identity names.
LEMMA IdentityStep ==
  ASSUME IInv, Next
  PROVE  IdentityStable'
<1> SUFFICES ASSUME RetagTo = {}
             PROVE  /\ \A q \in cloud' \union snap'.rules : q.born <= births'
                    /\ \A q, r \in cloud' \union snap'.rules : SameId(q, r) => q = r
  BY DEF IdentityStable, SameId
<1> DEFINE Old == cloud \union snap.rules
<1>1. /\ \A q \in Old : q.born <= births /\ q.born \in Int
      /\ \A q, r \in Old : q.born = r.born /\ q.keys = r.keys => q = r
      /\ births \in Nat
  BY DEF IInv, TypeOK, IdentityStable, SameId, RuleType
<1>2. CASE TakeSnapshot /\ UNCHANGED <<cloud, version, births>>
  BY <1>1, <1>2 DEF TakeSnapshot, SameId
<1>3. ASSUME snap' = snap, cloud' \subseteq cloud, births' = births
      PROVE  /\ \A q \in cloud' \union snap'.rules : q.born <= births'
             /\ \A q, r \in cloud' \union snap'.rules : SameId(q, r) => q = r
  BY <1>1, <1>3 DEF SameId
<1>4. ASSUME snap' = snap, births' = births + 1, NEW N, cloud' = cloud \union N,
             \A q \in N : q.born = births + 1,
             \A q, r \in N : q.keys = r.keys => q = r
      PROVE  /\ \A q \in cloud' \union snap'.rules : q.born <= births'
             /\ \A q, r \in cloud' \union snap'.rules : SameId(q, r) => q = r
  BY <1>1, <1>4 DEF SameId
<1>5. CASE snap' = snap /\ Tool
  <2>1. CASE Untouched
    BY <1>3, <1>5, <2>1 DEF Untouched
  <2>2. CASE Adds
    <3>1. PICK K \in SUBSET ToAdd(res, snap) : cloud' = cloud \union NewRules(K)
      BY <2>2 DEF Adds, SetCloud
    <3>2. /\ \A q \in NewRules(K) : q.born = births + 1
          /\ \A q, r \in NewRules(K) : q.keys = r.keys => q = r
      BY NewRuleIds
    <3> QED
      BY <1>4, <1>5, <2>2, <3>1, <3>2 DEF Adds
  <2>3. CASE Removes
    BY <1>3, <1>5, <2>3 DEF Removes, SetCloud
  <2> QED
    BY <1>5, <2>1, <2>2, <2>3, ToolEffect
<1>6. CASE snap' = snap /\ Editor
  <2>1. CASE EditorAdds
    <3>1. PICK r \in EditorRules :
            cloud' = cloud \union {[keys |-> r.keys, tag |-> r.tag, located |-> r.located,
                                    born |-> births + 1]}
      BY <2>1 DEF EditorAdds, SetCloud
    <3> DEFINE n == [keys |-> r.keys, tag |-> r.tag, located |-> r.located, born |-> births + 1]
    <3>2. n.born = births + 1 /\ births' = births + 1
      BY <2>1 DEF EditorAdds
    <3> HIDE DEF n
    <3>3. cloud' = cloud \union {n}
      BY <3>1 DEF n
    <3> DEFINE N == {n}
    <3>4. /\ \A q \in N : q.born = births + 1
          /\ \A q, s \in N : q.keys = s.keys => q = s
      BY <3>2
    <3>5. cloud' = cloud \union N
      BY <3>3
    <3> HIDE DEF N
    <3> QED
      BY <1>4, <1>6, <3>2, <3>4, <3>5
  <2>2. CASE EditorRemoves
    BY <1>3, <1>6, <2>2 DEF EditorRemoves, SetCloud
  <2>3. CASE EditorRetags
    BY <2>3 DEF EditorRetags
  <2> QED
    BY <1>6, <2>1, <2>2, <2>3 DEF Editor
<1>7. CASE snap' = snap /\ Returned
  BY <1>3, <1>7 DEF Returned, vars, cloudVars
<1> QED
  BY <1>2, <1>5, <1>6, <1>7, SnapshotStep DEF Next

\* No step of the tool or of others breaks it.
LEMMA InvStep ==
  IInv /\ [Next]_vars => IInv'
<1>1. IInv /\ UNCHANGED vars => IInv'
  BY DEF IInv, TypeOK, SnapshotSound, WritesVersioned, IdentityStable, SameId,
         vars, cloudVars, toolVars, history
<1>2. IInv /\ Next => TypeOK'
  BY NextType DEF IInv
<1> QED
  BY <1>1, <1>2, SnapshotSoundStep, WritesVersionedStep, IdentityStep DEF IInv

\* The invariant behind every theorem below.
THEOREM Inductive == Spec => []IInv
BY InitInv, InvStep, PTL DEF Spec

-----------------------------------------------------------------------------
(***************************************************************************)
(* What a step of the tool may never do.                                   *)
(***************************************************************************)
\* Every step of the others is counted.
LEMMA OnlyOthersEdit ==
  ASSUME IInv, Next, edits' = edits
  PROVE  Untouched \/ Adds \/ Removes
<1>1. ~Editor
  BY DEF IInv, TypeOK, Editor, EditorAdds, EditorRemoves, EditorRetags, Others
<1> QED
  BY <1>1, ToolEffect DEF Next, Returned, vars, cloudVars, Untouched

\* A removed rule has the keys of a rule the cleanup asked to delete, and is
\* that rule when versions or stable descriptions tie the two together.
LEMMA RemovedRules ==
  ASSUME IInv, Removes, NEW q \in cloud \ cloud'
  PROVE  /\ q.keys \intersect Desired(res) = {}
         /\ Versioned \/ RetagTo = {} => q.tag = Tag
<1>1. PICK R \in SUBSET CleanupRequest(snap) : \E D \in DeleteEffects(R) :
        /\ cloud' = cloud \ D
        /\ R # {} /\ Versioned => Current
        /\ R = {} => D = {}
  BY DEF Removes, SetCloud
<1>2. PICK D \in DeleteEffects(R) :
        /\ cloud' = cloud \ D
        /\ R # {} /\ Versioned => Current
        /\ R = {} => D = {}
  BY <1>1
<1>3. q \in D /\ q \in cloud /\ R # {}
  BY <1>2
<1>4. \A r \in R : /\ r \in snap.rules /\ r.tag = Tag /\ r.keys # {}
                   /\ r.keys \intersect Desired(res) = {}
                   /\ Locatable(r, snap)
  BY CleanupFacts
<1>5. CASE CloudType = "tc_lighthouse"
  <2>1. PICK r \in R : q.keys = r.keys
    BY <1>3, <1>5, EffectCases
  <2>2. q \in snap.rules
    BY <1>2, <1>3, <1>5 DEF Versioned, Current
  <2>3. PICK k \in r.keys : TRUE
    BY <1>4
  <2>4. ExternalIndex(k, snap) = {}
    BY <1>4, <1>5 DEF Locatable
  <2>5. q.tag = Tag
    BY <2>1, <2>2, <2>3, <2>4 DEF ExternalIndex, Owned
  <2> QED
    BY <1>4, <2>1, <2>5
<1>6. CASE CloudType = "tc_cvm"
  <2>1. snap.revision = version
    BY <1>2, <1>3, <1>6 DEF Versioned, Current
  <2> QED
    BY <1>3, <1>4, <1>6, <2>1, EffectCases
<1>7. CASE CloudType \notin {"tc_lighthouse", "tc_cvm"}
  <2>1. PICK r \in R : SameId(q, r)
    BY <1>3, <1>7, EffectCases
  <2>2. RetagTo = {} => q = r
    BY <1>3, <1>4, <2>1 DEF IInv, IdentityStable
  <2> QED
    BY <1>4, <1>7, <2>1, <2>2 DEF SameId, Versioned
<1> QED
  BY <1>5, <1>6, <1>7

-----------------------------------------------------------------------------
(***************************************************************************)
(* The safety properties, for every configuration.                         *)
(***************************************************************************)
\* A write of a versioned product takes effect only on the very rules of the
\* snapshot it was decided on: no lost update, no index drift.
THEOREM WritesAreCurrent == Spec => NoStaleWrite
<1>1. ASSUME IInv, [Next]_vars, edits' = edits, Versioned, cloud' # cloud
      PROVE  cloud = snap.rules
  <2>1. Adds \/ Removes
    BY <1>1, OnlyOthersEdit DEF Untouched, vars, cloudVars
  <2>2. CASE Adds
    <3>1. PICK K \in SUBSET ToAdd(res, snap) :
            cloud' = cloud \union NewRules(K) /\ (K # {} /\ Versioned => Current)
      BY <2>2 DEF Adds, SetCloud
    <3>2. K # {}
      BY <1>1, <3>1 DEF NewRules
    <3> QED
      BY <1>1, <3>1, <3>2 DEF Current
  <2>3. CASE Removes
    <3>1. PICK R \in SUBSET CleanupRequest(snap) : \E D \in DeleteEffects(R) :
            /\ cloud' = cloud \ D
            /\ R # {} /\ Versioned => Current
            /\ R = {} => D = {}
      BY <2>3 DEF Removes, SetCloud
    <3> QED
      BY <1>1, <3>1 DEF Current
  <2> QED
    BY <2>1, <2>2, <2>3
<1>2. IInv /\ [Next]_vars =>
        [edits' = edits /\ Versioned /\ cloud' # cloud => cloud = snap.rules]_vars
  BY <1>1
<1> QED
  BY <1>2, Inductive, PTL DEF Spec, NoStaleWrite

\* No step of the tool takes away the last rule for a wanted key: with every
\* product, whatever others do and however calls fail.
THEOREM AccessKept == Spec => AccessPreserved
<1>1. ASSUME IInv, [Next]_vars, edits' = edits,
             NEW k \in Desired(res), Covers(cloud, k)
      PROVE  Covers(cloud', k)
  <2>1. Untouched \/ Adds \/ Removes
    BY <1>1, OnlyOthersEdit DEF Untouched, vars, cloudVars
  <2>2. PICK q \in cloud : k \in q.keys
    BY <1>1 DEF Covers
  <2>3. CASE Untouched \/ Adds
    BY <2>2, <2>3 DEF Untouched, Adds, SetCloud, Covers
  <2>4. CASE Removes
    BY <1>1, <2>2, <2>4, RemovedRules DEF Covers
  <2> QED
    BY <2>1, <2>3, <2>4
<1>2. IInv /\ [Next]_vars =>
        [edits' = edits => \A k \in Desired(res) : Covers(cloud, k) => Covers(cloud', k)]_vars
  BY <1>1
<1> QED
  BY <1>2, Inductive, PTL DEF Spec, AccessPreserved

\* A rule of another namespace survives every step of the tool, as long as
\* the product has versions or nobody changes a description in place.
THEOREM ForeignSafe ==
  ASSUME Versioned \/ RetagTo = {}
  PROVE  Spec => ForeignUntouched
<1>1. ASSUME IInv, [Next]_vars, edits' = edits, NEW q \in cloud \ cloud'
      PROVE  q.tag = Tag
  <2>1. Untouched \/ Adds \/ Removes
    BY <1>1, OnlyOthersEdit DEF Untouched, vars, cloudVars
  <2>2. Removes
    BY <1>1, <2>1 DEF Untouched, Adds, SetCloud
  <2> QED
    BY <1>1, <2>2, RemovedRules
<1>2. IInv /\ [Next]_vars => [edits' = edits => \A r \in cloud \ cloud' : r.tag = Tag]_vars
  BY <1>1
<1> QED
  BY <1>2, Inductive, PTL DEF Spec, ForeignUntouched

\* Under the same condition syncTarget implements the safe reconciler.
THEOREM Refinement ==
  ASSUME Versioned \/ RetagTo = {}
  PROVE  Spec => IsSafeReconciler
<1>1. Init => Reconciler!Init
  BY DEF Init, Reconciler!Init
<1>2. ASSUME IInv, [Next]_vars
      PROVE  [Reconciler!Next]_<<cloud, Desired(res), edits>>
  <2>1. CASE UNCHANGED vars
    BY <2>1 DEF vars, cloudVars, toolVars
  <2>2. CASE Next /\ edits' = edits
    <3>1. CASE Untouched
      BY <2>2, <3>1 DEF Untouched, Reconciler!Next, Reconciler!Decide
    <3>2. CASE Adds
      <4>1. PICK K \in SUBSET ToAdd(res, snap) : cloud' = cloud \union NewRules(K)
        BY <3>2 DEF Adds, SetCloud
      <4>2. \A r \in NewRules(K) : r.tag = Tag /\ r.keys \subseteq Desired(res)
        BY <1>2, NewRuleFacts DEF IInv
      <4> QED
        BY <2>2, <3>2, <4>1, <4>2 DEF Adds, Reconciler!Next, Reconciler!Provide
    <3>3. CASE Removes
      <4>1. \A r \in cloud \ cloud' : r.tag = Tag /\ r.keys \intersect Desired(res) = {}
        BY <1>2, <3>3, RemovedRules
      <4>2. cloud' \subseteq cloud
        BY <3>3 DEF Removes, SetCloud
      <4> QED
        BY <2>2, <3>3, <4>1, <4>2 DEF Removes, Reconciler!Next, Reconciler!Clean
    <3> QED
      BY <1>2, <2>2, <3>1, <3>2, <3>3, OnlyOthersEdit
  <2>3. CASE Next /\ edits' # edits
    <3>1. Editor
      BY <2>3 DEF Next, Tool, Read, Create, Delete, Resolve, ReadS0, ReadS1, ReadS2, ReadFails,
        CreateOk, CreateExists, CreateFails, CreateRefused, DeleteOk, DeleteGone,
        DeleteRefused, DeleteFails, Returned, vars
    <3>2. edits' = edits + 1 /\ res' = res
      BY <3>1 DEF Editor, EditorAdds, EditorRemoves, EditorRetags, Others, toolVars
    <3> QED
      BY <3>2 DEF Reconciler!Next, Reconciler!ByOthers
  <2> QED
    BY <1>2, <2>1, <2>2, <2>3
<1> QED
  BY <1>1, <1>2, Inductive, PTL DEF Spec, IsSafeReconciler, Reconciler!Spec

-----------------------------------------------------------------------------
(***************************************************************************)
(* What the end of a call says.  As long as nobody else has written since  *)
(* the latest read (seenEdits = edits), the snapshot a write is decided on *)
(* is the cloud, and a conclusion drawn from it is true.                   *)
(***************************************************************************)
\* A write is decided on a read of what others have written by then.
Fresh ==
  /\ seenEdits <= edits
  /\ pc \in {"create", "delete"} /\ seenEdits = edits =>
       cloud = snap.rules /\ (Versioned => snap.revision = version)

\* What S1 has established when the cleanup starts.
Decided ==
  /\ pc \in {"delete", "s2"} => DNSErrors(res) = {}
  /\ pc = "delete" => GateOpen(res, snap)
  /\ pc # "done" => outcome = "running"

\* A result is reached by Conclude or by failing.
LEMMA ResultsOfEndings ==
  ASSUME NEW class, outcome = "running",
         FailAttempt(class) \/ RetryCleanup \/ Conclude
  PROVE  /\ pc' \in {"resolve", "done"}
         /\ pc' # "done" => outcome' = "running"
         /\ outcome' \in {"success", "partial"} => Conclude
BY DEF FailAttempt, RetryCleanup, Conclude, RetryAttempt, Finish

\* How a step that others do not take moves the call on.
LEMMA ControlStep ==
  ASSUME Tool, Decided
  PROVE  /\ edits' = edits /\ outcome = "running"
         /\ pc' \in {"create", "delete"} => TakeSnapshot /\ UNCHANGED <<cloud, version>>
         /\ (snap' = snap /\ seenEdits' = seenEdits) \/ TakeSnapshot
         /\ Decided'
<1> USE DEF cloudVars, history
<1>1. outcome = "running"
  BY DEF Decided, Tool, Read, Create, Delete, Resolve, ReadS0, ReadS1, ReadS2, ReadFails,
         CreateOk, CreateExists, CreateFails, CreateRefused, DeleteOk, DeleteGone,
         DeleteRefused, DeleteFails
<1>2. CASE Resolve
  BY <1>1, <1>2 DEF Resolve, Decided
<1>3. CASE ReadS0
  BY <1>1, <1>3 DEF ReadS0, Decided, TakeSnapshot
<1>4. CASE ReadS1
  <2>1. CleanupRequest(snap') # {} => GateOpen(res, snap')
    BY DEF CleanupRequest, Deletable
  <2>2. \/ pc' = "delete" /\ outcome' = outcome /\ CleanupRequest(snap') # {} /\ DNSErrors(res) = {}
        \/ pc' \in {"resolve", "done"} /\ (pc' # "done" => outcome' = "running")
    BY <1>1, <1>4, ResultsOfEndings DEF ReadS1
  <2> QED
    BY <1>1, <1>4, <2>1, <2>2 DEF ReadS1, Decided
<1>5. CASE ReadS2
  <2>1. pc' \in {"resolve", "done"} /\ (pc' # "done" => outcome' = "running")
    BY <1>1, <1>5, ResultsOfEndings DEF ReadS2
  <2> QED
    BY <1>1, <1>5, <2>1 DEF ReadS2, Decided
<1>6. CASE ReadFails
  <2>1. pc' \in {"resolve", "done"} /\ (pc' # "done" => outcome' = "running")
    BY <1>1, <1>6, ResultsOfEndings DEF ReadFails
  <2> QED
    BY <1>1, <1>6, <2>1 DEF ReadFails, Decided
<1>7. CASE CreateOk \/ CreateExists
  BY <1>1, <1>7 DEF CreateOk, CreateExists, Decided
<1>8. CASE CreateFails
  <2>1. pc' \in {"resolve", "done"} /\ (pc' # "done" => outcome' = "running")
    BY <1>1, <1>8, ResultsOfEndings DEF CreateFails
  <2> QED
    BY <1>1, <1>8, <2>1 DEF CreateFails, Decided
<1>9. CASE CreateRefused
  <2>1. pc' \in {"resolve", "done"} /\ (pc' # "done" => outcome' = "running")
    BY <1>1, <1>9, ResultsOfEndings DEF CreateRefused
  <2> QED
    BY <1>1, <1>9, <2>1 DEF CreateRefused, Decided
<1>10. CASE DeleteOk \/ DeleteGone
  BY <1>1, <1>10 DEF DeleteOk, DeleteGone, Decided
<1>11. CASE DeleteRefused
  <2>1. pc' \in {"resolve", "done"} /\ (pc' # "done" => outcome' = "running")
    BY <1>1, <1>11, ResultsOfEndings DEF DeleteRefused
  <2> QED
    BY <1>1, <1>11, <2>1 DEF DeleteRefused, Decided
<1>12. CASE DeleteFails
  <2>1. \/ pc' = "s2" /\ outcome' = outcome
        \/ pc' \in {"resolve", "done"} /\ (pc' # "done" => outcome' = "running")
    BY <1>1, <1>12, ResultsOfEndings DEF DeleteFails
  <2> QED
    BY <1>1, <1>12, <2>1 DEF DeleteFails, Decided
<1> QED
  BY <1>2, <1>3, <1>4, <1>5, <1>6, <1>7, <1>8, <1>9, <1>10, <1>11, <1>12
  DEF Tool, Read, Create, Delete

\* A step of others leaves the call alone and makes its snapshot an old one.
LEMMA EditorStep ==
  ASSUME TypeOK, Editor
  PROVE  /\ edits' = edits + 1 /\ edits \in Nat
         /\ UNCHANGED <<pc, res, snap, seenEdits, outcome, added, deleted, trueAdded, trueDeleted>>
BY TargetSyncAssumption
   DEF TargetSyncAssumption, Editor, EditorAdds, EditorRemoves, EditorRetags, Others, TypeOK,
       toolVars, history

\* Both hold throughout.
LEMMA FreshStep ==
  ASSUME IInv, Fresh, Decided, Next
  PROVE  Fresh' /\ Decided'
<1>1. /\ edits \in Nat /\ seenEdits \in Nat /\ version # NoRevision
  BY TargetSyncAssumption DEF TargetSyncAssumption, IInv, TypeOK, NoRevision
<1>2. CASE Tool
  <2>1. Decided' /\ edits' = edits
    BY <1>2, ControlStep
  <2>2. seenEdits' <= edits'
    BY <1>1, <1>2, <2>1, ControlStep DEF Fresh, TakeSnapshot
  <2>3. ASSUME pc' \in {"create", "delete"}
        PROVE  cloud' = snap'.rules /\ (Versioned => snap'.revision = version')
    BY <1>2, <2>3, ControlStep DEF TakeSnapshot
  <2> QED
    BY <2>1, <2>2, <2>3 DEF Fresh
<1>3. CASE Editor
  <2>1. edits' # seenEdits' /\ seenEdits' <= edits'
    BY <1>1, <1>3, EditorStep DEF IInv, Fresh
  <2>2. Decided'
    BY <1>3, EditorStep DEF IInv, Decided
  <2> QED
    BY <2>1, <2>2 DEF Fresh
<1>4. CASE Returned
  BY <1>4 DEF Returned, vars, cloudVars, toolVars, history, Fresh, Decided
<1> QED
  BY <1>2, <1>3, <1>4 DEF Next

\* A wanted key that is covered stays covered by a step of the tool.
LEMMA CoverageStep ==
  ASSUME IInv, Tool, NEW k \in Desired(res), Covers(cloud, k)
  PROVE  Covers(cloud', k)
<1>1. PICK q \in cloud : k \in q.keys
  BY DEF Covers
<1>2. CASE Removes
  BY <1>1, <1>2, RemovedRules DEF Covers
<1>3. CASE Untouched \/ Adds
  BY <1>1, <1>3 DEF Untouched, Adds, SetCloud, Covers
<1> QED
  BY <1>2, <1>3, ToolEffect

\* A read that shows every needed key concludes with the truth.
LEMMA ReadConclusion ==
  ASSUME TypeOK, TakeSnapshot, UNCHANGED <<cloud, edits, res>>,
         ToAdd(res, snap') = {}, DNSErrors(res) = {},
         deferred' = Cardinality(Candidates(res, snap'))
  PROVE  ResultIsTrue' /\ DeferredIsConservative'
<1>1. snap'.rules = cloud'
  BY DEF TakeSnapshot
<1>2. ResultIsTrue'
  BY <1>1 DEF ResultIsTrue, ToAdd
<1>3. Candidates(res, snap') = {r \in cloud : Owned(r) /\ r.keys # {} /\ r.keys \intersect Desired(res) = {}}
  BY <1>1 DEF Candidates
<1>4. deferred' \in Nat
  BY SnapshotType
<1> QED
  BY <1>2, <1>3, <1>4 DEF DeferredIsConservative, Owned

\* So does a cleanup that confirmed nothing: what it may have removed was not
\* wanted, and the residue it reports is that of S1.
LEMMA CleanupConclusion ==
  ASSUME IInv, Fresh, Decided, Tool, pc = "delete",
         UNCHANGED <<edits, seenEdits, res, snap>>, cloud' \subseteq cloud, Progress(0)
  PROVE  ResultIsTrue' /\ DeferredIsConservative'
<1> SUFFICES ASSUME seenEdits = edits
             PROVE  ResultIsTrue' /\ DeferredIsConservative'
  BY DEF ResultIsTrue, DeferredIsConservative
<1>1. cloud = snap.rules
  BY DEF Fresh
<1>2. DNSErrors(res) = {} /\ ToAdd(res, snap) = {}
  BY DEF Decided, GateOpen, CoverageReady
<1>3. ASSUME NEW k \in Needed(res) PROVE Covers(cloud', k)
  <2>1. k \in Desired(res) /\ Covers(cloud, k)
    BY <1>1, <1>2 DEF Needed, ToAdd
  <2> QED
    BY <2>1, CoverageStep
<1>4. ResultIsTrue'
  BY <1>2, <1>3 DEF ResultIsTrue
<1> DEFINE Left == {r \in cloud' : Owned(r) /\ r.keys # {} /\ r.keys \intersect Desired(res) = {}}
<1>5. Left \in SUBSET Candidates(res, snap)
  BY <1>1 DEF Candidates
<1>6. IsFiniteSet(Candidates(res, snap))
  BY CleanupFacts, FS_Subset DEF IInv, TypeOK
<1>7. Cardinality(Left) <= Cardinality(Candidates(res, snap))
  BY <1>5, <1>6, FS_Subset
<1>8. Cardinality(Candidates(res, snap)) \in Nat
  BY <1>6, FS_CardinalityType
<1>9. deferred' = Cardinality(Candidates(res, snap))
  BY <1>8 DEF Progress
<1>10. deferred' >= Cardinality(Left)
  BY <1>7, <1>8, <1>9, FS_CardinalityType, <1>5, <1>6, FS_Subset
<1> HIDE DEF Left
<1>11. Left = {r \in cloud' : Owned(r) /\ r.keys # {} /\ r.keys \intersect Desired(res') = {}}
  BY DEF Left
<1>12. DeferredIsConservative'
  BY <1>10, <1>11 DEF DeferredIsConservative, Owned
<1> QED
  BY <1>4, <1>12

\* Every result of a call is true, and its residue is not too small.
LEMMA ConclusionStep ==
  ASSUME IInv, Fresh, Decided, ResultIsTrue, DeferredIsConservative, Next
  PROVE  ResultIsTrue' /\ DeferredIsConservative'
<1>1. CASE Editor
  <2>1. seenEdits' # edits'
    BY <1>1, EditorStep, TargetSyncAssumption DEF TargetSyncAssumption, IInv, TypeOK, Fresh
  <2> QED
    BY <2>1 DEF ResultIsTrue, DeferredIsConservative
<1>2. CASE Returned
  BY <1>2 DEF Returned, vars, cloudVars, toolVars, history, ResultIsTrue, DeferredIsConservative
<1>3. CASE Tool /\ outcome' \notin {"success", "partial"}
  BY <1>3 DEF ResultIsTrue, DeferredIsConservative
<1>4. CASE Tool /\ outcome' \in {"success", "partial"}
  <2>1. outcome = "running"
    BY <1>4, ControlStep
  <2>2. CASE ReadS1
    <3>1. ToAdd(res, snap') = {} /\ DNSErrors(res) = {}
      BY <1>4, <2>1, <2>2, ResultsOfEndings DEF ReadS1, FailAttempt, RetryAttempt, Finish
    <3> QED
      BY <2>2, <3>1, ReadConclusion DEF ReadS1, IInv, cloudVars
  <2>3. CASE ReadS2
    <3>1. ToAdd(res, snap') = {} /\ deferred' = Cardinality(Candidates(res, snap'))
      BY <1>4, <2>1, <2>3 DEF ReadS2, FailAttempt, RetryAttempt, Finish
    <3>2. DNSErrors(res) = {}
      BY <2>3 DEF ReadS2, Decided
    <3> QED
      BY <2>3, <3>1, <3>2, ReadConclusion DEF ReadS2, IInv, cloudVars
  <2>4. CASE DeleteRefused
    BY <1>4, <2>4, CleanupConclusion DEF DeleteRefused, cloudVars
  <2>5. CASE DeleteFails
    <3>1. PICK W \in ConfirmedBefore(CleanupRequest(snap)) :
            /\ \E D : SetCloud(cloud \ D)
            /\ Progress(Cardinality(W))
            /\ \/ outcome' = outcome
               \/ W = {}
      BY <2>5 DEF DeleteFails
    <3>2. W = {} /\ cloud' \subseteq cloud
      BY <1>4, <2>1, <3>1 DEF SetCloud
    <3>3. Progress(0)
      BY <3>1, <3>2, FS_EmptySet
    <3> QED
      BY <1>4, <2>5, <3>2, <3>3, CleanupConclusion DEF DeleteFails
  <2> QED
    BY <1>4, <2>1, <2>2, <2>3, <2>4, <2>5
    DEF Tool, Read, Create, Delete, Resolve, ReadS0, ReadFails, CreateOk, CreateExists,
        CreateFails, CreateRefused, DeleteOk, DeleteGone, FailAttempt, RetryAttempt, Finish
<1> QED
  BY <1>1, <1>2, <1>3, <1>4 DEF Next

\* The invariant with what is known at the end of a call.
EndInv == IInv /\ Fresh /\ Decided /\ ResultIsTrue /\ DeferredIsConservative

\* It holds throughout.
THEOREM EndInductive == Spec => []EndInv
<1>1. Init => EndInv
  <2> SUFFICES ASSUME Init PROVE EndInv
    OBVIOUS
  <2>1. Fresh /\ Decided /\ ResultIsTrue /\ DeferredIsConservative
    BY DEF Init, Fresh, Decided, ResultIsTrue, DeferredIsConservative
  <2> QED
    BY <2>1, InitInv DEF EndInv
<1>2. EndInv /\ [Next]_vars => EndInv'
  <2>1. EndInv /\ UNCHANGED vars => EndInv'
    <3> SUFFICES ASSUME EndInv, UNCHANGED vars PROVE EndInv'
      OBVIOUS
    <3>1. IInv'
      BY InvStep DEF EndInv
    <3>2. (Fresh /\ Decided /\ ResultIsTrue /\ DeferredIsConservative)'
      BY DEF EndInv, vars, cloudVars, toolVars, history, Fresh, Decided, ResultIsTrue,
             DeferredIsConservative
    <3> QED
      BY <3>1, <3>2 DEF EndInv
  <2>2. EndInv /\ Next => EndInv'
    BY InvStep, FreshStep, ConclusionStep DEF EndInv
  <2> QED
    BY <2>1, <2>2
<1> QED
  BY <1>1, <1>2, PTL DEF Spec

\* "success" and "partial" are true of the cloud for every configuration,
\* unless others changed it after the last snapshot.
THEOREM ResultsTrue == Spec => []ResultIsTrue
BY EndInductive, PTL DEF EndInv

\* The reported residue never understates what is left in the cloud.
THEOREM ResidueReported == Spec => []DeferredIsConservative
BY EndInductive, PTL DEF EndInv

\* Make before break: no rule is removed before every key the attempt wants
\* is there, unless others removed it after S1.
THEOREM NewBeforeOld == Spec => MakeBeforeBreak
<1>1. ASSUME EndInv, [Next]_vars, edits' = edits, ~(cloud \subseteq cloud'), seenEdits = edits
      PROVE  DNSErrors(res) = {} /\ \A k \in Desired(res) : Covers(cloud', k)
  <2>1. Removes /\ Tool
    <3>1. Untouched \/ Adds \/ Removes
      BY <1>1, OnlyOthersEdit DEF EndInv, Untouched, vars, cloudVars
    <3>2. Removes
      BY <1>1, <3>1 DEF Untouched, Adds, SetCloud
    <3>3. Tool
      BY <1>1, EditorStep DEF EndInv, IInv, Next, Returned, vars, cloudVars
    <3> QED
      BY <3>2, <3>3
  <2>2. pc = "delete"
    BY <1>1, <2>1 DEF Tool, Read, Create, Delete, Resolve, ReadS0, ReadS1, ReadS2, ReadFails,
         CreateOk, CreateExists, CreateFails, CreateRefused, DeleteOk, DeleteGone,
         DeleteRefused, DeleteFails, cloudVars, SetCloud
  <2>3. cloud = snap.rules /\ GateOpen(res, snap)
    BY <1>1, <2>2 DEF EndInv, Fresh, Decided
  <2>4. DNSErrors(res) = {} /\ \A k \in Desired(res) : Covers(cloud, k)
    BY <2>3 DEF GateOpen, CoverageReady, Unsupported, ToAdd
  <2> QED
    BY <1>1, <2>1, <2>4, CoverageStep DEF EndInv
<1>2. EndInv /\ [Next]_vars =>
        [edits' = edits /\ ~(cloud \subseteq cloud') /\ seenEdits = edits =>
           DNSErrors(res) = {} /\ \A k \in Desired(res) : Covers(cloud', k)]_vars
  BY <1>1
<1> QED
  BY <1>2, EndInductive, PTL DEF Spec, MakeBeforeBreak

-----------------------------------------------------------------------------
(***************************************************************************)
(* Counts.  What a provider confirms is what it was asked to do; that it   *)
(* did at least that much rests on how a product names a rule: two rules   *)
(* of one request are never removed as one.                                *)
(***************************************************************************)
\* An identity is given out once, so it names at most one rule of the cloud
\* and one of the snapshot, whatever others do to descriptions.
Unique ==
  /\ \A q \in cloud : q.born <= births
  /\ \A q, r \in cloud : SameId(q, r) => q = r
  /\ \A q, r \in snap.rules : SameId(q, r) => q = r

\* What adding rules of the next write, removing rules and describing a rule
\* anew do to identities.
LEMMA UniqueChanges ==
  ASSUME TypeOK, Unique, snap' = snap,
         \/ cloud' \subseteq cloud /\ births' = births
         \/ births' = births + 1 /\ \E N :
              /\ cloud' = cloud \union N
              /\ \A q \in N : q.born = births + 1
              /\ \A q, r \in N : q.keys = r.keys => q = r
         \/ births' = births /\ \E r \in cloud, n \in RuleType :
              n.born = r.born /\ n.keys = r.keys /\ cloud' = (cloud \ {r}) \union {n}
  PROVE  Unique'
<1>1. /\ \A q \in cloud : q.born \in Int /\ q.born <= births
      /\ births \in Nat
      /\ \A q, r \in cloud : q.born = r.born /\ q.keys = r.keys => q = r
      /\ \A q, r \in snap'.rules : q.born = r.born /\ q.keys = r.keys => q = r
  BY DEF TypeOK, RuleType, Unique, SameId
<1>2. CASE cloud' \subseteq cloud /\ births' = births
  BY <1>1, <1>2 DEF Unique, SameId
<1>3. CASE births' = births + 1 /\ \E N :
              /\ cloud' = cloud \union N
              /\ \A q \in N : q.born = births + 1
              /\ \A q, r \in N : q.keys = r.keys => q = r
  BY <1>1, <1>3 DEF Unique, SameId
<1>4. CASE births' = births /\ \E r \in cloud, n \in RuleType :
              n.born = r.born /\ n.keys = r.keys /\ cloud' = (cloud \ {r}) \union {n}
  BY <1>1, <1>4 DEF Unique, SameId
<1> QED
  BY <1>2, <1>3, <1>4

\* No step gives an identity to two rules.
LEMMA UniqueStep ==
  ASSUME IInv, Unique, Next
  PROVE  Unique'
<1>1. CASE TakeSnapshot /\ UNCHANGED <<cloud, version, births>>
  BY <1>1 DEF TakeSnapshot, Unique, SameId
<1>2. CASE snap' = snap /\ Tool
  <2>1. CASE Untouched \/ Removes
    <3>1. cloud' \subseteq cloud /\ births' = births
      BY <2>1 DEF Untouched, Removes, SetCloud
    <3> QED
      BY <1>2, <3>1, UniqueChanges DEF IInv
  <2>2. CASE Adds
    <3>1. PICK K \in SUBSET ToAdd(res, snap) : cloud' = cloud \union NewRules(K)
      BY <2>2 DEF Adds, SetCloud
    <3>2. births' = births + 1
      BY <2>2 DEF Adds
    <3> QED
      BY <1>2, <3>1, <3>2, NewRuleIds, UniqueChanges DEF IInv
  <2> QED
    BY <1>2, <2>1, <2>2, ToolEffect
<1>3. CASE snap' = snap /\ Editor
  <2>1. CASE EditorAdds
    <3>1. PICK r \in EditorRules :
            cloud' = cloud \union {[keys |-> r.keys, tag |-> r.tag, located |-> r.located,
                                    born |-> births + 1]}
      BY <2>1 DEF EditorAdds, SetCloud
    <3> DEFINE n == [keys |-> r.keys, tag |-> r.tag, located |-> r.located, born |-> births + 1]
               N == {n}
    <3>2. n.born = births + 1 /\ births' = births + 1
      BY <2>1 DEF EditorAdds
    <3> HIDE DEF n
    <3>3. /\ \A q \in N : q.born = births + 1
          /\ \A q, s \in N : q.keys = s.keys => q = s
      BY <3>2
    <3>4. cloud' = cloud \union N
      BY <3>1 DEF n
    <3> HIDE DEF N
    <3> QED
      BY <1>3, <3>2, <3>3, <3>4, UniqueChanges DEF IInv
  <2>2. CASE EditorRemoves
    <3>1. cloud' \subseteq cloud /\ births' = births
      BY <2>2 DEF EditorRemoves, SetCloud
    <3> QED
      BY <1>3, <3>1, UniqueChanges DEF IInv
  <2>3. CASE EditorRetags
    <3>1. PICK r \in cloud, t \in RetagTo : cloud' = (cloud \ {r}) \union {[r EXCEPT !.tag = t]}
      BY <2>3 DEF EditorRetags, SetCloud
    <3>2. r \in RuleType /\ t \in STRING
      BY TargetSyncAssumption DEF TargetSyncAssumption, IInv, TypeOK
    <3> DEFINE n == [r EXCEPT !.tag = t]
    <3>3. n \in RuleType /\ n.born = r.born /\ n.keys = r.keys
      BY <3>2 DEF RuleType
    <3>4. births' = births
      BY <2>3 DEF EditorRetags
    <3>5. cloud' = (cloud \ {r}) \union {n}
      BY <3>1
    <3> HIDE DEF n
    <3> QED
      BY <1>3, <3>3, <3>4, <3>5, UniqueChanges DEF IInv
  <2> QED
    BY <1>3, <2>1, <2>2, <2>3 DEF Editor
<1>4. CASE snap' = snap /\ Returned
  BY <1>4 DEF Returned, vars, cloudVars, Unique, SameId
<1> QED
  BY <1>1, <1>2, <1>3, <1>4, SnapshotStep DEF Next

\* Sets that an injective choice relates.
LEMMA ChoiceBound ==
  ASSUME NEW R, NEW D, IsFiniteSet(D), NEW f \in [R -> D],
         \A r, s \in R : f[r] = f[s] => r = s
  PROVE  Cardinality(R) <= Cardinality(D)
<1>1. f \in Injection(R, D)
  BY DEF Injection, IsInjective
<1> QED
  BY <1>1, FS_Injection

\* A request that succeeds removes at least one rule per rule asked for.
LEMMA EffectCount ==
  ASSUME TypeOK, Unique, NEW R \in SUBSET CleanupRequest(snap), NEW D \in DeleteEffects(R)
  PROVE  Cardinality(R) <= Cardinality(D)
<1>1. IsFiniteSet(D) /\ Cardinality(D) \in Nat
  BY EffectFinite
<1>2. \A r \in R : r \in snap.rules /\ r.tag = Tag /\ r.keys # {} /\ Locatable(r, snap)
  BY CleanupFacts
<1>3. CASE CloudType = "tc_lighthouse"
  <2> DEFINE f == [r \in R |-> CHOOSE q \in D : q.keys = r.keys]
  <2>1. \A r \in R : \E q \in D : q.keys = r.keys
    BY <1>3 DEF DeleteEffects
  <2>2. \A r \in R : f[r] \in D /\ f[r].keys = r.keys
    BY <2>1
  <2>3. f \in [R -> D]
    BY <2>2
  <2>4. ASSUME NEW r \in R, NEW s \in R, f[r] = f[s] PROVE r = s
    <3>1. r.keys = s.keys
      BY <2>2, <2>4
    <3>2. PICK k \in r.keys : TRUE
      BY <1>2
    <3>3. OwnedIndex(k, snap) = {r}
      BY <1>2, <1>3, <3>2 DEF Locatable
    <3>4. s \in OwnedIndex(k, snap)
      BY <1>2, <3>1, <3>2 DEF OwnedIndex, Owned
    <3> QED
      BY <3>3, <3>4
  <2> HIDE DEF f
  <2> QED
    BY <1>1, <2>3, <2>4, ChoiceBound
<1>4. CASE CloudType = "tc_cvm"
  <2>1. CASE snap.revision = version
    BY <1>1, <1>4, <2>1, EffectCases
  <2>2. CASE snap.revision # version
    <3>1. Cardinality(D) = Cardinality(R)
      BY <1>4, <2>2 DEF DeleteEffects
    <3> QED
      BY <1>1, <3>1
  <2> QED
    BY <2>1, <2>2
<1>5. CASE CloudType \notin {"tc_lighthouse", "tc_cvm"}
  <2> DEFINE f == [r \in R |-> CHOOSE q \in D : SameId(q, r)]
  <2>1. \A r \in R : \E q \in D : SameId(q, r)
    BY <1>5 DEF DeleteEffects
  <2>2. \A r \in R : f[r] \in D /\ SameId(f[r], r)
    BY <2>1
  <2>3. f \in [R -> D]
    BY <2>2
  <2>4. ASSUME NEW r \in R, NEW s \in R, f[r] = f[s] PROVE r = s
    <3>1. SameId(r, s)
      BY <2>2, <2>4 DEF SameId
    <3> QED
      BY <1>2, <3>1 DEF Unique
  <2> HIDE DEF f
  <2> QED
    BY <1>1, <2>3, <2>4, ChoiceBound
<1> QED
  BY <1>3, <1>4, <1>5

\* Every write confirms at most what it did.
LEMMA CountsStep ==
  ASSUME IInv, Unique, CountsConfirmed, Next
  PROVE  CountsConfirmed'
<1>1. /\ {added, deleted, trueAdded, trueDeleted} \subseteq Nat
      /\ added <= trueAdded /\ deleted <= trueDeleted
      /\ res \in Answers
  BY DEF IInv, TypeOK, CountsConfirmed, Answers
<1>2. CASE UNCHANGED <<added, deleted, trueAdded, trueDeleted>>
  BY <1>2 DEF CountsConfirmed
<1>3. CASE CreateOk
  <2>1. Cardinality(ToAdd(res, snap)) \in Nat
    BY <1>1, ToAddFacts
  <2>2. UNCHANGED <<deleted, trueDeleted>>
    BY <1>3 DEF CreateOk
  <2> QED
    BY <1>1, <1>3, <2>1, <2>2 DEF CreateOk, CountsConfirmed
<1>4. CASE CreateExists
  <2>1. PICK W \in ConfirmedBefore(ToAdd(res, snap)) :
          added' = added + Cardinality(W) /\ trueAdded' = trueAdded + Cardinality(W)
    BY <1>4 DEF CreateExists
  <2>2. W \in SUBSET ToAdd(res, snap)
    BY DEF ConfirmedBefore
  <2>3. Cardinality(W) \in Nat
    BY <2>2, NewRuleFacts DEF IInv
  <2> QED
    BY <1>1, <1>4, <2>1, <2>3 DEF CreateExists, CountsConfirmed
<1>5. CASE CreateFails
  <2>1. PICK W \in ConfirmedBefore(ToAdd(res, snap)) :
          \E B \in FailingBatch(ToAdd(res, snap), W) : \E X \in {{}, B} :
            added' = added + Cardinality(W) /\ trueAdded' = trueAdded + Cardinality(W \union X)
    BY <1>5 DEF CreateFails
  <2>2. \A B \in FailingBatch(ToAdd(res, snap), W) : \A X \in {{}, B} :
          W \union X \in SUBSET ToAdd(res, snap)
    BY DEF ConfirmedBefore, FailingBatch
  <2>3. PICK V \in SUBSET ToAdd(res, snap) :
          W \in SUBSET V /\ trueAdded' = trueAdded + Cardinality(V)
    BY <2>1, <2>2
  <2>4. IsFiniteSet(V) /\ Cardinality(V) \in Nat
    BY NewRuleFacts DEF IInv
  <2>5. Cardinality(W) <= Cardinality(V) /\ IsFiniteSet(W)
    BY <2>3, <2>4, FS_Subset
  <2>6. Cardinality(W) \in Nat
    BY <2>5, FS_CardinalityType
  <2>7. added' = added + Cardinality(W) /\ UNCHANGED <<deleted, trueDeleted>>
    BY <1>5, <2>1 DEF CreateFails
  <2> QED
    BY <1>1, <2>3, <2>4, <2>5, <2>6, <2>7 DEF CountsConfirmed
<1>6. CASE DeleteOk
  <2>1. PICK D \in DeleteEffects(CleanupRequest(snap)) :
          trueDeleted' = trueDeleted + Cardinality(D)
    BY <1>6 DEF DeleteOk
  <2>2. Cardinality(CleanupRequest(snap)) <= Cardinality(D)
    BY EffectCount DEF IInv
  <2>3. Cardinality(CleanupRequest(snap)) \in Nat /\ Cardinality(D) \in Nat
    BY CleanupCounts, EffectFinite DEF IInv, TypeOK
  <2>4. deleted' = deleted + Cardinality(CleanupRequest(snap)) /\ UNCHANGED <<added, trueAdded>>
    BY <1>6 DEF DeleteOk
  <2> QED
    BY <1>1, <2>1, <2>2, <2>3, <2>4 DEF CountsConfirmed
<1>7. CASE DeleteFails
  <2>1. PICK W \in ConfirmedBefore(CleanupRequest(snap)) :
          /\ \E B \in FailingBatch(CleanupRequest(snap), W) : \E X \in {{}, B} :
               \E D \in DeleteEffects(W \union X) : trueDeleted' = trueDeleted + Cardinality(D)
          /\ deleted' = deleted + Cardinality(W)
    BY <1>7 DEF DeleteFails
  <2>2. \A B \in FailingBatch(CleanupRequest(snap), W) : \A X \in {{}, B} :
          W \union X \in SUBSET CleanupRequest(snap)
    BY DEF ConfirmedBefore, FailingBatch
  <2>3. PICK V \in SUBSET CleanupRequest(snap) :
          W \in SUBSET V /\ \E D \in DeleteEffects(V) : trueDeleted' = trueDeleted + Cardinality(D)
    BY <2>1, <2>2
  <2>4. PICK D \in DeleteEffects(V) : trueDeleted' = trueDeleted + Cardinality(D)
    BY <2>3
  <2>5. IsFiniteSet(V) /\ Cardinality(V) \in Nat /\ Cardinality(D) \in Nat
    BY CleanupCounts, EffectFinite DEF IInv, TypeOK
  <2>6. Cardinality(V) <= Cardinality(D)
    BY EffectCount DEF IInv
  <2>7. Cardinality(W) <= Cardinality(V) /\ IsFiniteSet(W)
    BY <2>3, <2>5, FS_Subset
  <2>8. Cardinality(W) \in Nat
    BY <2>7, FS_CardinalityType
  <2>9. UNCHANGED <<added, trueAdded>>
    BY <1>7 DEF DeleteFails
  <2> QED
    BY <1>1, <2>1, <2>4, <2>5, <2>6, <2>7, <2>8, <2>9 DEF CountsConfirmed
<1>8. CASE Resolve \/ Read \/ CreateRefused \/ DeleteGone \/ DeleteRefused \/ Editor \/ Returned
  BY <1>2, <1>8 DEF Resolve, Read, ReadS0, ReadS1, ReadS2, ReadFails, CreateRefused, DeleteGone,
     DeleteRefused, Editor, EditorAdds, EditorRemoves, EditorRetags, Others, Returned,
     vars, toolVars, history
<1> QED
  BY <1>3, <1>4, <1>5, <1>6, <1>7, <1>8 DEF Next, Tool, Create, Delete

\* Confirmed counts never exceed what the call really did to the cloud, over
\* all attempts, lost answers and partial batches.
THEOREM CountsTrue == Spec => []CountsConfirmed
<1> DEFINE CInv == IInv /\ Unique /\ CountsConfirmed
<1>1. Init => CInv
  <2> SUFFICES ASSUME Init PROVE CInv
    OBVIOUS
  <2>1. Unique
    <3>1. /\ \A r \in cloud : r.born <= 0
          /\ \A r, s \in cloud : r.born = s.born /\ r.keys = s.keys => r = s
      BY TargetSyncAssumption DEF TargetSyncAssumption, Init
    <3> QED
      BY <3>1 DEF Init, Unique, SameId
  <2>2. CountsConfirmed
    BY DEF Init, CountsConfirmed
  <2> QED
    BY <2>1, <2>2, InitInv
<1>2. CInv /\ [Next]_vars => CInv'
  <2>1. CInv /\ UNCHANGED vars => Unique' /\ CountsConfirmed'
    BY DEF vars, cloudVars, toolVars, history, Unique, SameId, CountsConfirmed
  <2>2. CInv /\ Next => Unique' /\ CountsConfirmed'
    BY UniqueStep, CountsStep
  <2>3. CInv /\ [Next]_vars => IInv'
    BY InvStep
  <2> QED
    BY <2>1, <2>2, <2>3
<1> QED
  BY <1>1, <1>2, PTL DEF Spec

-----------------------------------------------------------------------------
(***************************************************************************)
(* The calm call.  Undisturbed, the delete removes all that S1 allowed, no *)
(* rule becomes nameable by it, and nothing nameable is left for later.    *)
(***************************************************************************)
\* What the cloud holds, as the planner would see it now.
Now == [rules |-> cloud, revision |-> version]

\* After an undisturbed delete every owned rule that can be named is wanted.
Cleaned ==
  pc = "s2" /\ ~faulty /\ edits = 0 =>
    \A r \in cloud : Owned(r) /\ r.keys # {} /\ Locatable(r, Now) =>
      r.keys \intersect Desired(res) # {}

\* A rule that the cloud without D can name, and no rule of the request, was
\* nameable before: what hid it would have been removed with a namesake.
LEMMA LocatableBefore ==
  ASSUME NEW R, NEW D \in DeleteEffects(R), cloud = snap.rules,
         NEW r \in cloud \ D, Owned(r), r.keys # {}, Locatable(r, [rules |-> cloud \ D, revision |-> version]),
         \A s \in R : s \in snap.rules /\ s.keys # {} /\ Locatable(s, snap)
  PROVE  Locatable(r, snap)
<1>1. CASE CloudType # "tc_lighthouse"
  BY <1>1 DEF Locatable
<1>2. CASE CloudType = "tc_lighthouse"
  <2>1. \A q \in D : q \in cloud /\ \E s \in R : q.keys = s.keys
    BY <1>2, EffectCases
  <2>2. ASSUME NEW k \in r.keys, NEW q \in snap.rules, k \in q.keys PROVE q = r
    <3>1. CASE q \in D
      <4>1. PICK s \in R : q.keys = s.keys
        BY <2>1, <3>1
      <4>2. OwnedIndex(k, snap) = {s}
        BY <1>2, <2>2, <4>1 DEF Locatable
      <4>3. r = s
        BY <4>2 DEF OwnedIndex
      <4>4. OwnedIndex(k, snap) = {r} /\ ExternalIndex(k, snap) = {}
        BY <1>2, <4>3 DEF Locatable
      <4>5. q \in OwnedIndex(k, snap) \union ExternalIndex(k, snap)
        BY <2>2 DEF OwnedIndex, ExternalIndex
      <4> QED
        BY <4>4, <4>5
    <3>2. CASE q \notin D
      <4> DEFINE Left == [rules |-> cloud \ D, revision |-> version]
      <4>1. q \in Left.rules
        BY <2>2, <3>2
      <4>2. OwnedIndex(k, Left) = {r} /\ ExternalIndex(k, Left) = {}
        BY <1>2 DEF Locatable
      <4> HIDE DEF Left
      <4>3. q \in OwnedIndex(k, Left) \union ExternalIndex(k, Left)
        BY <2>2, <4>1 DEF OwnedIndex, ExternalIndex
      <4> QED
        BY <4>2, <4>3
    <3> QED
      BY <3>1, <3>2
  <2>3. \A k \in r.keys : OwnedIndex(k, snap) = {r} /\ ExternalIndex(k, snap) = {}
    <3> TAKE k \in r.keys
    <3>1. r \in OwnedIndex(k, snap)
      BY DEF OwnedIndex
    <3>2. \A q \in OwnedIndex(k, snap) \union ExternalIndex(k, snap) : q = r
      BY <2>2 DEF OwnedIndex, ExternalIndex
    <3>3. r \notin ExternalIndex(k, snap)
      BY DEF ExternalIndex
    <3> QED
      BY <3>1, <3>2, <3>3
  <2> QED
    BY <1>2, <2>3 DEF Locatable
<1> QED
  BY <1>1, <1>2

\* A request on what the cloud still holds removes all its rules.
LEMMA RequestRemoved ==
  ASSUME NEW R, NEW D \in DeleteEffects(R), cloud = snap.rules,
         CloudType = "tc_cvm" => snap.revision = version,
         NEW r \in R, r \in cloud, Owned(r), r.keys # {}, Locatable(r, snap)
  PROVE  r \in D
<1>1. CASE CloudType = "tc_lighthouse"
  <2>1. PICK q \in D : q.keys = r.keys
    BY <1>1 DEF DeleteEffects
  <2>2. q \in snap.rules
    BY <1>1, EffectCases
  <2>3. PICK k \in r.keys : TRUE
    OBVIOUS
  <2>4. OwnedIndex(k, snap) = {r} /\ ExternalIndex(k, snap) = {}
    BY <1>1 DEF Locatable
  <2>5. q \in OwnedIndex(k, snap) \union ExternalIndex(k, snap)
    BY <2>1, <2>2 DEF OwnedIndex, ExternalIndex
  <2> QED
    BY <2>4, <2>5
<1>2. CASE CloudType = "tc_cvm"
  BY <1>2, EffectCases
<1>3. CASE CloudType \notin {"tc_lighthouse", "tc_cvm"}
  <2>1. D = {q \in cloud : \E s \in R : SameId(q, s)}
    BY <1>3 DEF DeleteEffects
  <2> QED
    BY <2>1 DEF SameId
<1> QED
  BY <1>1, <1>2, <1>3

\* Nor is such a request answered with "not found".
LEMMA NeverGone ==
  ASSUME IInv, Fresh, seenEdits = edits, DeleteGone
  PROVE  FALSE
<1>1. cloud = snap.rules /\ (Versioned => snap.revision = version)
  BY DEF Fresh, DeleteGone
<1> DEFINE R == CleanupRequest(snap)
<1>2. R \subseteq cloud
  BY <1>1, CleanupFacts
<1>3. CASE CloudType = "tc_cvm"
  BY <1>1, <1>3 DEF DeleteGone, Accepts, WriteRevision, Versioned
<1>4. CASE CloudType = "tc_lighthouse"
  <2> DEFINE D == {q \in cloud : \E r \in R : q.keys = r.keys}
  <2>1. \A r \in R : \E q \in D : q.keys = r.keys
    BY <1>2
  <2>2. DeleteEffects(R) = {E \in SUBSET D : \A r \in R : \E q \in E : q.keys = r.keys}
    BY <1>4 DEF DeleteEffects
  <2> HIDE DEF D
  <2>3. D \in DeleteEffects(R)
    BY <2>1, <2>2
  <2> QED
    BY <1>4, <2>3 DEF DeleteGone
<1>5. CASE CloudType \notin {"tc_lighthouse", "tc_cvm"}
  <2>1. \A r \in R : \E q \in cloud : SameId(q, r)
    BY <1>2 DEF SameId
  <2>2. DeleteEffects(R) = {{q \in cloud : \E r \in R : SameId(q, r)}}
    BY <1>5, <2>1 DEF DeleteEffects
  <2> QED
    BY <1>5, <2>2 DEF DeleteGone
<1> QED
  BY <1>3, <1>4, <1>5

\* The delete leads to S2 clean, or with a failure or an edit on record.
LEMMA CleanedStep ==
  ASSUME EndInv, Cleaned, Next
  PROVE  Cleaned'
<1> SUFFICES ASSUME pc' = "s2", ~faulty', edits' = 0,
                    NEW r \in cloud', Owned(r), r.keys # {}, Locatable(r, Now'),
                    r.keys \intersect Desired(res') = {}
             PROVE  FALSE
  BY DEF Cleaned, Owned, Locatable, OwnedIndex, ExternalIndex
<1>1. ~Editor
  BY EditorStep DEF EndInv, IInv
<1>2. CASE Returned
  BY <1>2 DEF Returned, vars, cloudVars, toolVars, history, EndInv, Cleaned, Now
<1>3. CASE Tool
  <2>1. DeleteOk \/ DeleteGone
    BY <1>3, ResultsOfEndings, ControlStep
    DEF EndInv, Tool, Read, Create, Delete, Resolve, ReadS0, ReadS1, ReadS2, ReadFails,
        CreateOk, CreateExists, CreateFails, CreateRefused, DeleteRefused, DeleteFails
  <2>2. pc = "delete" /\ edits = 0 /\ seenEdits = edits
    BY <2>1, TargetSyncAssumption DEF DeleteOk, DeleteGone, history, EndInv, Fresh, IInv, TypeOK
  <2>3. cloud = snap.rules /\ (Versioned => snap.revision = version)
    BY <2>2 DEF EndInv, Fresh
  <2>4. DeleteOk
    BY <2>1, <2>2, NeverGone DEF EndInv
  <2> DEFINE R == CleanupRequest(snap)
  <2>5. PICK D \in DeleteEffects(R) : cloud' = cloud \ D
    BY <2>4 DEF DeleteOk, SetCloud
  <2>6. res' = res
    BY <2>4 DEF DeleteOk
  <2>7. \A s \in R : s \in snap.rules /\ s.keys # {} /\ Locatable(s, snap)
    BY CleanupFacts
  <2>8. Locatable(r, [rules |-> cloud \ D, revision |-> version])
    BY <2>5 DEF Now, Locatable, OwnedIndex, ExternalIndex
  <2>9. Locatable(r, snap)
    BY <2>3, <2>5, <2>7, <2>8, LocatableBefore
  <2>10. GateOpen(res, snap)
    BY <2>2 DEF EndInv, Decided
  <2>11. r \in R
    BY <2>3, <2>5, <2>6, <2>9, <2>10 DEF CleanupRequest, Deletable, Candidates
  <2>12. r \in D
    BY <2>3, <2>5, <2>9, <2>11, RequestRemoved DEF Versioned
  <2> QED
    BY <2>5, <2>12
<1> QED
  BY <1>1, <1>2, <1>3 DEF Next

\* A configuration with a rule that resolved wants some key.
LEMMA SomethingDesired ==
  ASSUME NEW a \in Answers, DomainRules # {}, DNSErrors(a) = {}
  PROVE  Desired(a) # {}
<1>1. PICK r \in DomainRules : TRUE
  OBVIOUS
<1>2. PICK d \in RuleAddresses(r, a) : TRUE
  BY DEF DNSErrors
<1>3. PICK p \in Protocols(r) : TRUE
  BY DEF Protocols
<1>4. PICK q \in r.ports : TRUE
  BY PlannerAssumption DEF PlannerAssumption
<1>5. [family |-> d.family, cidr |-> d.cidr, proto |-> p, port |-> KeyPort(p, q),
       action |-> r.action] \in KeysOf(r, a)
  BY <1>2, <1>3, <1>4 DEF KeysOf
<1> QED
  BY <1>5 DEF Desired

\* The cloud has no conflict and every owned rule in it can be named.
Clear == ~Conflict(Now) /\ \A r \in cloud : Owned(r) => Locatable(r, Now)

\* What a read makes of a clear cloud.
LEMMA ClearRead ==
  ASSUME TypeOK, TakeSnapshot, UNCHANGED <<cloud, version>>, Clear'
  PROVE  /\ snap'.rules = cloud /\ ~Conflict(snap')
         /\ \A r \in cloud : Owned(r) => r.keys # {} /\ Locatable(r, snap') /\ Locatable(r, Now)
<1>1. snap'.rules = cloud /\ (Versioned => snap'.revision = version)
  BY DEF TakeSnapshot
<1>2. version # NoRevision
  BY DEF TypeOK, NoRevision
<1>3. ~Conflict(Now) /\ \A r \in cloud : Owned(r) => Locatable(r, Now)
  BY DEF Clear, Now, Conflict, Locatable, OwnedIndex, ExternalIndex, Owned
<1>4. ~Conflict(snap')
  BY <1>1, <1>2, <1>3 DEF Conflict, Now
<1>5. \A r \in cloud : r.keys # {}
  BY <1>3 DEF Conflict, Now
<1>6. ASSUME NEW r \in cloud, Owned(r) PROVE Locatable(r, snap')
  BY <1>1, <1>3, <1>6 DEF Locatable, OwnedIndex, ExternalIndex, Now
<1> QED
  BY <1>1, <1>3, <1>4, <1>5, <1>6

\* A read of a cloud where every owned rule is wanted reports no residue.
LEMMA NothingLeft ==
  ASSUME TakeSnapshot, UNCHANGED <<cloud, res>>,
         deferred' = Cardinality(Candidates(res, snap')),
         \A r \in cloud : Owned(r) => r.keys \intersect Desired(res) # {}
  PROVE  CalmSyncConverges'
<1>1. Candidates(res, snap') = {}
  BY DEF TakeSnapshot, Candidates
<1>2. deferred' = 0
  BY <1>1, FS_EmptySet
<1> QED
  BY <1>2 DEF CalmSyncConverges, Owned

\* A calm call that succeeds left nothing behind.
LEMMA CalmStep ==
  ASSUME DomainRules # {}, EndInv, Cleaned, CalmSyncConverges, Next
  PROVE  CalmSyncConverges'
<1>1. CASE Editor
  <2>1. edits' # 0
    BY <1>1, EditorStep DEF EndInv, IInv
  <2> QED
    BY <2>1 DEF CalmSyncConverges
<1>2. CASE Returned
  BY <1>2 DEF Returned, vars, cloudVars, toolVars, history, CalmSyncConverges,
     Conflict, Locatable, OwnedIndex, ExternalIndex, Owned
<1>3. CASE Tool /\ ~(outcome' = "success" /\ ~faulty' /\ edits' = 0 /\ Clear')
  BY <1>3 DEF CalmSyncConverges, Clear, Now
<1>4. CASE Tool /\ outcome' = "success" /\ ~faulty' /\ edits' = 0 /\ Clear'
  <2>1. outcome = "running" /\ res \in Answers /\ edits = 0
    BY <1>4, ControlStep DEF EndInv, IInv, TypeOK, Answers
  <2>2. ReadS1 \/ ReadS2
    BY <1>4, <2>1
    DEF Tool, Read, Create, Delete, Resolve, ReadS0, ReadFails, CreateOk, CreateExists,
        CreateFails, CreateRefused, DeleteOk, DeleteGone, DeleteRefused, DeleteFails,
        FailAttempt, RetryAttempt, Finish
  <2>3. TakeSnapshot /\ UNCHANGED <<cloud, version, edits, res, faulty>>
    BY <2>2 DEF ReadS1, ReadS2, cloudVars
  <2>4. /\ snap'.rules = cloud /\ ~Conflict(snap')
        /\ \A r \in cloud : Owned(r) => r.keys # {} /\ Locatable(r, snap') /\ Locatable(r, Now)
    BY <1>4, <2>3, ClearRead DEF EndInv, IInv
  <2>5. CASE ReadS1
    <3>1. /\ ToAdd(res, snap') = {} /\ DNSErrors(res) = {} /\ CleanupRequest(snap') = {}
          /\ Conclude
      BY <1>4, <2>1, <2>5 DEF ReadS1, FailAttempt, RetryAttempt, Finish
    <3>2. Unsupported(res) = {}
      BY <1>4, <3>1 DEF Conclude, Finish
    <3>3. GateOpen(res, snap')
      <4>1. Desired(res) # {}
        BY <2>1, <3>1, SomethingDesired
      <4>2. Needed(res) # {}
        BY <3>2, <4>1 DEF Unsupported
      <4> QED
        BY <2>4, <3>1, <3>2, <4>1, <4>2 DEF GateOpen, CoverageReady
    <3>4. ASSUME NEW r \in cloud, Owned(r), r.keys \intersect Desired(res) = {} PROVE FALSE
      <4>1. r \in CleanupRequest(snap')
        BY <2>4, <3>3, <3>4 DEF CleanupRequest, Deletable, Candidates
      <4> QED
        BY <3>1, <4>1
    <3> QED
      BY <2>3, <2>5, <3>4, NothingLeft DEF ReadS1
  <2>6. CASE ReadS2
    <3>1. deferred' = Cardinality(Candidates(res, snap'))
      BY <1>4, <2>1, <2>6 DEF ReadS2, FailAttempt, RetryAttempt, Finish
    <3>2. \A r \in cloud : Owned(r) => r.keys \intersect Desired(res) # {}
      BY <1>4, <2>1, <2>3, <2>4, <2>6 DEF ReadS2, Cleaned
    <3> QED
      BY <2>3, <3>1, <3>2, NothingLeft
  <2> QED
    BY <2>2, <2>5, <2>6
<1> QED
  BY <1>1, <1>2, <1>3, <1>4 DEF Next

\* One undisturbed call is enough, for every target that has rules (syncer.go
\* does not call syncTarget for the others).
THEOREM CalmSync ==
  ASSUME DomainRules # {}
  PROVE  Spec => []CalmSyncConverges
<1> DEFINE CInv == EndInv /\ Cleaned /\ CalmSyncConverges
<1>1. Init => Cleaned /\ CalmSyncConverges
  BY DEF Init, Cleaned, CalmSyncConverges
<1>2. EndInv /\ Cleaned /\ CalmSyncConverges /\ [Next]_vars => Cleaned' /\ CalmSyncConverges'
  <2>1. Cleaned /\ CalmSyncConverges /\ UNCHANGED vars => Cleaned' /\ CalmSyncConverges'
    BY DEF vars, cloudVars, toolVars, history, Cleaned, CalmSyncConverges, Now,
       Conflict, Locatable, OwnedIndex, ExternalIndex, Owned
  <2>2. EndInv /\ Cleaned /\ CalmSyncConverges /\ Next => Cleaned' /\ CalmSyncConverges'
    BY CleanedStep, CalmStep
  <2> QED
    BY <2>1, <2>2
<1> QED
  BY <1>1, <1>2, EndInductive, PTL DEF Spec

=============================================================================
