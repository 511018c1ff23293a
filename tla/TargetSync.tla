----------------------------- MODULE TargetSync -----------------------------
(***************************************************************************)
(* One call of syncTarget (syncer/target.go): up to MaxRetries attempts of *)
(*                                                                         *)
(*   resolve DNS -> S0 -> create -> S1 -> coverage -> delete -> S2         *)
(*                                                                         *)
(* against a cloud that other people edit at any moment, whose calls fail, *)
(* and whose failed writes may have taken effect all the same.  A step of  *)
(* the tool is one call to DNS or to the cloud with the code that runs     *)
(* until the next one; the cloud's side of a call is external and is       *)
(* modelled from how provider/ uses its answer.                            *)
(***************************************************************************)
EXTENDS Planner

CONSTANTS
  MaxRetries,    \* attempts of one target in one round (3 in the code)
  BatchSize,     \* rules of one ECS write request (100 in the code)
  RuleLimit,     \* ingress rules of a CVM security group (100 in the code)
  InitialClouds, \* the rules the cloud may hold at the start
  EditorRules,   \* what others may add: records [keys, tag, located]
  RetagTo,       \* tags others may give to an existing rule in place
  MaxEdits       \* bound: edits by others during one call of syncTarget

RuleType == [keys : SUBSET KeyType, tag : STRING, located : BOOLEAN, born : Int]

ASSUME TargetSyncAssumption ==
  /\ MaxRetries \in Nat \ {0}
  /\ BatchSize \in Nat \ {0}
  /\ RuleLimit \in Nat
  /\ MaxEdits \in Nat
  /\ Tag \in STRING /\ RetagTo \subseteq STRING
  /\ \A r \in EditorRules : r \in [keys : SUBSET KeyType, tag : STRING, located : BOOLEAN]
  /\ \A C \in InitialClouds :
       /\ C \subseteq RuleType /\ IsFiniteSet(C)
       /\ \A r \in C : r.born <= 0
       /\ \A r, s \in C : r.born = s.born /\ r.keys = s.keys => r = s

VARIABLES
  \* the cloud
  cloud,        \* its rules
  version,      \* FirewallVersion or Version; constant for Aliyun
  births,       \* writes that created rules, so the last `born` given out
  edits,        \* edits made by others so far
  \* syncTarget
  pc,           \* the call it makes next
  attempt,      \* 1..MaxRetries
  res,          \* DNS answers of this attempt
  snap,         \* the latest snapshot: S0, S1 or S2
  added, deleted, \* confirmed writes, over all attempts
  deferred,     \* cleanupDeferred
  outcome,      \* TargetOutcome
  \* what an observer of the cloud knows (history)
  trueAdded, trueDeleted, \* rules this call really created and removed
  seenEdits,    \* edits when the latest snapshot was read
  faulty        \* some call of this syncTarget failed

cloudVars == <<cloud, version, births>>
toolVars  == <<pc, attempt, res, snap, added, deleted, deferred, outcome>>
history   == <<trueAdded, trueDeleted, seenEdits, faulty>>
vars      == <<cloudVars, edits, toolVars, history>>

Outcomes == {"running", "success", "partial", "failed"}
Classes  == {"retryable", "fatal"}   \* isRetryable(err)
Steps    == {"resolve", "s0", "create", "s1", "delete", "s2", "done"}

Init ==
  /\ cloud \in InitialClouds
  /\ version = 0 /\ births = 0 /\ edits = 0
  /\ pc = "resolve" /\ attempt = 1
  /\ res = [h \in Hosts |-> [err |-> "none", ips |-> {}]]
  /\ snap = [rules |-> {}, revision |-> NoRevision]
  /\ added = 0 /\ deleted = 0 /\ deferred = 0
  /\ outcome = "running"
  /\ trueAdded = 0 /\ trueDeleted = 0 /\ seenEdits = 0 /\ faulty = FALSE

-----------------------------------------------------------------------------
(***************************************************************************)
(* How an attempt ends.                                                    *)
(***************************************************************************)
Finish(result) == pc' = "done" /\ outcome' = result /\ UNCHANGED attempt

RetryAttempt ==
  /\ attempt < MaxRetries
  /\ attempt' = attempt + 1
  /\ pc' = "resolve"
  /\ UNCHANGED outcome

\* An error of the attempt: retried when isRetryable, else the target failed.
FailAttempt(class) ==
  \/ class = "retryable" /\ RetryAttempt
  \/ (class = "fatal" \/ attempt = MaxRetries) /\ Finish("failed")

\* S1 proved the required functions, so the conclusion no longer depends on
\* the cleanup.
Conclude == Finish(IF Unsupported(res) = {} THEN "success" ELSE "partial")

\* A retryableCleanupError: retried too, but never turned into "failed".
RetryCleanup ==
  \/ RetryAttempt
  \/ attempt = MaxRetries /\ Conclude

-----------------------------------------------------------------------------
(***************************************************************************)
(* The cloud (external).                                                   *)
(***************************************************************************)
\* A write that carries a revision is refused unless it is the current one.
Accepts(revision) == revision = NoRevision \/ revision = version

SetCloud(rules) ==
  /\ cloud' = rules
  /\ version' = IF Versioned /\ rules # cloud THEN version + 1 ELSE version

SameId(q, r) == q.born = r.born /\ q.keys = r.keys

\* What a successful request to delete the rules R of the snapshot removes.
\* Lighthouse deletes by value, whatever the description, and may take any
\* of several equal rules; a CVM index means the rule it meant only as long
\* as the version is the snapshot's; Aliyun deletes by rule id.  No member:
\* the request is answered with "not found".
DeleteEffects(R) ==
  CASE CloudType = "tc_lighthouse" ->
         {D \in SUBSET {q \in cloud : \E r \in R : q.keys = r.keys} :
            \A r \in R : \E q \in D : q.keys = r.keys}
    [] CloudType = "tc_cvm" ->
         IF snap.revision = version THEN {R}
         ELSE {D \in SUBSET cloud : Cardinality(D) = Cardinality(R)}
    [] OTHER ->
         IF \A r \in R : \E q \in cloud : SameId(q, r)
         THEN {{q \in cloud : \E r \in R : SameId(q, r)}} ELSE {}

\* Rules the tool creates: one per key, with its TAG.
NewRules(K) ==
  {[keys |-> {k}, tag |-> Tag, located |-> TRUE, born |-> births + 1] : k \in K}

Others == edits < MaxEdits /\ edits' = edits + 1 /\ UNCHANGED <<toolVars, history>>

EditorAdds ==
  /\ Others
  /\ \E r \in EditorRules :
       SetCloud(cloud \union {[keys |-> r.keys, tag |-> r.tag, located |-> r.located,
                               born |-> births + 1]})
  /\ births' = births + 1

EditorRemoves ==
  /\ Others
  /\ \E r \in cloud : SetCloud(cloud \ {r})
  /\ UNCHANGED births

\* ModifySecurityGroupRule and the like: a new description, the same id.
EditorRetags ==
  /\ Others
  /\ \E r \in cloud, t \in RetagTo : SetCloud((cloud \ {r}) \union {[r EXCEPT !.tag = t]})
  /\ UNCHANGED births

Editor == EditorAdds \/ EditorRemoves \/ EditorRetags

-----------------------------------------------------------------------------
(***************************************************************************)
(* syncTarget.                                                             *)
(***************************************************************************)
Resolve ==
  /\ pc = "resolve"
  /\ \E answer \in [Hosts -> Resolution] :
       /\ res' = answer
       /\ faulty' = (faulty \/ \E h \in Hosts : answer[h].err # "none")
  /\ pc' = "s0"
  /\ UNCHANGED <<cloudVars, edits, attempt, snap, added, deleted, deferred, outcome,
                 trueAdded, trueDeleted, seenEdits>>

\* GetSnapshot: the rules with the version they were read at.
TakeSnapshot ==
  /\ snap' = [rules |-> cloud, revision |-> IF Versioned THEN version ELSE NoRevision]
  /\ seenEdits' = edits

ReadS0 ==
  /\ pc = "s0"
  /\ TakeSnapshot
  /\ pc' = IF ToAdd(res, snap') # {} THEN "create" ELSE "s1"
  /\ UNCHANGED <<cloudVars, edits, attempt, res, added, deleted, deferred, outcome,
                 trueAdded, trueDeleted, faulty>>

\* The rules runTargetCleanup asks the provider to delete: it checks the
\* owner and the keys of every deletable rule a second time.
CleanupRequest(snapshot) ==
  {r \in Deletable(res, snapshot) :
     Owned(r) /\ r.keys # {} /\ r.keys \intersect Desired(res) = {}}

\* dnsFailureError: the error of the failed rule with the lowest id decides;
\* an empty answer is not retryable.
DNSClass ==
  LET failed == {r \in DomainRules : res[r.host].err # "none"}
  IN IF failed = {} THEN "fatal"
     ELSE res[(CHOOSE r \in failed : \A s \in failed : r.id <= s.id).host].err

ReadS1 ==
  /\ pc = "s1"
  /\ TakeSnapshot
  /\ deferred' = Cardinality(Candidates(res, snap'))
  /\ \/ ToAdd(res, snap') # {} /\ FailAttempt("fatal")
     \/ ToAdd(res, snap') = {} /\ DNSErrors(res) # {} /\ FailAttempt(DNSClass)
     \/ /\ ToAdd(res, snap') = {} /\ DNSErrors(res) = {}
        /\ CleanupRequest(snap') = {}
        /\ Conclude
     \/ /\ ToAdd(res, snap') = {} /\ DNSErrors(res) = {}
        /\ CleanupRequest(snap') # {}
        /\ pc' = "delete"
        /\ UNCHANGED <<attempt, outcome>>
  /\ UNCHANGED <<cloudVars, edits, res, added, deleted, trueAdded, trueDeleted, faulty>>

\* Mutant of ReadS2: the coverage is not verified again after the delete.
ReadS2Trusting ==
  /\ pc = "s2"
  /\ TakeSnapshot
  /\ deferred' = Cardinality(Candidates(res, snap'))
  /\ Conclude
  /\ UNCHANGED <<cloudVars, edits, res, added, deleted, trueAdded, trueDeleted, faulty>>

\* verifyCleanupResult.  A Tencent snapshot without a version is an error of
\* GetSnapshot itself (ReadFails).
ReadS2 ==
  /\ pc = "s2"
  /\ TakeSnapshot
  /\ \/ ToAdd(res, snap') # {} /\ FailAttempt("fatal") /\ UNCHANGED deferred
     \/ /\ ToAdd(res, snap') = {}
        /\ deferred' = Cardinality(Candidates(res, snap'))
        /\ Conclude
  /\ UNCHANGED <<cloudVars, edits, res, added, deleted, trueAdded, trueDeleted, faulty>>

ReadFails ==
  /\ pc \in {"s0", "s1", "s2"}
  /\ \E class \in Classes : FailAttempt(class)
  /\ faulty' = TRUE
  /\ UNCHANGED <<cloudVars, edits, res, snap, added, deleted, deferred,
                 trueAdded, trueDeleted, seenEdits>>

\* Mutants of WriteRevision: a write without a version; a write that carries
\* the version of a later read instead of its own snapshot's.
UnversionedWrite == NoRevision
LatestRevision   == version

\* The revision a write request carries.
WriteRevision == snap.revision

\* ECS writes in batches.  `Confirmed` were answered before the batch that
\* failed; the other products send one request.
ConfirmedBefore(S) ==
  IF CloudType = "ali_ecs"
  THEN {W \in SUBSET S : W # S /\ Cardinality(W) % BatchSize = 0}
  ELSE {{}}

FailingBatch(S, W) ==
  IF CloudType = "ali_ecs"
  THEN {B \in SUBSET (S \ W) :
          Cardinality(B) = BatchSize \/ (B = S \ W /\ Cardinality(B) < BatchSize)}
  ELSE {S}

-----------------------------------------------------------------------------
\* CVM: checkRuleLimit counts the ingress rules before every create.
OverLimit ==
  CloudType = "tc_cvm" /\ Cardinality(cloud) + Cardinality(ToAdd(res, snap)) > RuleLimit

CreateOk ==
  /\ pc = "create" /\ ~OverLimit
  /\ Accepts(WriteRevision)
  /\ SetCloud(cloud \union NewRules(ToAdd(res, snap)))
  /\ births' = births + 1
  /\ added' = added + Cardinality(ToAdd(res, snap))
  /\ trueAdded' = trueAdded + Cardinality(ToAdd(res, snap))
  /\ pc' = "s1"
  /\ UNCHANGED <<edits, attempt, res, snap, deleted, deferred, outcome,
                 trueDeleted, seenEdits, faulty>>

\* isIdempotentCreate: the cloud says that a rule exists already.  Batches
\* confirmed before count; the attempt goes on to S1.
CreateExists ==
  /\ pc = "create" /\ ~OverLimit
  /\ \E W \in ConfirmedBefore(ToAdd(res, snap)) :
       /\ \E k \in ToAdd(res, snap) \ W : Covers(cloud, k)
       /\ W # {} => Accepts(WriteRevision)
       /\ SetCloud(cloud \union NewRules(W))
       /\ added' = added + Cardinality(W)
       /\ trueAdded' = trueAdded + Cardinality(W)
  /\ births' = births + 1
  /\ pc' = "s1"
  /\ UNCHANGED <<edits, attempt, res, snap, deleted, deferred, outcome,
                 trueDeleted, seenEdits, faulty>>

\* Any other error; the failed request may have taken effect.
CreateFails ==
  /\ pc = "create" /\ ~OverLimit
  /\ \E W \in ConfirmedBefore(ToAdd(res, snap)) :
       \E B \in FailingBatch(ToAdd(res, snap), W) :
         \E X \in {{}, B} :
           /\ W \union X # {} => Accepts(WriteRevision)
           /\ SetCloud(cloud \union NewRules(W \union X))
           /\ added' = added + Cardinality(W)
           /\ trueAdded' = trueAdded + Cardinality(W \union X)
  /\ births' = births + 1
  /\ \E class \in Classes : FailAttempt(class)
  /\ faulty' = TRUE
  /\ UNCHANGED <<edits, res, snap, deleted, deferred, trueDeleted, seenEdits>>

\* A version mismatch, always retryable; or the local limit, never retryable,
\* unless the query of the rule count failed in its place.
CreateRefused ==
  /\ pc = "create"
  /\ \/ ~Accepts(WriteRevision) /\ FailAttempt("retryable")
     \/ OverLimit /\ \E class \in Classes : FailAttempt(class)
  /\ faulty' = TRUE
  /\ UNCHANGED <<cloudVars, edits, res, snap, added, deleted, deferred,
                 trueAdded, trueDeleted, seenEdits>>

-----------------------------------------------------------------------------
\* Mutant of Progress: a failed cleanup is reported as done.
ProgressOptimistic(resolved) == deferred' = 0

\* What the deferred count falls back to until a trusted S2 replaces it.
Progress(resolved) == deferred' = Cardinality(Candidates(res, snap)) - resolved

DeleteOk ==
  /\ pc = "delete"
  /\ Accepts(WriteRevision)
  /\ \E D \in DeleteEffects(CleanupRequest(snap)) :
       /\ SetCloud(cloud \ D)
       /\ trueDeleted' = trueDeleted + Cardinality(D)
  /\ deleted' = deleted + Cardinality(CleanupRequest(snap))
  /\ Progress(Cardinality(CleanupRequest(snap)))
  /\ pc' = "s2"
  /\ UNCHANGED <<births, edits, attempt, res, snap, added, outcome,
                 trueAdded, seenEdits, faulty>>

\* Mutant of DeleteGone: "not found" is counted as a confirmed deletion.
DeleteGoneCounted ==
  /\ pc = "delete"
  /\ \/ CloudType # "tc_cvm" /\ DeleteEffects(CleanupRequest(snap)) = {}
     \/ CloudType = "tc_cvm" /\ ~Accepts(WriteRevision)
  /\ Progress(Cardinality(CleanupRequest(snap)))
  /\ deleted' = deleted + Cardinality(CleanupRequest(snap))
  /\ pc' = "s2"
  /\ UNCHANGED <<cloudVars, edits, attempt, res, snap, added, outcome, history>>

\* isIdempotentDelete, or ResourceNotFound of CVM, which counts as resolved.
DeleteGone ==
  /\ pc = "delete"
  /\ \/ /\ CloudType # "tc_cvm" /\ DeleteEffects(CleanupRequest(snap)) = {}
        /\ Progress(0)
     \/ /\ CloudType = "tc_cvm" /\ ~Accepts(WriteRevision)
        /\ Progress(Cardinality(CleanupRequest(snap)))
  /\ pc' = "s2"
  /\ UNCHANGED <<cloudVars, edits, attempt, res, snap, added, deleted, outcome, history>>

\* isVersionMismatch: the whole target is retried, never the bare request.
DeleteRefused ==
  /\ pc = "delete"
  /\ ~Accepts(WriteRevision)
  /\ Progress(0)
  /\ RetryCleanup
  /\ faulty' = TRUE
  /\ UNCHANGED <<cloudVars, edits, res, snap, added, deleted,
                 trueAdded, trueDeleted, seenEdits>>

\* Any other error; the failed request may have taken effect.  Confirmed
\* batches make it a PartialDeleteError, which goes on to S2.
DeleteFails ==
  /\ pc = "delete"
  /\ \E W \in ConfirmedBefore(CleanupRequest(snap)) :
       /\ \E B \in FailingBatch(CleanupRequest(snap), W) :
            \E X \in {{}, B} :
              /\ W \union X # {} => Accepts(WriteRevision)
              /\ \E D \in DeleteEffects(W \union X) :
                   /\ SetCloud(cloud \ D)
                   /\ trueDeleted' = trueDeleted + Cardinality(D)
       /\ deleted' = deleted + Cardinality(W)
       /\ Progress(Cardinality(W))
       /\ \/ W # {} /\ pc' = "s2" /\ UNCHANGED <<attempt, outcome>>
          \/ W = {} /\ RetryCleanup
          \/ W = {} /\ Conclude
  /\ faulty' = TRUE
  /\ UNCHANGED <<births, edits, res, snap, added, trueAdded, seenEdits>>

-----------------------------------------------------------------------------
Read   == ReadS0 \/ ReadS1 \/ ReadS2 \/ ReadFails
Create == CreateOk \/ CreateExists \/ CreateFails \/ CreateRefused
Delete == DeleteOk \/ DeleteGone \/ DeleteRefused \/ DeleteFails
Tool   == Resolve \/ Read \/ Create \/ Delete

\* syncTarget has returned.
Returned == pc = "done" /\ UNCHANGED vars

Next == Tool \/ Editor \/ Returned

Spec     == Init /\ [][Next]_vars
FairSpec == Spec /\ WF_vars(Tool)

-----------------------------------------------------------------------------
(***************************************************************************)
(* Properties.                                                             *)
(***************************************************************************)
\* The values the variables range over; attempt never exceeds maxRetries.
TypeOK ==
  /\ cloud \subseteq RuleType /\ IsFiniteSet(cloud)
  /\ version \in Nat /\ births \in Nat
  /\ edits \in 0..MaxEdits /\ seenEdits \in 0..MaxEdits
  /\ pc \in Steps /\ outcome \in Outcomes
  /\ attempt \in 1..MaxRetries
  /\ res \in [Hosts -> [err : Classes \union {"none"}, ips : SUBSET Addresses]]
  /\ snap \in [rules : SUBSET RuleType, revision : Nat \union {NoRevision}]
  /\ IsFiniteSet(snap.rules)
  /\ {added, deleted, deferred, trueAdded, trueDeleted} \subseteq Nat
  /\ faulty \in BOOLEAN

\* A step of the tool never removes a rule that, when it is removed, does not
\* carry the TAG: IsOwned and the "never touch another TAG" of
\* runTargetCleanup, across the window between S1 and the delete.
ForeignUntouched ==
  [][edits' = edits => \A r \in cloud \ cloud' : r.tag = Tag]_vars

\* A step of the tool never takes away the last rule for a key that this
\* attempt wants: no delete opens an access gap, whatever others do meanwhile.
AccessPreserved ==
  [][edits' = edits =>
       \A k \in Desired(res) : Covers(cloud, k) => Covers(cloud', k)]_vars

\* Make before break: when a step of the tool removes a rule, every key the
\* attempt needs is there, unless others removed it after S1.
MakeBeforeBreak ==
  [][edits' = edits /\ ~(cloud \subseteq cloud') /\ seenEdits = edits =>
       DNSErrors(res) = {} /\ \A k \in Desired(res) : Covers(cloud', k)]_vars

\* Where the cloud has versions, a write of the tool takes effect only on the
\* very rules its snapshot shows (no unversioned or stale write).
NoStaleWrite ==
  [][edits' = edits /\ Versioned /\ cloud' # cloud => cloud = snap.rules]_vars

\* "success" and "partial" are true of the cloud: every implementable key is
\* covered, unless others changed it after the last snapshot.
ResultIsTrue ==
  outcome \in {"success", "partial"} /\ seenEdits = edits =>
    DNSErrors(res) = {} /\ \A k \in Needed(res) : Covers(cloud, k)

\* The reported residue never understates what is left in the cloud.
DeferredIsConservative ==
  outcome \in {"success", "partial"} /\ seenEdits = edits =>
    deferred >= Cardinality({r \in cloud :
      Owned(r) /\ r.keys # {} /\ r.keys \intersect Desired(res) = {}})

\* Confirmed counts never exceed what the call really did to the cloud, over
\* all attempts, lost answers and partial batches.
CountsConfirmed == added <= trueAdded /\ deleted <= trueDeleted

\* One undisturbed call is enough: with no failed call and no other editor, a
\* cloud without conflicts and unlocatable owned rules ends with no owned rule
\* left over that serves no desired key.
CalmSyncConverges ==
  outcome = "success" /\ ~faulty /\ edits = 0
    /\ ~Conflict([rules |-> cloud, revision |-> version])
    /\ (\A r \in cloud : Owned(r) => Locatable(r, [rules |-> cloud, revision |-> version])) =>
    deferred = 0 /\ \A r \in cloud : Owned(r) => r.keys \intersect Desired(res) # {}

\* Every behaviour of syncTarget is one of the safe reconciler (target.go,
\* "inviolable invariants"): its writes stay within its namespace and never
\* remove a rule for a key it wants.
Reconciler == INSTANCE SafeReconciler WITH rules <- cloud, wanted <- Desired(res), others <- edits
IsSafeReconciler == Reconciler!Spec

=============================================================================
