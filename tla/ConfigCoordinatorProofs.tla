----------------------- MODULE ConfigCoordinatorProofs -----------------------
(***************************************************************************)
(* ConfigCoordinator for any requests, values, bundles and bounds: the     *)
(* references stay closed, and what is in force is what is committed.      *)
(***************************************************************************)
EXTENDS ConfigCoordinator, TLAPS

-----------------------------------------------------------------------------
(***************************************************************************)
(* What a mutation makes of a good configuration.                          *)
(***************************************************************************)
Good(c) == c \in Config /\ Loadable(c) /\ c.targets \subseteq 1..c.targetSeq

Follows(c, d) ==
  /\ Good(d) /\ d.rev = c.rev
  /\ c.targetSeq <= d.targetSeq
  /\ \A t \in d.targets \ c.targets : t > c.targetSeq

\* The assumption on the constants, value by value.
LEMMA Bounds ==
  /\ MaxId \in Nat /\ MaxCrashes \in Nat /\ Default \in Values /\ Nobody \notin Requests
  /\ \A b \in Bundles : b.targets \in Nat /\ b.rules \in Seq(SUBSET (1..b.targets))
BY CoordinatorAssumption DEF CoordinatorAssumption

\* The fields of a configuration.
LEMMA Fields ==
  ASSUME NEW c \in Config
  PROVE  /\ c.targets \subseteq 1..MaxId /\ c.rules \subseteq Rule /\ c.rest \in Values
         /\ c.targetSeq \in 0..MaxId /\ c.ruleSeq \in 0..MaxId /\ c.rev \in Nat
         /\ c = [targets |-> c.targets, rules |-> c.rules, rest |-> c.rest,
                 targetSeq |-> c.targetSeq, ruleSeq |-> c.ruleSeq, rev |-> c.rev]
BY DEF Config

\* A configuration is made of its fields.
LEMMA Made ==
  ASSUME NEW T \in SUBSET (1..MaxId), NEW R \in SUBSET Rule, NEW v \in Values,
         NEW n \in 0..MaxId, NEW m \in 0..MaxId, NEW k \in Nat
  PROVE  [targets |-> T, rules |-> R, rest |-> v, targetSeq |-> n, ruleSeq |-> m, rev |-> k]
           \in Config
BY DEF Config

LEMMA AddTargetFollows ==
  ASSUME NEW c, Good(c), NEW d \in AddTarget(c)
  PROVE  Follows(c, d)
<1>1. PICK t \in {c.targetSeq + 1} \ {MaxId + 1} :
        d = [c EXCEPT !.targets = @ \union {t}, !.targetSeq = t]
  BY DEF AddTarget
<1>2. /\ c \in Config /\ Loadable(c) /\ c.targets \subseteq 1..c.targetSeq
      /\ c.targetSeq \in 0..MaxId /\ c.targets \subseteq 1..MaxId /\ MaxId \in Nat
  BY Fields, Bounds DEF Good
<1>3. t = c.targetSeq + 1 /\ t \in 1..MaxId
  BY <1>2
<1>4. d = [targets |-> c.targets \union {t}, rules |-> c.rules, rest |-> c.rest,
           targetSeq |-> t, ruleSeq |-> c.ruleSeq, rev |-> c.rev]
  BY <1>1, <1>2 DEF Config
<1>5. c.targets \union {t} \in SUBSET (1..MaxId) /\ t \in 0..MaxId
  BY <1>2, <1>3
<1>6. d \in Config
  BY <1>2, <1>4, <1>5, Fields, Made
<1>7. Loadable(d)
  BY <1>2, <1>4 DEF Loadable
<1> QED
  BY <1>2, <1>3, <1>4, <1>6, <1>7 DEF Follows, Good

LEMMA ChangeRestFollows ==
  ASSUME NEW c, Good(c), NEW d \in ChangeRest(c)
  PROVE  Follows(c, d)
<1>1. PICK v \in Values : d = [c EXCEPT !.rest = v]
  BY DEF ChangeRest
<1>2. c \in Config /\ Loadable(c) /\ c.targets \subseteq 1..c.targetSeq /\ c.targetSeq \in 0..MaxId
  BY Fields DEF Good
<1>3. d = [targets |-> c.targets, rules |-> c.rules, rest |-> v,
           targetSeq |-> c.targetSeq, ruleSeq |-> c.ruleSeq, rev |-> c.rev]
  BY <1>1, <1>2, Fields
<1>4. d \in Config
  BY <1>2, <1>3, Fields, Made
<1> QED
  BY <1>2, <1>3, <1>4, Bounds DEF Follows, Good, Loadable

\* A target goes only if no rule refers to it.
LEMMA DeleteTargetFollows ==
  ASSUME NEW c, Good(c), NEW d \in DeleteTarget(c)
  PROVE  Follows(c, d)
<1>1. PICK t \in c.targets : /\ ReferencingRuleIDs(c, t) = {}
                             /\ d = [c EXCEPT !.targets = @ \ {t}]
  BY DEF DeleteTarget
<1>2. c \in Config /\ Loadable(c) /\ c.targets \subseteq 1..c.targetSeq /\ c.targetSeq \in 0..MaxId
  BY Fields DEF Good
<1>3. d = [targets |-> c.targets \ {t}, rules |-> c.rules, rest |-> c.rest,
           targetSeq |-> c.targetSeq, ruleSeq |-> c.ruleSeq, rev |-> c.rev]
  <2>1. c = [targets |-> c.targets, rules |-> c.rules, rest |-> c.rest,
             targetSeq |-> c.targetSeq, ruleSeq |-> c.ruleSeq, rev |-> c.rev]
    BY <1>2, Fields
  <2> QED
    BY <1>1, <2>1, SMTT(30)
<1>4. d \in Config
  BY <1>2, <1>3, Fields, Made
<1>5. \A q \in c.rules : t \notin q.refs
  BY <1>1 DEF ReferencingRuleIDs
<1>6. Loadable(d)
  BY <1>2, <1>3, <1>5 DEF Loadable
<1> QED
  BY <1>2, <1>3, <1>4, <1>6, Bounds DEF Follows, Good

\* A change of the rules alone.
LEMMA RulesFollow ==
  ASSUME NEW c, Good(c), NEW R \in SUBSET Rule, NEW n \in 0..MaxId,
         \A q \in R : q.refs \subseteq c.targets,
         NEW d, d = [targets |-> c.targets, rules |-> R, rest |-> c.rest,
                     targetSeq |-> c.targetSeq, ruleSeq |-> n, rev |-> c.rev]
  PROVE  Follows(c, d)
<1>1. c \in Config /\ c.targets \subseteq 1..c.targetSeq /\ c.targetSeq \in 0..MaxId
  BY Fields DEF Good
<1>2. d \in Config
  BY <1>1, Fields, Made
<1>3. Loadable(d)
  BY DEF Loadable
<1> QED
  BY <1>1, <1>2, <1>3, Bounds DEF Follows, Good

LEMMA AddRuleFollows ==
  ASSUME NEW c, Good(c), NEW d \in AddRule(c)
  PROVE  Follows(c, d)
<1>1. PICK A \in {A \in SUBSET c.targets : c.ruleSeq < MaxId} :
        d = [c EXCEPT !.rules = @ \union {[id |-> c.ruleSeq + 1, refs |-> A]}, !.ruleSeq = @ + 1]
  BY Zenon DEF AddRule
<1>2. /\ c \in Config /\ Loadable(c) /\ MaxId \in Nat /\ c.ruleSeq \in 0..MaxId
      /\ c.targets \subseteq 1..MaxId /\ c.rules \subseteq Rule
  BY Fields, Bounds DEF Good
<1> DEFINE i == c.ruleSeq + 1
           R == c.rules \union {[id |-> i, refs |-> A]}
<1>3. i \in 1..MaxId
  BY <1>1, <1>2
<1>4. [id |-> i, refs |-> A] \in Rule
  BY <1>2, <1>3 DEF Rule
<1>5. R \in SUBSET Rule
  BY <1>2, <1>4
<1>6. \A q \in R : q.refs \subseteq c.targets
  BY <1>1, <1>2 DEF Loadable
<1>7. d = [targets |-> c.targets, rules |-> R, rest |-> c.rest,
           targetSeq |-> c.targetSeq, ruleSeq |-> i, rev |-> c.rev]
  BY <1>1, <1>2 DEF Config
<1> QED
  BY <1>3, <1>5, <1>6, <1>7, RulesFollow

LEMMA UpdateRuleFollows ==
  ASSUME NEW c, Good(c), NEW d \in UpdateRule(c)
  PROVE  Follows(c, d)
<1>1. PICK p \in c.rules, A \in SUBSET c.targets :
        d = [c EXCEPT !.rules = (@ \ {p}) \union {[p EXCEPT !.refs = A]}]
  BY DEF UpdateRule
<1>2. /\ c \in Config /\ Loadable(c) /\ c.ruleSeq \in 0..MaxId
      /\ c.targets \subseteq 1..MaxId /\ c.rules \subseteq Rule
  BY Fields DEF Good
<1> DEFINE R == (c.rules \ {p}) \union {[p EXCEPT !.refs = A]}
<1>3. [p EXCEPT !.refs = A] = [id |-> p.id, refs |-> A] /\ [id |-> p.id, refs |-> A] \in Rule
  BY <1>2 DEF Rule
<1>4. R \in SUBSET Rule
  BY <1>2, <1>3
<1>5. \A q \in R : q.refs \subseteq c.targets
  BY <1>2, <1>3 DEF Loadable
<1>6. d = [c EXCEPT !.rules = R]
  BY <1>1
<1> HIDE DEF R
<1>7. d = [targets |-> c.targets, rules |-> R, rest |-> c.rest,
           targetSeq |-> c.targetSeq, ruleSeq |-> c.ruleSeq, rev |-> c.rev]
  BY <1>2, <1>6 DEF Config
<1> QED
  BY <1>2, <1>4, <1>5, <1>7, RulesFollow

LEMMA DeleteRuleFollows ==
  ASSUME NEW c, Good(c), NEW d \in DeleteRule(c)
  PROVE  Follows(c, d)
<1>1. PICK p \in c.rules : d = [c EXCEPT !.rules = @ \ {p}]
  BY DEF DeleteRule
<1>2. c \in Config /\ Loadable(c) /\ c.ruleSeq \in 0..MaxId /\ c.rules \subseteq Rule
  BY Fields DEF Good
<1>3. d = [targets |-> c.targets, rules |-> c.rules \ {p}, rest |-> c.rest,
           targetSeq |-> c.targetSeq, ruleSeq |-> c.ruleSeq, rev |-> c.rev]
  BY <1>1, <1>2, Fields
<1>4. \A q \in c.rules \ {p} : q.refs \subseteq c.targets
  BY <1>2 DEF Loadable
<1> QED
  BY <1>2, <1>3, <1>4, RulesFollow

LEMMA ResetAllFollows ==
  ASSUME NEW c, Good(c), NEW d \in ResetAll(c)
  PROVE  Follows(c, d)
<1>1. d = [c EXCEPT !.targets = {}, !.rules = {}, !.rest = Default]
  BY DEF ResetAll
<1>2. c \in Config /\ c.targetSeq \in 0..MaxId
  BY Fields DEF Good
<1>3. d = [targets |-> {}, rules |-> {}, rest |-> Default,
           targetSeq |-> c.targetSeq, ruleSeq |-> c.ruleSeq, rev |-> c.rev]
  BY <1>1, <1>2 DEF Config
<1>4. d \in Config
  BY <1>2, <1>3, Fields, Made, Bounds
<1> QED
  BY <1>2, <1>3, <1>4, Bounds DEF Follows, Good, Loadable

\* An import keeps nothing of the targets and rules it finds, and its references
\* are its own.
LEMMA ImportFollows ==
  ASSUME NEW c, Good(c), NEW d \in Import(c)
  PROVE  Follows(c, d)
<1> DEFINE New(b) == {c.targetSeq + e : e \in 1..b.targets}
           Refs(b, i) == {c.targetSeq + e : e \in b.rules[i]}
           Rules(b) == {[id |-> c.ruleSeq + i, refs |-> Refs(b, i)] : i \in DOMAIN b.rules}
<1>0. PICK v \in Values, b \in Bundles :
        /\ c.targetSeq + b.targets <= MaxId /\ c.ruleSeq + Len(b.rules) <= MaxId
        /\ d = Imported(c, b, v)
  BY DEF Import
<1>1. /\ c.targetSeq + b.targets <= MaxId /\ c.ruleSeq + Len(b.rules) <= MaxId
      /\ d = [targets |-> New(b), rules |-> Rules(b), rest |-> v,
              targetSeq |-> c.targetSeq + b.targets, ruleSeq |-> c.ruleSeq + Len(b.rules),
              rev |-> c.rev]
  BY <1>0, Zenon DEF Imported
<1>2. /\ c \in Config /\ MaxId \in Nat /\ c.ruleSeq \in 0..MaxId /\ c.targetSeq \in 0..MaxId
      /\ c.targets \subseteq 1..c.targetSeq /\ c.rev \in Nat
      /\ b.targets \in Nat /\ b.rules \in Seq(SUBSET (1..b.targets))
  BY Fields, Bounds DEF Good
<1>3. /\ Len(b.rules) \in Nat /\ DOMAIN b.rules = 1..Len(b.rules)
      /\ \A i \in DOMAIN b.rules : b.rules[i] \subseteq 1..b.targets
  BY <1>2
<1>4. /\ New(b) \in SUBSET (1..MaxId) /\ New(b) \subseteq 1..(c.targetSeq + b.targets)
      /\ \A t \in New(b) : t > c.targetSeq
  <2>1. c.targetSeq \in Nat /\ b.targets \in Nat /\ MaxId \in Nat
    BY <1>2
  <2>2. \A t \in New(b) : t \in 1..(c.targetSeq + b.targets) /\ t > c.targetSeq
    BY <2>1
  <2>3. 1..(c.targetSeq + b.targets) \subseteq 1..MaxId
    BY <1>1, <2>1
  <2> QED
    BY <2>2, <2>3
<1>5. \A i \in DOMAIN b.rules : Refs(b, i) \subseteq New(b)
  BY <1>3
<1>6. Rules(b) \in SUBSET Rule
  <2> SUFFICES ASSUME NEW i \in DOMAIN b.rules
               PROVE  [id |-> c.ruleSeq + i, refs |-> Refs(b, i)] \in Rule
    OBVIOUS
  <2>1. c.ruleSeq + i \in 1..MaxId
    BY <1>1, <1>2, <1>3
  <2>2. Refs(b, i) \in SUBSET (1..MaxId)
    BY <1>4, <1>5
  <2> QED
    BY <2>1, <2>2 DEF Rule
<1>7. \A q \in Rules(b) : q.refs \subseteq New(b)
  BY <1>5
<1>8. c.targetSeq + b.targets \in 0..MaxId /\ c.ruleSeq + Len(b.rules) \in 0..MaxId
  BY <1>1, <1>2, <1>3
<1> HIDE DEF New, Rules
<1>9. d \in Config
  BY <1>1, <1>2, <1>4, <1>6, <1>8, Made
<1>10. Loadable(d)
  BY <1>1, <1>7 DEF Loadable
<1> QED
  BY <1>1, <1>2, <1>4, <1>8, <1>9, <1>10 DEF Follows, Good

\* Every mutation keeps a configuration good and its sequences growing.
LEMMA ChangesFollow ==
  ASSUME NEW c, Good(c), NEW d \in Changes(c)
  PROVE  Follows(c, d)
<1>1. UpdateTarget(c) \subseteq ChangeRest(c)
  BY DEF UpdateTarget
<1> QED
  BY <1>1, AddTargetFollows, ChangeRestFollows, DeleteTargetFollows, AddRuleFollows,
     UpdateRuleFollows, DeleteRuleFollows, ResetAllFollows, ImportFollows DEF Changes

-----------------------------------------------------------------------------
(***************************************************************************)
(* The inductive invariant.                                                *)
(***************************************************************************)
Busy == {"open", "mutated", "built", "committed"}

\* Only the holder of the mutex is at work, and nobody is in a dead process.
Holder ==
  /\ \A r \in Requests : pc[r] \in Busy => lock = r
  /\ ~up => lock = Nobody

\* Every configuration the database can show is good.
GoodData == Good(db) /\ Good(tx) /\ taken \subseteq 1..db.targetSeq

\* How far the holder has come: the mutation is one of db, and what will be
\* published is what will be committed.
Work ==
  \A r \in Requests :
    /\ pc[r] = "open" => tx = db
    /\ pc[r] \in {"mutated", "built"} => tx \in Changes(db)
    /\ pc[r] = "built" => candidate = [tx EXCEPT !.rev = @ + 1]

History ==
  \A r \in Requests :
    /\ wrote[r] <= db.rev
    /\ pc[r] \in {"new", "open", "mutated", "built", "error"} => wrote[r] = 0
    /\ pc[r] = "ok" => wrote[r] >= 1

\* How far the publication has come: the first effects have happened.
Publishing ==
  \A r \in Requests : pc[r] = "committed" =>
    /\ candidate = db /\ wrote[r] = db.rev /\ db.rev >= 1
    /\ level = IF effects >= 1 THEN db.rev ELSE db.rev - 1
    /\ alerts = IF effects >= 2 THEN db.rev ELSE db.rev - 1
    /\ effects >= 3 => state = db
    /\ effects < 3 => state.rev = db.rev - 1

Idle == \A r \in Requests : pc[r] # "committed"

Settled == up /\ Idle => level = db.rev /\ alerts = db.rev /\ state = db

Answered ==
  up => \A r \in Requests : pc[r] = "ok" => wrote[r] <= state.rev /\ wrote[r] <= alerts

\* A watcher knows the published state, is about to read it, or will be woken.
Informed(w) == wake[w] \/ watcher[w] = "reading" \/ seen[w] = state.rev

Told ==
  /\ up /\ Idle => Informed("health") /\ Informed("push")
  /\ \A r \in Requests : pc[r] = "committed" =>
       /\ effects >= 4 => Informed("health")
       /\ effects >= 5 => Informed("push")

IInv ==
  /\ TypeOK /\ Holder /\ GoodData /\ Work /\ History /\ Publishing /\ Settled
  /\ Answered /\ Told

-----------------------------------------------------------------------------
(***************************************************************************)
(* Facts used by several steps.                                            *)
(***************************************************************************)
LEMMA EffectsInOrder ==
  /\ Len(Effects) = 5
  /\ Effects[1] = "level" /\ Effects[2] = "alerts" /\ Effects[3] = "state"
  /\ Effects[4] = "health" /\ Effects[5] = "push"
BY DEF Effects

LEMMA WakesLast ==
  ASSUME NEW i \in 0..4, Effects[i + 1] \in {"health", "push"}
  PROVE  (Effects[i + 1] = "health" /\ i = 3) \/ (Effects[i + 1] = "push" /\ i = 4)
<1>1. i # 0 /\ i # 1 /\ i # 2
  BY DEF Effects
<1>2. i = 3 => Effects[i + 1] = "health"
  BY DEF Effects
<1>3. i = 4 => Effects[i + 1] = "push"
  BY DEF Effects
<1> QED
  BY <1>1, <1>2, <1>3

\* The next revision of a good configuration.
LEMMA NextRevision ==
  ASSUME NEW c, Good(c), NEW d, d = [c EXCEPT !.rev = @ + 1]
  PROVE  Good(d) /\ d.rev = c.rev + 1 /\ d.targets = c.targets /\ d.targetSeq = c.targetSeq
<1>1. c \in Config /\ c.rev \in Nat
  BY Fields DEF Good
<1>2. d = [targets |-> c.targets, rules |-> c.rules, rest |-> c.rest,
           targetSeq |-> c.targetSeq, ruleSeq |-> c.ruleSeq, rev |-> c.rev + 1]
  BY <1>1 DEF Config
<1>3. d \in Config
  BY <1>1, <1>2, Fields, Made
<1> QED
  BY <1>1, <1>2, <1>3 DEF Good, Loadable

\* Whoever has the mutex has it alone.
LEMMA Alone ==
  ASSUME TypeOK, Holder, NEW r \in Requests, pc[r] \in Busy
  PROVE  up /\ lock = r /\ \A q \in Requests : q # r => pc[q] \notin Busy
BY Bounds DEF Holder

\* Nobody is at work while the mutex is free.
LEMMA Free ==
  ASSUME Holder, lock = Nobody
  PROVE  Idle
BY Bounds DEF Holder, Idle, Busy

-----------------------------------------------------------------------------
(***************************************************************************)
(* The initial states.                                                     *)
(***************************************************************************)
LEMMA InitGood ==
  ASSUME Init
  PROVE  Good(db) /\ db.rev = 0 /\ db.targets \subseteq 1..db.targetSeq
<1>1. PICK T \in 0..MaxId, n \in 0..MaxId, v \in Values :
        \E refs \in [1..n -> SUBSET (1..T)] :
          db = [targets |-> 1..T, rules |-> {[id |-> i, refs |-> refs[i]] : i \in 1..n},
                rest |-> v, targetSeq |-> T, ruleSeq |-> n, rev |-> 0]
  BY DEF Init
<1>2. PICK refs \in [1..n -> SUBSET (1..T)] :
        db = [targets |-> 1..T, rules |-> {[id |-> i, refs |-> refs[i]] : i \in 1..n},
              rest |-> v, targetSeq |-> T, ruleSeq |-> n, rev |-> 0]
  BY <1>1
<1> DEFINE R == {[id |-> i, refs |-> refs[i]] : i \in 1..n}
<1>3. 1..T \in SUBSET (1..MaxId) /\ n \in Nat /\ MaxId \in Nat /\ n <= MaxId
  BY Bounds
<1>4. \A i \in 1..n : refs[i] \in SUBSET (1..MaxId) /\ i \in 1..MaxId /\ refs[i] \subseteq 1..T
  BY <1>3
<1>5. R \in SUBSET Rule
  BY <1>4 DEF Rule
<1>6. \A q \in R : q.refs \subseteq 1..T
  BY <1>4
<1>7. db = [targets |-> 1..T, rules |-> R, rest |-> v, targetSeq |-> T, ruleSeq |-> n, rev |-> 0]
  BY <1>2
<1> HIDE DEF R
<1>8. db \in Config
  BY <1>3, <1>5, <1>7, Made
<1> QED
  BY <1>6, <1>7, <1>8 DEF Good, Loadable

LEMMA InitInv == Init => IInv
<1> SUFFICES ASSUME Init
             PROVE  IInv
  OBVIOUS
<1>1. Good(db) /\ db.rev = 0 /\ db.targets \subseteq 1..db.targetSeq
  BY InitGood
<1>2. TypeOK
  <2>1. {db, tx, candidate, state} \subseteq Config
    BY <1>1 DEF Init, Good
  <2>2. db.targets \subseteq 1..MaxId
    BY <1>1, Fields DEF Good
  <2> QED
    BY <2>1, <2>2, Bounds, EffectsInOrder DEF Init, TypeOK, Stages
<1>3. Holder
  BY DEF Init, Holder, Busy
<1>4. GoodData
  BY <1>1 DEF Init, GoodData
<1>5. Work /\ History /\ Publishing /\ Settled /\ Answered
  BY <1>1 DEF Init, Work, History, Publishing, Settled, Answered, Idle
<1>6. Told
  BY DEF Init, Told, Informed, Watchers
<1> QED
  BY <1>2, <1>3, <1>4, <1>5, <1>6 DEF IInv

-----------------------------------------------------------------------------
(***************************************************************************)
(* Every step keeps the invariant.                                         *)
(***************************************************************************)
\* The transaction starts from the committed configuration, or not at all.
LEMMA BeginKeeps ==
  ASSUME IInv, NEW r \in Requests, Begin(r)
  PROVE  IInv'
<1> USE DEF IInv
<1>1. Idle /\ Idle' /\ \A q \in Requests : pc[q] \notin Busy /\ q # Nobody
  <2>1. \A q \in Requests : pc[q] \notin Busy /\ q # Nobody
    BY Bounds DEF Begin, Holder
  <2>2. \A q \in Requests : pc'[q] # "committed"
    BY <2>1 DEF Begin, TypeOK, Busy
  <2> QED
    BY <2>1, <2>2 DEF Idle, Busy
<1>2. \/ /\ lock' = r /\ tx' = db
         /\ \A q \in Requests : pc'[q] = IF q = r THEN "open" ELSE pc[q]
      \/ /\ lock' = lock /\ tx' = tx
         /\ \A q \in Requests : pc'[q] = IF q = r THEN "error" ELSE pc[q]
  BY DEF Begin, TypeOK
<1>3. /\ up /\ lock = Nobody /\ pc[r] = "new"
      /\ UNCHANGED <<db, candidate, effects, up, published, watch, crashes, wrote, taken>>
  BY DEF Begin
<1>4. TypeOK'
  <2>1. pc' \in [Requests -> Stages]
    BY DEF Begin, TypeOK, Stages
  <2>2. lock' \in Requests \union {Nobody}
    BY <1>2, <1>3
  <2>3. lock' # Nobody => pc'[lock'] \in {"open", "mutated", "built", "committed"}
    BY <1>2, <1>3
  <2>4. {db, tx, candidate, state}' \subseteq Config
    BY <1>2, <1>3 DEF TypeOK, published
  <2> QED
    BY <1>3, <2>1, <2>2, <2>3, <2>4 DEF TypeOK, published, watch
<1>5. Holder'
  BY <1>1, <1>2, <1>3 DEF Holder, Busy
<1>6. GoodData'
  BY <1>2, <1>3 DEF GoodData
<1>7. Work'
  BY <1>1, <1>2, <1>3 DEF Work, Busy
<1>8. History'
  BY <1>2, <1>3 DEF History
<1>9. Publishing'
  BY <1>1 DEF Publishing, Idle
<1>10. Settled'
  BY <1>1, <1>3 DEF Settled, published
<1>11. Answered'
  BY <1>2, <1>3 DEF Answered, published
<1>12. Told'
  BY <1>1, <1>3 DEF Told, Informed, published, watch
<1> QED
  BY <1>4, <1>5, <1>6, <1>7, <1>8, <1>9, <1>10, <1>11, <1>12

\* The transaction holds a mutation of the committed configuration.
LEMMA MutateKeeps ==
  ASSUME IInv, NEW r \in Requests, Mutate(r)
  PROVE  IInv'
<1> USE DEF IInv
<1>1. up /\ lock = r /\ \A q \in Requests : q # r => pc[q] \notin Busy
  BY Alone DEF Mutate, Busy
<1>2. Good(tx') /\ tx' \in Config
  BY ChangesFollow DEF Mutate, GoodData, Follows, Good
<1>3. \A q \in Requests : pc'[q] = IF q = r THEN "mutated" ELSE pc[q]
  BY DEF Mutate, TypeOK
<1>4. TypeOK'
  BY <1>2 DEF Mutate, published, watch, TypeOK, Stages
<1>5. Holder'
  BY DEF Mutate, Busy, Holder
<1>6. GoodData'
  BY <1>2 DEF Mutate, GoodData
<1>7. Work'
  BY <1>1, <1>3 DEF Mutate, Busy, Work
<1>8. History'
  BY DEF Mutate, History
<1>9. Publishing'
  BY DEF Mutate, published, Publishing
<1>10. Settled'
  BY DEF Mutate, published, Settled, Idle
<1>11. Answered'
  BY DEF Mutate, published, Answered
<1>12. Told'
  BY DEF Mutate, published, watch, Told, Idle, Informed
<1> QED
  BY <1>4, <1>5, <1>6, <1>7, <1>8, <1>9, <1>10, <1>11, <1>12

\* The candidate is the next revision of the transaction.
LEMMA BuildKeeps ==
  ASSUME IInv, NEW r \in Requests, Build(r)
  PROVE  IInv'
<1> USE DEF IInv
<1>1. up /\ lock = r /\ \A q \in Requests : q # r => pc[q] \notin Busy
  BY Alone DEF Build, Busy
<1>2. candidate' \in Config
  BY NextRevision DEF Build, Reload, GoodData, Good
<1>3. TypeOK'
  BY <1>2 DEF Build, published, watch, TypeOK, Stages
<1>4. Holder'
  BY DEF Build, Busy, Holder
<1>5. GoodData'
  BY DEF Build, GoodData
<1>6. Work'
  BY DEF Build, Reload, Work
<1>7. History'
  BY DEF Build, History
<1>8. Publishing'
  BY <1>1 DEF Build, Busy, Publishing
<1>9. Settled'
  BY DEF Build, published, Settled, Idle
<1>10. Answered'
  BY DEF Build, published, Answered
<1>11. Told'
  BY DEF Build, published, watch, Told, Idle, Informed
<1> QED
  BY <1>3, <1>4, <1>5, <1>6, <1>7, <1>8, <1>9, <1>10, <1>11

\* The candidate is committed; the publication is still to come.
LEMMA CommitKeeps ==
  ASSUME IInv, NEW r \in Requests, Commit(r)
  PROVE  IInv'
<1> USE DEF IInv
<1>1. up /\ lock = r /\ \A q \in Requests : q # r => pc[q] \notin Busy
  BY Alone DEF Commit, Busy
<1>2. Follows(db, tx)
  BY ChangesFollow DEF Commit, Work, GoodData
<1>3. /\ Good(db') /\ db' \in Config /\ db'.rev = db.rev + 1
      /\ db'.targets = tx.targets /\ db'.targetSeq = tx.targetSeq
  BY <1>2, NextRevision DEF Commit, Follows, Good
<1>4. /\ candidate = db' /\ db.rev \in Nat /\ db.targetSeq \in Nat /\ tx.targetSeq \in Nat
      /\ tx.targets \subseteq 1..MaxId /\ tx.targets \subseteq 1..tx.targetSeq
  BY Fields DEF Commit, Work, GoodData, Good
<1>5. \A q \in Requests : pc'[q] = IF q = r THEN "committed" ELSE pc[q]
  BY DEF Commit, TypeOK
<1>6. \A q \in Requests : wrote'[q] = IF q = r THEN db'.rev ELSE wrote[q]
  BY DEF Commit, TypeOK
<1>7. /\ level = db.rev /\ alerts = db.rev /\ state = db /\ effects' = 0 /\ ~Idle'
      /\ UNCHANGED <<tx, candidate, up, level, alerts, state, wake, watcher, seen>>
  BY <1>1, <1>5 DEF Commit, Settled, Idle, Busy, published, watch
<1>8. TypeOK'
  <2>1. {db, tx, candidate, state}' \subseteq Config /\ taken' \subseteq 1..MaxId
    BY <1>4 DEF Commit, TypeOK, published
  <2>2. wrote' \in [Requests -> Nat]
    BY <1>3, <1>4 DEF Commit, TypeOK
  <2>3. pc' \in [Requests -> Stages]
    BY DEF Commit, TypeOK, Stages
  <2> QED
    BY <1>7, <2>1, <2>2 DEF Commit, TypeOK, Stages, KeepsLock
<1>9. Holder'
  BY DEF Commit, Busy, KeepsLock, Holder
<1>10. GoodData'
  BY <1>2, <1>3, <1>4 DEF Commit, Follows, GoodData
<1>11. Work'
  BY <1>1, <1>5 DEF Work, Busy
<1>12. History'
  <2>1. \A q \in Requests : wrote[q] \in Nat
    BY DEF TypeOK
  <2> QED
    BY <1>3, <1>4, <1>5, <1>6, <2>1 DEF History
<1>13. Publishing'
  BY <1>3, <1>4, <1>5, <1>6, <1>7 DEF Publishing
<1>14. Settled'
  BY <1>7 DEF Settled
<1>15. Answered'
  BY DEF Commit, published, Answered
<1>16. Told'
  BY DEF Commit, published, watch, Told, Idle, Informed
<1> QED
  BY <1>8, <1>9, <1>10, <1>11, <1>12, <1>13, <1>14, <1>15, <1>16

\* Nothing is left of a failed request.
LEMMA FailKeeps ==
  ASSUME IInv, NEW r \in Requests, Fail(r)
  PROVE  IInv'
<1> USE DEF IInv
<1>1. up /\ lock = r /\ \A q \in Requests : q # r => pc[q] \notin Busy
  BY Alone DEF Fail, MayFail, Busy
<1>2. \A q \in Requests : pc'[q] = IF q = r THEN "error" ELSE pc[q]
  BY DEF Fail, TypeOK
<1>3. TypeOK'
  BY DEF Fail, published, watch, Unlocked, TypeOK, Stages
<1>4. Holder'
  BY <1>1, <1>2 DEF Fail, Holder, Busy
<1>5. GoodData'
  BY DEF Fail, GoodData
<1>6. Work'
  BY <1>1, <1>2 DEF Work, Busy
<1>7. History'
  BY DEF Fail, MayFail, History
<1>8. Publishing'
  BY DEF Fail, published, Publishing
<1>9. Settled'
  BY DEF Fail, published, MayFail, Settled, Idle
<1>10. Answered'
  BY DEF Fail, published, Answered
<1>11. Told'
  BY DEF Fail, published, watch, MayFail, Told, Idle, Informed
<1> QED
  BY <1>3, <1>4, <1>5, <1>6, <1>7, <1>8, <1>9, <1>10, <1>11

\* The first effect: the log level.
LEMMA SetLevelKeeps ==
  ASSUME IInv, NEW r \in Requests, SetLevel(r)
  PROVE  IInv'
<1> USE DEF IInv
<1>1. effects = 0
  BY EffectsInOrder DEF SetLevel, Effect, TypeOK
<1>2. TypeOK'
  BY EffectsInOrder, Fields DEF SetLevel, Effect, TypeOK
<1>3. Holder'
  BY DEF SetLevel, Effect, Holder
<1>4. GoodData'
  BY DEF SetLevel, Effect, GoodData
<1>5. Work'
  BY DEF SetLevel, Effect, Work
<1>6. History'
  BY DEF SetLevel, Effect, History
<1>7. Publishing'
  BY <1>1 DEF SetLevel, Effect, Publishing
<1>8. Settled'
  BY DEF SetLevel, Effect, Settled, Idle
<1>9. Answered'
  BY DEF SetLevel, Effect, Answered
<1>10. Told'
  BY <1>1 DEF SetLevel, Effect, Told, Idle
<1> QED
  BY <1>2, <1>3, <1>4, <1>5, <1>6, <1>7, <1>8, <1>9, <1>10

\* The second effect: the alerts.
LEMMA ApplyAlertsKeeps ==
  ASSUME IInv, NEW r \in Requests, ApplyAlerts(r)
  PROVE  IInv'
<1> USE DEF IInv
<1>1. effects = 1
  BY EffectsInOrder DEF ApplyAlerts, Effect, TypeOK
<1>2. TypeOK'
  BY EffectsInOrder, Fields DEF ApplyAlerts, Effect, TypeOK
<1>3. Holder'
  BY DEF ApplyAlerts, Effect, Holder
<1>4. GoodData'
  BY DEF ApplyAlerts, Effect, GoodData
<1>5. Work'
  BY DEF ApplyAlerts, Effect, Work
<1>6. History'
  BY DEF ApplyAlerts, Effect, History
<1>7. Publishing'
  BY <1>1 DEF ApplyAlerts, Effect, Publishing
<1>8. Settled'
  BY DEF ApplyAlerts, Effect, Settled, Idle
<1>9. Answered'
  BY DEF ApplyAlerts, Effect, Answered, History, Publishing
<1>10. Told'
  BY <1>1 DEF ApplyAlerts, Effect, Told, Idle
<1> QED
  BY <1>2, <1>3, <1>4, <1>5, <1>6, <1>7, <1>8, <1>9, <1>10

\* The third effect: the state.
LEMMA ApplyStateKeeps ==
  ASSUME IInv, NEW r \in Requests, ApplyState(r)
  PROVE  IInv'
<1> USE DEF IInv
<1>1. effects = 2
  BY EffectsInOrder DEF ApplyState, Effect, TypeOK
<1>2. TypeOK'
  BY EffectsInOrder DEF ApplyState, Effect, TypeOK
<1>3. Holder'
  BY DEF ApplyState, Effect, Holder
<1>4. GoodData'
  BY DEF ApplyState, Effect, GoodData
<1>5. Work'
  BY DEF ApplyState, Effect, Work
<1>6. History'
  BY DEF ApplyState, Effect, History
<1>7. Publishing'
  BY <1>1 DEF ApplyState, Effect, Publishing
<1>8. Settled'
  BY DEF ApplyState, Effect, Settled, Idle
<1>9. Answered'
  BY DEF ApplyState, Effect, Answered, History, Publishing
<1>10. Told'
  BY <1>1 DEF ApplyState, Effect, Told, Idle
<1> QED
  BY <1>2, <1>3, <1>4, <1>5, <1>6, <1>7, <1>8, <1>9, <1>10

\* The last two effects: the wake-ups.
LEMMA WakeKeeps ==
  ASSUME IInv, NEW r \in Requests, NEW w \in Watchers, Wake(r, w)
  PROVE  IInv'
<1> USE DEF IInv
<1>1. /\ effects \in 0..4 /\ effects' = effects + 1
      /\ Effects[effects + 1] = w /\ w \in {"health", "push"}
  BY EffectsInOrder DEF Wake, Effect, TypeOK, Watchers
<1>2. (w = "health" /\ effects = 3) \/ (w = "push" /\ effects = 4)
  BY <1>1, WakesLast
<1>3. TypeOK'
  BY DEF Wake, Effect, published, TypeOK
<1>4. Holder'
  BY DEF Wake, Effect, Holder
<1>5. GoodData'
  BY DEF Wake, Effect, GoodData
<1>6. Work'
  BY DEF Wake, Effect, Work
<1>7. History'
  BY DEF Wake, Effect, History
<1>8. Publishing'
  BY <1>2 DEF Wake, Effect, published, Publishing
<1>9. Settled'
  BY DEF Wake, Effect, Settled, Idle
<1>10. Answered'
  BY DEF Wake, Effect, published, Answered
<1>11. Told'
  <2>1. wake'[w] /\ \A v \in Watchers : wake[v] => wake'[v]
    BY DEF Wake, TypeOK
  <2>2. \A v \in Watchers : Informed(v) => Informed(v)'
    BY DEF Wake, Effect, Informed, published
  <2>3. Informed(w)'
    BY <2>1 DEF Informed
  <2>4. ~Idle' /\ pc' = pc
    BY DEF Wake, Effect, Idle
  <2> QED
    BY <1>1, <1>2, <2>2, <2>3, <2>4 DEF Told, Watchers
<1> QED
  BY <1>3, <1>4, <1>5, <1>6, <1>7, <1>8, <1>9, <1>10, <1>11

\* All effects have happened.
LEMMA ReturnKeeps ==
  ASSUME IInv, NEW r \in Requests, Return(r)
  PROVE  IInv'
<1> USE DEF IInv
<1>1. up /\ lock = r /\ \A q \in Requests : q # r => pc[q] \notin Busy
  BY Alone DEF Return, Busy
<1>2. effects = 5
  BY EffectsInOrder DEF Return
<1>3. db.rev \in Nat
  BY Fields DEF GoodData, Good
<1>4. \A q \in Requests : pc'[q] = IF q = r THEN "ok" ELSE pc[q]
  BY DEF Return, TypeOK
<1>5. lock' = Nobody /\ pc[r] = "committed"
  BY DEF Return, Unlocked
<1>6. Idle' /\ UNCHANGED <<db, tx, candidate, up, level, alerts, state, wake, watcher, seen, wrote>>
  BY <1>1, <1>4 DEF Return, Idle, Busy, published, watch
<1>7. TypeOK'
  BY DEF Return, Unlocked, published, watch, TypeOK, Stages
<1>8. Holder'
  BY <1>4, <1>5 DEF Holder, Busy
<1>9. GoodData'
  BY DEF Return, GoodData
<1>10. Work'
  BY <1>4, <1>6 DEF Work
<1>11. History'
  BY <1>4, <1>5, <1>6 DEF History, Publishing
<1>12. Publishing'
  BY <1>6 DEF Publishing, Idle
<1>13. Settled'
  BY <1>2, <1>5, <1>6 DEF Settled, Publishing
<1>14. Answered'
  BY <1>2, <1>3, <1>4, <1>5, <1>6 DEF Answered, Publishing
<1>15. Told'
  BY <1>2, <1>6 DEF Told, Informed, Idle
<1> QED
  BY <1>7, <1>8, <1>9, <1>10, <1>11, <1>12, <1>13, <1>14, <1>15

\* A watcher that is woken will read.
LEMMA WokenKeeps ==
  ASSUME IInv, NEW w \in Watchers, Woken(w)
  PROVE  IInv'
<1> USE DEF IInv
<1>1. TypeOK'
  BY DEF Woken, request, published, TypeOK
<1>2. Holder'
  BY DEF Woken, request, Holder
<1>3. GoodData'
  BY DEF Woken, request, GoodData
<1>4. Work'
  BY DEF Woken, request, Work
<1>5. History'
  BY DEF Woken, request, History
<1>6. Publishing'
  BY DEF Woken, request, published, Publishing
<1>7. Settled'
  BY DEF Woken, request, published, Settled, Idle
<1>8. Answered'
  BY DEF Woken, request, published, Answered
<1>9. Told'
  <2>1. \A v \in Watchers \ {w} : wake[v] => wake'[v]
    BY DEF Woken, TypeOK
  <2>2. \A v \in Watchers : watcher'[v] = IF v = w THEN "reading" ELSE watcher[v]
    BY DEF Woken, TypeOK
  <2>3. \A v \in Watchers : Informed(v) => Informed(v)'
    BY <2>1, <2>2 DEF Woken, Informed, published
  <2> QED
    BY <2>3 DEF Woken, request, Told, Idle, Watchers
<1> QED
  BY <1>1, <1>2, <1>3, <1>4, <1>5, <1>6, <1>7, <1>8, <1>9

\* A watcher that has read knows the published state.
LEMMA ReadKeeps ==
  ASSUME IInv, NEW w \in Watchers, Read(w)
  PROVE  IInv'
<1> USE DEF IInv
<1>1. state.rev \in Nat
  BY Fields DEF TypeOK
<1>2. TypeOK'
  BY <1>1 DEF Read, request, published, TypeOK
<1>3. Holder'
  BY DEF Read, request, Holder
<1>4. GoodData'
  BY DEF Read, request, GoodData
<1>5. Work'
  BY DEF Read, request, Work
<1>6. History'
  BY DEF Read, request, History
<1>7. Publishing'
  BY DEF Read, request, published, Publishing
<1>8. Settled'
  BY DEF Read, request, published, Settled, Idle
<1>9. Answered'
  BY DEF Read, request, published, Answered
<1>10. Told'
  <2>1. \A v \in Watchers : /\ v # w => watcher'[v] = watcher[v] /\ seen'[v] = seen[v]
                            /\ v = w => seen'[v] = state.rev
    BY DEF Read, TypeOK
  <2>2. \A v \in Watchers : Informed(v) => Informed(v)'
    BY <2>1 DEF Read, Informed, published
  <2> QED
    BY <2>2 DEF Read, request, Told, Idle, Watchers
<1> QED
  BY <1>2, <1>3, <1>4, <1>5, <1>6, <1>7, <1>8, <1>9, <1>10

\* The transaction and the holder are gone, the database stays.
LEMMA CrashKeeps ==
  ASSUME IInv, Crash
  PROVE  IInv'
<1> USE DEF IInv
<1>1. TypeOK'
  <2>1. pc' \in [Requests -> Stages]
    BY DEF Crash, TypeOK, Stages
  <2>2. {db, tx, candidate, state}' \subseteq Config
    BY DEF Crash, TypeOK, published
  <2>3. crashes' \in 0..MaxCrashes
    BY Bounds DEF Crash, TypeOK
  <2>4. /\ lock' = Nobody /\ effects' = 0 /\ up' = FALSE
        /\ UNCHANGED <<level, alerts, wake, watcher, seen, wrote, taken>>
    BY DEF Crash, published, watch
  <2>5. lock' \in Requests \union {Nobody} /\ effects' \in 0..Len(Effects)
    BY <2>4
  <2>6. wake' \in [Watchers -> BOOLEAN] /\ up' \in BOOLEAN
    BY <2>4 DEF TypeOK
  <2> QED
    BY <2>1, <2>2, <2>3, <2>4, <2>6 DEF TypeOK
<1>2. Holder'
  BY DEF Crash, Busy, Holder
<1>3. GoodData'
  BY DEF Crash, GoodData
<1>4. Work'
  BY DEF Crash, Work
<1>5. History'
  BY DEF Crash, History
<1>6. Publishing'
  BY DEF Crash, Publishing
<1>7. Settled'
  BY DEF Crash, Settled
<1>8. Answered'
  BY DEF Crash, Answered
<1>9. Told'
  BY DEF Crash, Told
<1> QED
  BY <1>1, <1>2, <1>3, <1>4, <1>5, <1>6, <1>7, <1>8, <1>9

\* Everything starts from the committed configuration.
LEMMA RestartKeeps ==
  ASSUME IInv, Restart
  PROVE  IInv'
<1> USE DEF IInv
<1>1. db \in Config /\ db.rev \in Nat
  BY Fields DEF GoodData, Good
<1>2. lock = Nobody /\ Idle
  BY Free DEF Restart, Holder
<1>3. TypeOK'
  BY <1>1 DEF Restart, request, TypeOK
<1>4. Holder'
  BY DEF Restart, request, Holder
<1>5. GoodData'
  BY DEF Restart, request, GoodData
<1>6. Work'
  BY DEF Restart, request, Work
<1>7. History'
  BY DEF Restart, request, History
<1>8. Publishing'
  BY <1>2 DEF Restart, request, Publishing, Idle
<1>9. Settled'
  BY DEF Restart, Settled
<1>10. Answered'
  BY DEF Restart, Answered, History
<1>11. Told'
  BY DEF Restart, Watchers, Told, Informed
<1> QED
  BY <1>3, <1>4, <1>5, <1>6, <1>7, <1>8, <1>9, <1>10, <1>11





-----------------------------------------------------------------------------
(***************************************************************************)
(* The theorems.                                                           *)
(***************************************************************************)
LEMMA StepInv == IInv /\ [Next]_vars => IInv'
<1> SUFFICES ASSUME IInv, [Next]_vars
             PROVE  IInv'
  OBVIOUS
<1>1. ASSUME NEW r \in Requests, RequestStep(r)
      PROVE  IInv'
  BY <1>1, BeginKeeps, MutateKeeps, BuildKeeps, CommitKeeps, FailKeeps, SetLevelKeeps,
     ApplyAlertsKeeps, ApplyStateKeeps, WakeKeeps, ReturnKeeps DEF RequestStep
<1>2. ASSUME NEW w \in Watchers, Woken(w) \/ Read(w)
      PROVE  IInv'
  BY <1>2, WokenKeeps, ReadKeeps
<1>3. ASSUME UNCHANGED vars
      PROVE  IInv'
  BY <1>3 DEF vars, request, published, watch, IInv, TypeOK, Holder, GoodData, Good, Loadable,
     Work, History, Publishing, Settled, Idle, Answered, Told, Informed
<1> QED
  BY <1>1, <1>2, <1>3, CrashKeeps, RestartKeeps DEF Next

\* The inductive invariant holds in every state: one request at a time works on
\* a good configuration, and the publication lags by the effects still to come.
THEOREM Inductive == Spec => []IInv
BY InitInv, StepInv, PTL DEF Spec

\* Every variable stays in its range, and the holder of the mutex is at work.
THEOREM TypeCorrect == Spec => []TypeOK
<1>1. IInv => TypeOK
  BY DEF IInv
<1> QED
  BY <1>1, Inductive, PTL

\* No order of changes, failures and crashes leaves a dangling reference.
THEOREM ReferencesClosed == Spec => []RefsClosed
<1>1. IInv => RefsClosed
  BY DEF IInv, GoodData, Good, RefsClosed
<1> QED
  BY <1>1, Inductive, PTL

\* With the mutex free, what is in force is what is committed.
THEOREM NothingHalfPublished == Spec => []PublishedIsCommitted
<1>1. IInv => PublishedIsCommitted
  BY Free DEF IInv, Settled, PublishedIsCommitted
<1> QED
  BY <1>1, Inductive, PTL

\* An "ok" is durable and in force, an error is neither.
THEOREM TrueAnswers == Spec => []AnswersAreTrue
<1>1. IInv => AnswersAreTrue
  <2> SUFFICES ASSUME IInv, NEW r \in Requests
               PROVE  /\ pc[r] = "ok" => /\ wrote[r] \in 1..db.rev
                                         /\ up => wrote[r] <= state.rev /\ wrote[r] <= alerts
                      /\ pc[r] = "error" => wrote[r] = 0
    BY DEF AnswersAreTrue
  <2>1. wrote[r] \in Nat /\ db.rev \in Nat
    BY Fields DEF IInv, TypeOK
  <2> QED
    BY <2>1 DEF IInv, History, Answered
<1> QED
  BY <1>1, Inductive, PTL

\* Whoever takes the new state works under its log level and alerts.
THEOREM EffectsBeforeState == Spec => []EffectsLead
<1>1. IInv => EffectsLead
  <2> SUFFICES ASSUME IInv, up
               PROVE  state.rev <= alerts /\ alerts <= level
    BY DEF EffectsLead
  <2>1. db.rev \in Nat /\ effects \in 0..5
    BY Fields, EffectsInOrder DEF IInv, TypeOK
  <2>2. CASE Idle
    BY <2>1, <2>2 DEF IInv, Settled
  <2>3. CASE ~Idle
    <3>1. PICK r \in Requests : pc[r] = "committed"
      BY <2>3 DEF Idle
    <3> QED
      BY <2>1, <3>1 DEF IInv, Publishing
  <2> QED
    BY <2>2, <2>3
<1> QED
  BY <1>1, Inductive, PTL

\* No watcher rests on an old configuration.
THEOREM NobodyForgotten == Spec => []WatchersInformed
<1>1. IInv => WatchersInformed
  BY Free DEF IInv, Told, Informed, Watchers, WatchersInformed
<1> QED
  BY <1>1, Inductive, PTL

\* No target id is ever given twice.
THEOREM IdsOnce == Spec => IdsForLife
<1>1. IInv /\ [Next]_vars => [\A t \in db'.targets \ db.targets : t \notin taken]_vars
  <2> SUFFICES ASSUME IInv, Next, NEW t \in db'.targets \ db.targets, t \in taken
               PROVE  FALSE
    OBVIOUS
  <2>1. PICK r \in Requests : Commit(r)
    BY DEF Next, RequestStep, Begin, Mutate, Build, Fail, SetLevel, ApplyAlerts, ApplyState,
       Wake, Effect, Return, Woken, Read, Crash, Restart
  <2>2. Good(tx) /\ Follows(db, tx)
    BY <2>1, ChangesFollow DEF IInv, Commit, Work, GoodData
  <2>3. db'.targets = tx.targets
    BY <2>1, <2>2, NextRevision DEF Commit
  <2>4. t > db.targetSeq /\ t \in 1..db.targetSeq /\ db.targetSeq \in Nat
    BY <2>2, <2>3, Fields, Bounds DEF Follows, IInv, GoodData, Good
  <2> QED
    BY <2>4
<1> QED
  BY <1>1, Inductive, PTL DEF Spec, IdsForLife

\* The coordinator implements a register with one durable configuration and one
\* in force: the next change waits for the publication of the last.
THEOREM Implements == Spec => IsRegister
<1> DEFINE inForce == IF up THEN state ELSE db
<1>1. Init => Register!Init
  BY DEF Init, Register!Init
<1>2. IInv /\ [Next]_vars => [Register!Next]_<<db, inForce>>
  <2> SUFFICES ASSUME IInv, [Next]_vars
               PROVE  Register!Next \/ (db' = db /\ inForce' = inForce)
    OBVIOUS
  <2>1. ASSUME NEW r \in Requests, Commit(r)
        PROVE  Register!Change
    <3>1. up /\ Idle /\ Good(tx) /\ tx.rev = db.rev
      <4>1. up /\ Idle
        BY <2>1, Alone DEF IInv, Commit, Busy, Idle
      <4>2. Follows(db, tx) /\ Good(tx)
        BY <2>1, ChangesFollow DEF IInv, Commit, Work, GoodData
      <4> QED
        BY <4>1, <4>2 DEF Follows
    <3>2. db'.rev = db.rev + 1
      BY <2>1, <3>1, NextRevision DEF Commit
    <3>3. state = db /\ up' = up /\ state' = state
      BY <2>1, <3>1 DEF IInv, Settled, Commit, published
    <3> QED
      BY <3>1, <3>2, <3>3 DEF Register!Change
  <2>2. ASSUME NEW r \in Requests, ApplyState(r)
        PROVE  Register!Show
    BY <2>2 DEF IInv, Publishing, ApplyState, Effect, Register!Show
  <2>3. CASE Crash
    <3>1. up' = FALSE /\ db' = db
      BY <2>3 DEF Crash
    <3> QED
      BY <3>1 DEF Register!Show, Register!Next
  <2>4. CASE Restart
    BY <2>4 DEF Restart
  <2>5. ASSUME NEW r \in Requests, RequestStep(r), ~Commit(r), ~ApplyState(r)
        PROVE  db' = db /\ inForce' = inForce
    <3>1. db' = db /\ up' = up
      BY <2>5 DEF RequestStep, Begin, Mutate, Build, Fail, SetLevel, ApplyAlerts, Wake, Effect,
         Return
    <3>2. state' = state
      BY <2>5 DEF RequestStep, Begin, Mutate, Build, Fail, SetLevel, ApplyAlerts, Wake, Effect,
         Return, published
    <3> QED
      BY <3>1, <3>2
  <2>6. ASSUME NEW w \in Watchers, Woken(w) \/ Read(w)
        PROVE  db' = db /\ inForce' = inForce
    BY <2>6 DEF Woken, Read, published
  <2>7. CASE UNCHANGED vars
    BY <2>7 DEF vars, published
  <2> QED
    BY <2>1, <2>2, <2>3, <2>4, <2>5, <2>6, <2>7 DEF Next, Register!Next
<1>3. Register!Init /\ [][Register!Next]_<<db, inForce>> => IsRegister
  BY DEF IsRegister, Register!Spec
<1> HIDE DEF inForce
<1> QED
  BY <1>1, <1>2, <1>3, Inductive, PTL DEF Spec

=============================================================================
