------------------------- MODULE ConfigCoordinator -------------------------
(***************************************************************************)
(* Changes of the configuration (webui/api/coordinator.go, deps.go and the *)
(* handlers that call Mutate): each runs in one SQLite transaction under   *)
(* the coordinator's mutex, reloads and builds what it will publish before *)
(* the commit, and publishes in a fixed order after it.  The process may   *)
(* die between any two steps; the database survives.                       *)
(*                                                                         *)
(* A configuration is a set of target ids, a set of rules that refer to    *)
(* them, and the rest: settings, alerts and the fields of targets.         *)
(***************************************************************************)
EXTENDS Naturals, Sequences

CONSTANTS
  Requests,    \* requests that change the configuration, each sent once
  Nobody,      \* nobody holds the mutex
  Values,      \* values of the rest of a configuration
  Default,     \* its value after a reset
  Bundles,     \* what can be imported: [targets, rules], references by export id
  MaxId,       \* bound: ids given to targets, and to rules
  MaxCrashes   \* bound: deaths of the process

ASSUME CoordinatorAssumption ==
  /\ MaxId \in Nat /\ MaxCrashes \in Nat /\ Default \in Values /\ Nobody \notin Requests
  /\ \A b \in Bundles : /\ b.targets \in Nat /\ b.rules \in Seq(SUBSET (1..b.targets))

VARIABLES
  db,        \* the committed configuration
  tx,        \* the configuration inside the open transaction
  lock,      \* the request that holds ConfigCoordinator.mu
  pc,        \* per request
  candidate, \* Candidate: what will be published
  effects,   \* how many effects of the publication have happened
  up,        \* the process runs
  level,     \* revision whose log level is in force
  alerts,    \* revision whose alert set is subscribed
  state,     \* the published RuntimeState, by its configuration
  wake,      \* the wake channels of the watchers
  watcher,   \* per watcher: "idle" or "reading"
  seen,      \* revision each watcher has read last
  crashes,
  wrote,     \* history: revision a request has committed, 0 for none
  taken      \* history: target ids ever committed

request   == <<lock, pc, tx, candidate, effects>>
published == <<level, alerts, state>>
watch     == <<wake, watcher, seen>>
vars == <<db, request, up, published, watch, crashes, wrote, taken>>

\* How far a request has come.
Stages == {"new", "open", "mutated", "built", "committed", "ok", "error", "lost"}

\* The supervisor and the pusher.
Watchers == {"health", "push"}

Rule == [id : 1..MaxId, refs : SUBSET (1..MaxId)]

\* targetSeq and ruleSeq are SQLite's sequences: AUTOINCREMENT gives no id twice.
Config ==
  [targets : SUBSET (1..MaxId), rules : SUBSET Rule, rest : Values,
   targetSeq : 0..MaxId, ruleSeq : 0..MaxId, rev : Nat]

Init ==
  /\ \E T \in 0..MaxId, n \in 0..MaxId, v \in Values :
       \E refs \in [1..n -> SUBSET (1..T)] :
         db = [targets |-> 1..T, rules |-> {[id |-> i, refs |-> refs[i]] : i \in 1..n},
               rest |-> v, targetSeq |-> T, ruleSeq |-> n, rev |-> 0]
  /\ tx = db /\ lock = Nobody /\ candidate = db /\ effects = 0
  /\ pc = [r \in Requests |-> "new"]
  /\ up = TRUE /\ level = 0 /\ alerts = 0 /\ state = db
  /\ wake = [w \in Watchers |-> FALSE] /\ watcher = [w \in Watchers |-> "reading"]
  /\ seen = [w \in Watchers |-> 0]
  /\ crashes = 0 /\ wrote = [r \in Requests |-> 0] /\ taken = db.targets

-----------------------------------------------------------------------------
(***************************************************************************)
(* The mutations: what each handler can make of configuration c.           *)
(***************************************************************************)
AddTarget(c) ==
  {[c EXCEPT !.targets = @ \union {t}, !.targetSeq = t] : t \in {c.targetSeq + 1} \ {MaxId + 1}}

\* Settings, alerts, pause and resume; and the fields of an existing target.
ChangeRest(c) == {[c EXCEPT !.rest = v] : v \in Values}
UpdateTarget(c) == {d \in ChangeRest(c) : c.targets # {}}

ReferencingRuleIDs(c, t) == {r.id : r \in {q \in c.rules : t \in q.refs}}

\* Mutant of DeleteTarget: it does not look for references.
DeleteAnyTarget(c) == {[c EXCEPT !.targets = @ \ {t}] : t \in c.targets}

\* A target in use is a conflict.
DeleteTarget(c) ==
  {[c EXCEPT !.targets = @ \ {t}] : t \in {u \in c.targets : ReferencingRuleIDs(c, u) = {}}}

\* References must exist in the same transaction (ValidateRuleTargetsTx).
AddRule(c) ==
  {[c EXCEPT !.rules = @ \union {[id |-> c.ruleSeq + 1, refs |-> R]}, !.ruleSeq = @ + 1] :
     R \in {A \in SUBSET c.targets : c.ruleSeq < MaxId}}

UpdateRule(c) ==
  {[c EXCEPT !.rules = (@ \ {q}) \union {[q EXCEPT !.refs = R]}] :
     q \in c.rules, R \in SUBSET c.targets}

DeleteRule(c) == {[c EXCEPT !.rules = @ \ {q}] : q \in c.rules}

\* handleConfigImport: new ids for all targets, references rewritten to them.
Imported(c, b, v) ==
  [targets |-> {c.targetSeq + e : e \in 1..b.targets},
   rules |-> {[id |-> c.ruleSeq + i, refs |-> {c.targetSeq + e : e \in b.rules[i]}] :
                i \in DOMAIN b.rules},
   rest |-> v, targetSeq |-> c.targetSeq + b.targets, ruleSeq |-> c.ruleSeq + Len(b.rules),
   rev |-> c.rev]

Import(c) ==
  {Imported(c, b, v) :
     v \in Values, b \in {q \in Bundles : /\ c.targetSeq + q.targets <= MaxId
                                          /\ c.ruleSeq + Len(q.rules) <= MaxId}}

\* ResetAllTx: the sequences stay.
ResetAll(c) == {[c EXCEPT !.targets = {}, !.rules = {}, !.rest = Default]}

Changes(c) ==
  UNION {AddTarget(c), UpdateTarget(c), DeleteTarget(c), AddRule(c), UpdateRule(c),
         DeleteRule(c), ChangeRest(c), Import(c), ResetAll(c)}

-----------------------------------------------------------------------------
(***************************************************************************)
(* ConfigCoordinator.mutate.                                               *)
(***************************************************************************)
\* The check of LoadBusinessSnapshotTx: every rule refers to targets that exist.
Loadable(c) == \A q \in c.rules : q.refs \subseteq c.targets

Begin(r) ==
  /\ up /\ lock = Nobody /\ pc[r] = "new"
  /\ \/ /\ lock' = r /\ pc' = [pc EXCEPT ![r] = "open"] /\ tx' = db
     \/ /\ pc' = [pc EXCEPT ![r] = "error"] /\ UNCHANGED <<lock, tx>>   \* BeginTx failed
  /\ UNCHANGED <<db, candidate, effects, up, published, watch, crashes, wrote, taken>>

Mutate(r) ==
  /\ up /\ pc[r] = "open"
  /\ tx' \in Changes(tx)
  /\ pc' = [pc EXCEPT ![r] = "mutated"]
  /\ UNCHANGED <<db, lock, candidate, effects, up, published, watch, crashes, wrote, taken>>

\* Mutant of Reload: the snapshot is read beside the transaction.
ReloadBeside == db

\* The configuration as the open transaction sees it.
Reload == tx

\* LoadBusinessSnapshotTx and buildCandidate.
Build(r) ==
  /\ up /\ pc[r] = "mutated" /\ Loadable(Reload)
  /\ candidate' = [Reload EXCEPT !.rev = @ + 1]
  /\ pc' = [pc EXCEPT ![r] = "built"]
  /\ UNCHANGED <<db, lock, tx, effects, up, published, watch, crashes, wrote, taken>>

\* Mutant of KeepsLock: the mutex covers the transaction only.
LockOfTransaction == Nobody

\* The mutex is held until mutate returns.
KeepsLock == lock

Commit(r) ==
  /\ up /\ pc[r] = "built"
  /\ db' = [tx EXCEPT !.rev = @ + 1] /\ wrote' = [wrote EXCEPT ![r] = db'.rev]
  /\ pc' = [pc EXCEPT ![r] = "committed"] /\ effects' = 0 /\ lock' = KeepsLock
  /\ taken' = taken \union db'.targets
  /\ UNCHANGED <<tx, candidate, up, published, watch, crashes>>

\* Mutant of MayFail: a step after the commit can fail.
MayFailLate == {"open", "mutated", "built", "committed"}

MayFail == {"open", "mutated", "built"}

Unlocked == Nobody

\* A refused change, an error of SQLite, a dangling reference, a cancelled
\* request, a failed commit: the transaction is rolled back.
Fail(r) ==
  /\ up /\ pc[r] \in MayFail
  /\ pc' = [pc EXCEPT ![r] = "error"] /\ lock' = Unlocked /\ tx' = db /\ candidate' = db
  /\ UNCHANGED <<db, effects, up, published, watch, crashes, wrote, taken>>

\* Mutant of Effects: the wake-up before the state.
EffectsWakeFirst == <<"level", "alerts", "health", "push", "state">>

\* applyCandidate, in this order.
Effects == <<"level", "alerts", "state", "health", "push">>

\* One effect of the publication of r's change.
Effect(r, e) ==
  /\ up /\ pc[r] = "committed" /\ effects < Len(Effects) /\ Effects[effects + 1] = e
  /\ effects' = effects + 1
  /\ UNCHANGED <<db, lock, pc, tx, candidate, up, watcher, seen, crashes, wrote, taken>>

SetLevel(r)    == Effect(r, "level") /\ level' = candidate.rev /\ UNCHANGED <<alerts, state, wake>>
ApplyAlerts(r) == Effect(r, "alerts") /\ alerts' = candidate.rev /\ UNCHANGED <<level, state, wake>>
ApplyState(r)  == Effect(r, "state") /\ state' = candidate /\ UNCHANGED <<level, alerts, wake>>
Wake(r, w)     == Effect(r, w) /\ wake' = [wake EXCEPT ![w] = TRUE] /\ UNCHANGED published

\* mutate returns, and the handler answers.
Return(r) ==
  /\ up /\ pc[r] = "committed" /\ effects = Len(Effects)
  /\ pc' = [pc EXCEPT ![r] = "ok"] /\ lock' = Unlocked /\ effects' = 0
  /\ UNCHANGED <<db, tx, candidate, up, published, watch, crashes, wrote, taken>>

-----------------------------------------------------------------------------
(***************************************************************************)
(* The supervisor and the pusher; the death and the start of the process.  *)
(***************************************************************************)
\* A wake-up or the timer.
Woken(w) ==
  /\ up /\ watcher[w] = "idle"
  /\ wake' \in {wake, [wake EXCEPT ![w] = FALSE]}
  /\ watcher' = [watcher EXCEPT ![w] = "reading"]
  /\ UNCHANGED <<db, request, up, published, seen, crashes, wrote, taken>>

Read(w) ==
  /\ up /\ watcher[w] = "reading"
  /\ watcher' = [watcher EXCEPT ![w] = "idle"] /\ seen' = [seen EXCEPT ![w] = state.rev]
  /\ UNCHANGED <<db, request, up, published, wake, crashes, wrote, taken>>

Crash ==
  /\ up /\ crashes < MaxCrashes
  /\ up' = FALSE /\ crashes' = crashes + 1
  /\ lock' = Nobody /\ tx' = db /\ candidate' = db /\ effects' = 0
  /\ pc' = [r \in Requests |-> IF pc[r] \in {"new", "ok", "error"} THEN pc[r] ELSE "lost"]
  /\ UNCHANGED <<db, published, watch, wrote, taken>>

\* runWebUI: the snapshot is loaded once, everything is built from it.
Restart ==
  /\ ~up /\ Loadable(db)
  /\ up' = TRUE /\ level' = db.rev /\ alerts' = db.rev /\ state' = db
  /\ wake' = [w \in Watchers |-> FALSE] /\ watcher' = [w \in Watchers |-> "reading"]
  /\ seen' = [w \in Watchers |-> 0]
  /\ UNCHANGED <<db, request, crashes, wrote, taken>>

RequestStep(r) ==
  \/ Begin(r) \/ Mutate(r) \/ Build(r) \/ Commit(r) \/ Fail(r)
  \/ SetLevel(r) \/ ApplyAlerts(r) \/ ApplyState(r) \/ (\E w \in Watchers : Wake(r, w))
  \/ Return(r)

Next ==
  \/ \E r \in Requests : RequestStep(r)
  \/ \E w \in Watchers : Woken(w) \/ Read(w)
  \/ Crash \/ Restart

Spec == Init /\ [][Next]_vars

-----------------------------------------------------------------------------
(***************************************************************************)
(* Properties.                                                             *)
(***************************************************************************)
\* The values the variables range over; a request that has the mutex works.
TypeOK ==
  /\ {db, tx, candidate, state} \subseteq Config
  /\ lock \in Requests \union {Nobody} /\ effects \in 0..Len(Effects)
  /\ pc \in [Requests -> Stages]
  /\ lock # Nobody => pc[lock] \in {"open", "mutated", "built", "committed"}
  /\ up \in BOOLEAN /\ level \in Nat /\ alerts \in Nat /\ crashes \in 0..MaxCrashes
  /\ wake \in [Watchers -> BOOLEAN] /\ watcher \in [Watchers -> {"idle", "reading"}]
  /\ seen \in [Watchers -> Nat] /\ wrote \in [Requests -> Nat] /\ taken \subseteq 1..MaxId

\* No order of changes leaves a rule with a target that is gone: the checks of
\* the handlers suffice, so the reload inside a transaction never finds
\* corrupted data, and a restart always finds a configuration it can load.
RefsClosed ==
  /\ Loadable(db)
  /\ \A r \in Requests : pc[r] = "mutated" => Loadable(tx)

\* An id means one target for ever: a round or a client that still holds the id
\* of a deleted target never meets another target under it.
IdsForLife == [][\A t \in db'.targets \ db.targets : t \notin taken]_vars

\* Nothing is half published: whenever nobody holds the mutex, log level,
\* alerts and state are those of the committed configuration.
PublishedIsCommitted ==
  up /\ lock = Nobody => level = db.rev /\ alerts = db.rev /\ state = db

\* The answer is true: after "ok" the change is durable and in force, after an
\* error it is neither.
AnswersAreTrue ==
  \A r \in Requests :
    /\ pc[r] = "ok" => /\ wrote[r] \in 1..db.rev
                       /\ up => wrote[r] <= state.rev /\ wrote[r] <= alerts
    /\ pc[r] = "error" => wrote[r] = 0

\* deps.go: whoever takes the new state works under the new log level and the
\* new alerts already.
EffectsLead == up => state.rev <= alerts /\ alerts <= level

\* A publication reaches the watchers: none rests on an older state with
\* nothing left to wake it.
WatchersInformed ==
  up /\ lock = Nobody =>
    \A w \in Watchers : wake[w] \/ watcher[w] = "reading" \/ seen[w] = state.rev

\* Changes come into force one after another, over crashes and restarts: while
\* the process is down its database is what will be in force.
Register == INSTANCE ConfigRegister
              WITH durable <- db, inForce <- IF up THEN state ELSE db
IsRegister == Register!Spec

=============================================================================
