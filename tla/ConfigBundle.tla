---------------------------- MODULE ConfigBundle ----------------------------
(***************************************************************************)
(* What is stored, exported and imported (config/store.go,                 *)
(* config/validate.go, webui/api/bundle_v3.go, export.go, alerts.go,       *)
(* settings.go): the opening of a database of any age with its schema      *)
(* migration, the requests that write it statement by statement in one     *)
(* transaction, the version 3 bundle, and the forms that are sent back as  *)
(* they were read.  The process may die and a statement may fail anywhere; *)
(* somebody may edit the database file directly.                           *)
(*                                                                         *)
(* Texts are classes: "" is what a reader takes for missing; the constants *)
(* say which others the validators take.  The region, the resource and the *)
(* product of a target are one value, its place.  What a rule says besides *)
(* its targets is one value, its host.  Of both only legal values occur.   *)
(***************************************************************************)
EXTENDS Integers, FiniteSets, Sequences, SequencesExt

CONSTANTS
  Hosts, Places,
  Classes,    \* the classes of texts
  Texts,      \* legal values of the tag; credentials are any of them or ""
  Ports,      \* 1 to 65535
  Subjects,   \* of 1 to 200 characters, none of them a control character
  Bodies,     \* of at most 10 KiB
  Durations,  \* what Go parses as a positive duration
  Intervals,  \* those of at least 20s
  Forms,      \* what the alerts form may be filled with
  Handmade,   \* alerts somebody may write into the file
  Files,      \* the databases the program may find when it first starts
  Uploads,    \* files somebody may upload besides the exported one
  MaxId,      \* bound: target ids
  MaxOps,     \* bound: requests that reach the database
  MaxCrashes, \* bound: deaths of the process and failing statements
  MaxEdits    \* bound: direct edits of the file

VARIABLES
  file,     \* the committed database
  tx,       \* the database as the open transaction sees it
  op,       \* the request or the migration underway
  todo,     \* its statements still to execute
  added,    \* columns the migration has added
  phase,    \* the process
  exported, \* the bundle exported last, or none
  ops, crashes, edits,
  said,     \* history: the rules that were last given all targets, by id
  saved,    \* history: what was committed last by somebody
  unchecked \* history: the single rows whose value no validator has taken

counters == <<ops, crashes, edits>>
history  == <<said, saved, unchecked>>
vars == <<file, tx, op, todo, added, phase, exported, counters, history>>

None == [kind |-> "none"]
Opening == [kind |-> "open"]

\* presenceSlice: absent and null are not an empty array.
Given(s) == [Values |-> s, Provided |-> TRUE]
NotGiven == [Values |-> <<>>, Provided |-> FALSE]

-----------------------------------------------------------------------------
(***************************************************************************)
(* Reading the database.                                                   *)
(***************************************************************************)
\* Columns later versions have added, in the order of the migration.
Columns == <<"enable_ipv6", "channel", "security", "subject", "body">>
EveryColumn == Range(Columns)
SingleRows == {"email", "webhook", "policy", "push"}

\* Mutant of Parses: JSON null is an empty array.
ParsesNull(column) == column.kind \in {"ids", "blank", "null"}

\* parseRuleTargets: SQL NULL, JSON null and anything but integers are errors.
Parses(column) == column.kind \in {"ids", "blank"}
Refs(column) == IF column.kind = "ids" THEN column.ids ELSE <<>>

TargetIDs(d) == {t.id : t \in d.targets}

Defaults == [tag |-> "auto-dns", sync_enabled |-> "true", tc_access_id |-> ""]
SettingKeys == DOMAIN Defaults
Absent == "absent"

\* normalizeSettings: a missing or blank value is the default, an illegal one an error.
Legal(k, v) ==
  \/ v \in {Absent, ""} \/ k = "tc_access_id"
  \/ k = "tag" /\ v \in Texts \union {Defaults.tag}
  \/ k = "sync_enabled" /\ v \in {"true", "false"}
Normalized(k, v) == IF v \in {Absent, ""} THEN Defaults[k] ELSE v

DefaultEmail == [enabled |-> FALSE, complete |-> FALSE, port |-> "587",
                 security |-> "auto_starttls", subject |-> "default", body |-> "default"]
ZeroEmail == [enabled |-> FALSE, complete |-> FALSE, port |-> "", security |-> "",
              subject |-> "", body |-> ""]
ZeroWebhook == [enabled |-> FALSE, url |-> "", channel |-> ""]
DefaultPush == [enabled |-> FALSE, url |-> "", interval |-> "60s"]

\* loadAlertEmail, loadAlertWebhook, loadAlertPolicy, loadUptimeKumaPush.
LoadAlerts(d) ==
  [email   |-> IF "email" \in d.rows THEN d.alerts.email ELSE ZeroEmail,
   webhook |-> IF "webhook" \in d.rows THEN d.alerts.webhook ELSE ZeroWebhook,
   policy  |-> IF "policy" \in d.rows /\ d.alerts.policy # "" THEN d.alerts.policy ELSE "10m",
   push    |-> IF "push" \notin d.rows THEN DefaultPush
               ELSE IF d.alerts.push.interval # "" THEN d.alerts.push
               ELSE [d.alerts.push EXCEPT !.interval = "60s"]]

\* Does LoadBusinessSnapshotTx succeed?  Of the alerts only the durations can fail.
Loads(d) ==
  /\ "policy" \in d.rows => d.alerts.policy \in Durations \union {""}
  /\ "push" \in d.rows => d.alerts.push.interval \in Durations \union {""}
  /\ \A r \in d.rules : Parses(r.targets) /\ Range(Refs(r.targets)) \subseteq TargetIDs(d)
  /\ \A k \in SettingKeys : Legal(k, d.settings[k])

-----------------------------------------------------------------------------
(***************************************************************************)
(* The bundle.                                                             *)
(***************************************************************************)
\* Mutant of FillEmail: only the port is filled in.
FillPort(e) == [e EXCEPT !.port = IF @ = "" THEN "587" ELSE @]

\* toBundleV3 and handleGetAlerts: what an email form needs to be sent back.
FillEmail(e) ==
  [e EXCEPT !.body     = IF e = ZeroEmail THEN "default" ELSE @,
            !.security = IF @ = "" THEN "auto_starttls" ELSE @,
            !.port     = IF @ = "" THEN "587" ELSE @,
            !.subject  = IF @ = "" THEN "default" ELSE @]

Form(d) == [LoadAlerts(d) EXCEPT !.email = FillEmail(@)]

\* The rows of a table in the order of their ids; ids in ascending order.
InOrder(rows) ==
  CHOOSE s \in Bijection(1..Cardinality(rows), rows) :
    \A i, j \in 1..Cardinality(rows) : i < j => s[i].id < s[j].id
Ascending(s) ==
  LET order == CHOOSE p \in Bijection(DOMAIN s, DOMAIN s) :
                 \A i, j \in DOMAIN s : i < j => s[p[i]] <= s[p[j]]
  IN [i \in DOMAIN s |-> s[order[i]]]

Export(d) ==
  [version  |-> 3, complete |-> TRUE,
   targets  |-> Given([i \in 1..Cardinality(d.targets) |->
                         LET t == InOrder(d.targets)[i]
                         IN [export_id |-> t.id, place |-> t.place]]),
   rules    |-> Given([i \in 1..Cardinality(d.rules) |->
                         LET r == InOrder(d.rules)[i]
                         IN [host |-> r.host, refs |-> Given(Ascending(Refs(r.targets)))]]),
   settings |-> [k \in SettingKeys |-> Normalized(k, d.settings[k])],
   alerts   |-> Form(d)]

\* NormalizeAlertEmail, NormalizeAlertWebhook, NormalizeAlertPolicy, NormalizeUptimeKumaPush.
Securities == {"auto_starttls", "starttls", "implicit_tls"}
Channels   == {"dingtalk", "feishu", "slack"}

AcceptsEmail(e) ==
  /\ e.security \in Securities /\ e.port \in Ports
  /\ e.enabled => e.complete
  /\ e.subject \in Subjects /\ e.body \in Bodies
AcceptsWebhook(w) ==
  w.channel \in Channels \union {""} /\ (w.enabled => w.channel # "" /\ w.url = "url")
AcceptsPush(p) == p.interval \in Intervals /\ (p.enabled => p.url = "url")

AcceptsRow(row, v) ==
  CASE row = "email"   -> AcceptsEmail(v)
    [] row = "webhook" -> AcceptsWebhook(v)
    [] row = "policy"  -> v \in Durations
    [] row = "push"    -> AcceptsPush(v)
AcceptsAlerts(a) == \A row \in SingleRows : AcceptsRow(row, a[row])

\* checkBundleV3Presence.
Present(w) ==
  /\ w.complete /\ w.targets.Provided /\ w.rules.Provided
  /\ \A i \in DOMAIN w.rules.Values : w.rules.Values[i].refs.Provided

\* validateAndNormalizeBundle: what it accepts, it takes as it is.
Accepts(w) ==
  LET targets == w.targets.Values
      ids == [i \in DOMAIN targets |-> targets[i].export_id]
      refs(i) == w.rules.Values[i].refs.Values
  IN /\ w.version = 3 /\ Present(w)
     /\ 0 \notin Range(ids) /\ IsInjective(ids)
     /\ \A i \in DOMAIN w.rules.Values :
          Range(refs(i)) \subseteq Range(ids) /\ IsInjective(refs(i))
     /\ \A k \in SettingKeys : Legal(k, w.settings[k]) /\ (k # "tc_access_id" => w.settings[k] # "")
     /\ AcceptsAlerts(w.alerts)

-----------------------------------------------------------------------------
(***************************************************************************)
(* The databases and the bundles there are.                                *)
(***************************************************************************)
Emails == [enabled : BOOLEAN, complete : BOOLEAN, port : Classes, security : Classes,
           subject : Classes, body : Classes]
Webhooks == [enabled : BOOLEAN, url : Classes, channel : Classes]
Pushes == [enabled : BOOLEAN, url : Classes, interval : Classes]
AlertForms == [email : Emails, webhook : Webhooks, policy : Classes, push : Pushes]

\* schemaSQL; the column of the targets of a rule holds any integers.
TargetRows == [id : Nat \ {0}, place : Places]
RefColumns == [kind : {"ids", "blank", "null"}, ids : Seq(Nat)]
RuleRows   == [id : Nat \ {0}, host : Hosts, targets : RefColumns]
Databases  ==
  [targets : SUBSET TargetRows, targetSeq : Nat, rules : SUBSET RuleRows, ruleSeq : Nat,
   settings : [SettingKeys -> Classes \union {Absent}], columns : SUBSET EveryColumn,
   rows : SUBSET SingleRows, alerts : AlertForms]

\* Ids are primary keys and never given again; a rule names no target twice.
Keyed(d) ==
  /\ IsFiniteSet(d.targets) /\ IsFiniteSet(d.rules)
  /\ \A t \in d.targets : t.id <= d.targetSeq
  /\ \A t, u \in d.targets : t.id = u.id => t = u
  /\ \A r \in d.rules : r.id <= d.ruleSeq /\ IsInjective(Refs(r.targets))
  /\ \A r, q \in d.rules : r.id = q.id => r = q

\* Is the stored value of a row one that the validators leave, or blank where
\* the reader has a default?  Columns that are missing say nothing, nor do the
\* switches before there were templates.
SoundRow(row, d) ==
  LET e == d.alerts.email
      w == d.alerts.webhook
      p == d.alerts.push
      templates == {"subject", "body"} \subseteq d.columns
  IN CASE row = "email" ->
            /\ e.port \in Ports \union {""}
            /\ "security" \in d.columns => e.security \in Securities \union {""}
            /\ "subject" \in d.columns => e.subject \in Subjects \union {""}
            /\ "body" \in d.columns => e.body \in Bodies
            /\ templates /\ e.enabled => e.complete
       [] row = "webhook" ->
            /\ "channel" \in d.columns => w.channel \in Channels \union {""}
            /\ templates /\ w.enabled => w.channel # "" /\ w.url = "url"
       [] row = "policy" -> d.alerts.policy \in Durations \union {""}
       [] row = "push" -> p.interval \in Intervals \union {""} /\ (p.enabled => p.url = "url")

Presence(S) == [Values : S, Provided : BOOLEAN]

\* bundleV3Wire.
WireTargets == [export_id : Nat, place : Places]
WireRules   == [host : Hosts, refs : Presence(Seq(Nat))]
Bundles     ==
  [version : Nat, complete : BOOLEAN,
   targets : Presence(Seq(WireTargets)), rules : Presence(Seq(WireRules)),
   settings : [SettingKeys -> Classes], alerts : AlertForms]

ASSUME BundleAssumption ==
  /\ Files \subseteq {d \in Databases : Keyed(d)}
  /\ Uploads \subseteq Bundles /\ Forms \subseteq AlertForms /\ Handmade \subseteq AlertForms
  /\ Texts \subseteq Classes /\ Absent \notin Classes
  /\ {"", "true", "false", "auto-dns", "auto_starttls", "dingtalk"} \subseteq Classes
  /\ "587" \in Ports /\ Ports \subseteq Classes \ {""}
  /\ "default" \in Subjects /\ Subjects \subseteq Classes \ {""}
  /\ "default" \in Bodies /\ Bodies \subseteq Classes
  /\ "10m" \in Durations /\ Durations \subseteq Classes \ {""}
  /\ "60s" \in Intervals /\ Intervals \subseteq Durations
  /\ MaxId \in Nat

-----------------------------------------------------------------------------
(***************************************************************************)
(* The statements.                                                         *)
(***************************************************************************)
Ids(s) == [kind |-> "ids", ids |-> s]

NewRule(d, host, column) ==
  [d EXCEPT !.rules = @ \union {[id |-> d.ruleSeq + 1, host |-> host, targets |-> column]},
            !.ruleSeq = @ + 1]
NewTarget(d, place) ==
  [d EXCEPT !.targets = @ \union {[id |-> d.targetSeq + 1, place |-> place]},
            !.targetSeq = @ + 1]

\* Export id i of the bundle has become the id that AddTargetTx returned.
NewId(w, d, i) ==
  d.targetSeq - Len(w.targets.Values)
    + (CHOOSE j \in DOMAIN w.targets.Values : w.targets.Values[j].export_id = i)

\* Mutant of Remap: references keep the ids of the bundle.
RemapNothing(w, d, refs) == refs

Remap(w, d, refs) == [i \in DOMAIN refs |-> NewId(w, d, refs[i])]

InsertTargets(w, d) ==
  [d EXCEPT !.targets = @ \union {[id |-> d.targetSeq + i, place |-> w.targets.Values[i].place] :
                                    i \in DOMAIN w.targets.Values},
            !.targetSeq = @ + Len(w.targets.Values)]
InsertRules(w, d) ==
  [d EXCEPT !.rules = @ \union {[id |-> d.ruleSeq + i, host |-> w.rules.Values[i].host,
                                 targets |-> Ids(Remap(w, d, w.rules.Values[i].refs.Values))] :
                                    i \in DOMAIN w.rules.Values},
            !.ruleSeq = @ + Len(w.rules.Values)]

NoSettings == [k \in SettingKeys |-> Absent]

Cleared(d) ==
  [d EXCEPT !.targets = {}, !.rules = {}, !.settings = NoSettings, !.rows = {}]

\* INSERT OR IGNORE of the four rows whose id is 1.
DefaultRows(d) ==
  [d EXCEPT !.rows = SingleRows,
            !.alerts = [email   |-> IF "email" \in d.rows THEN @.email ELSE DefaultEmail,
                        webhook |-> IF "webhook" \in d.rows THEN @.webhook ELSE ZeroWebhook,
                        policy  |-> IF "policy" \in d.rows THEN @.policy ELSE "10m",
                        push    |-> IF "push" \in d.rows THEN @.push ELSE DefaultPush]]

SaveRow(d, row, value) ==
  [d EXCEPT !.rows = @ \union {row}, !.alerts = [@ EXCEPT ![row] = value]]

\* What a statement of a request makes of the database.
Effect(s, d) ==
  CASE s = "rule"      -> NewRule(d, op.host, Ids(op.refs))
    [] s = "rerule"    -> [d EXCEPT !.rules = {r \in @ : r.id # op.id} \union
                                        {[id |-> op.id, host |-> op.host, targets |-> Ids(op.refs)]}]
    [] s = "unrule"    -> [d EXCEPT !.rules = {r \in @ : r.id # op.id}]
    [] s = "target"    -> NewTarget(d, op.place)
    [] s = "untarget"  -> [d EXCEPT !.targets = {t \in @ : t.id # op.id}]
    [] s \in SettingKeys -> [d EXCEPT !.settings = [@ EXCEPT ![s] = op.settings[s]]]
    [] s \in SingleRows  -> SaveRow(d, s, op.alerts[s])
    [] s = "reset"     -> DefaultRows(Cleared(d))
    [] s = "clear"     -> Cleared(d)
    [] s = "targets"   -> InsertTargets(op.wire, d)
    [] s = "rules"     -> InsertRules(op.wire, d)

-----------------------------------------------------------------------------
(***************************************************************************)
(* initTables: the schema, in one transaction.                             *)
(***************************************************************************)
Migration == Columns \o <<"disable email", "disable webhook", "rows">>

\* Mutant of Templates: the switches are reset whenever the columns exist.
TemplatesExist == {"subject", "body"} \subseteq tx.columns

\* Were the templates of the email added by this opening?
Templates == added \intersect {"subject", "body"} # {}

\* The rows there are take the default of the column.
AddColumn(c, d) ==
  LET e == [d EXCEPT !.columns = @ \union {c}] IN
  CASE c = "channel" /\ "webhook" \in d.rows -> [e EXCEPT !.alerts.webhook.channel = "dingtalk"]
    [] c = "security" /\ "email" \in d.rows  -> [e EXCEPT !.alerts.email.security = "auto_starttls"]
    [] c = "subject" /\ "email" \in d.rows   -> [e EXCEPT !.alerts.email.subject = "default"]
    [] c = "body" /\ "email" \in d.rows      -> [e EXCEPT !.alerts.email.body = "default"]
    [] OTHER -> e

SchemaEffect(s, d) ==
  CASE s = "disable email"   -> IF Templates THEN [d EXCEPT !.alerts.email.enabled = FALSE] ELSE d
    [] s = "disable webhook" -> IF Templates THEN [d EXCEPT !.alerts.webhook.enabled = FALSE] ELSE d
    [] s = "rows"            -> DefaultRows(d)
    [] s \in EveryColumn     -> IF s \in d.columns THEN d ELSE AddColumn(s, d)

-----------------------------------------------------------------------------
(***************************************************************************)
(* What the user has: the configuration apart from ids and columns.        *)
(***************************************************************************)
Place(d, id) == (CHOOSE t \in d.targets : t.id = id).place

Content(d) ==
  [places   |-> [p \in Places |-> Cardinality({t \in d.targets : t.place = p})],
   rules    |-> {[host |-> r.host,
                  targets |-> IF Parses(r.targets) /\ Range(Refs(r.targets)) \subseteq TargetIDs(d)
                              THEN {Place(d, i) : i \in Range(Refs(r.targets))} ELSE {"broken"}] :
                   r \in d.rules},
   settings |-> [k \in SettingKeys |-> Normalized(k, d.settings[k])],
   alerts   |-> Form(d)]

\* A missing column has its default, and a database from before the templates
\* has its channels turned off.
Renewed(d) ==
  LET current == {"subject", "body"} \subseteq d.columns
      kept(c, v, default) == IF c \in d.columns THEN v ELSE default
      email   == [d.alerts.email EXCEPT !.enabled  = @ /\ current,
                                        !.security = kept("security", @, "auto_starttls"),
                                        !.subject  = kept("subject", @, "default"),
                                        !.body     = kept("body", @, "default")]
      webhook == [d.alerts.webhook EXCEPT !.enabled = @ /\ current,
                                          !.channel = kept("channel", @, "dingtalk")]
  IN [d EXCEPT !.alerts.email = email, !.alerts.webhook = webhook]
Meant(d) == Content(Renewed(d))

-----------------------------------------------------------------------------
Init ==
  /\ file \in Files
  /\ tx = file /\ op = None /\ todo = <<>> /\ added = {}
  /\ phase = "down" /\ exported = None
  /\ ops = 0 /\ crashes = 0 /\ edits = 0
  /\ said = {r.id : r \in {q \in file.rules : \/ q.targets.kind = "blank"
                                              \/ q.targets = Ids(<<>>)}}
  /\ saved = Meant(file)
  /\ unchecked = {row \in file.rows : ~SoundRow(row, file)}

\* OpenStore.
Start ==
  /\ phase = "down"
  /\ phase' = "opening" /\ op' = Opening /\ todo' = Migration /\ added' = {} /\ tx' = file
  /\ UNCHANGED <<file, exported, counters, history>>

Migrate ==
  /\ op = Opening /\ todo # <<>>
  /\ tx' = SchemaEffect(Head(todo), tx)
  /\ added' = added \union ({Head(todo)} \intersect (EveryColumn \ tx.columns))
  /\ todo' = Tail(todo)
  /\ UNCHANGED <<file, op, phase, exported, counters, history>>

\* The statements reach the file together, at the commit.
Durable == op = Opening /\ todo = <<>>

MigrationCommits ==
  /\ Durable /\ file' = tx
  /\ IF todo = <<>> THEN phase' = "loading" /\ op' = None ELSE UNCHANGED <<phase, op>>
  /\ UNCHANGED <<tx, todo, added, exported, counters, history>>

\* runWebUI reads the whole configuration before it does anything else.
Load ==
  /\ phase = "loading"
  /\ phase' = IF Loads(file) THEN "running" ELSE "down"
  /\ UNCHANGED <<file, tx, op, todo, added, exported, counters, history>>

-----------------------------------------------------------------------------
(***************************************************************************)
(* Requests.                                                               *)
(***************************************************************************)
Begin(request, statements) ==
  /\ phase = "running" /\ op = None /\ ops < MaxOps
  /\ op' = request /\ todo' = statements /\ tx' = file /\ ops' = ops + 1
  /\ UNCHANGED <<file, added, phase, exported, crashes, edits, history>>

\* The references exist in the same transaction, and none is there twice.
TargetLists == {refs \in UNION {[1..n -> TargetIDs(file)] : n \in 0..2} : IsInjective(refs)}

PostRule ==
  \E h \in Hosts, refs \in TargetLists :
    Begin([kind |-> "rule", host |-> h, refs |-> refs], <<"rule">>)

PutRule ==
  \E r \in file.rules, h \in Hosts, refs \in TargetLists :
    Begin([kind |-> "rerule", id |-> r.id, host |-> h, refs |-> refs], <<"rerule">>)

RemoveRule ==
  \E r \in file.rules : Begin([kind |-> "unrule", id |-> r.id], <<"unrule">>)

PostTarget ==
  \E p \in Places :
    file.targetSeq < MaxId /\ Begin([kind |-> "target", place |-> p], <<"target">>)

\* ReferencingRuleIDsTx: a target in use stays, and so does one beside a damaged rule.
RemoveTarget ==
  \E id \in TargetIDs(file) :
    /\ \A r \in file.rules : Parses(r.targets) /\ id \notin Range(Refs(r.targets))
    /\ Begin([kind |-> "untarget", id |-> id], <<"untarget">>)

\* handlePutSettings, in the order of a Go map; pause and resume write the third key.
PutSettings ==
  \E K \in {{"tag"}, {"tc_access_id"}, {"tag", "tc_access_id"}, {"sync_enabled"}} :
    \E order \in SetToSeqs(K), v \in [K -> Texts \union {"", "true", "false"}] :
      /\ \A k \in K : Legal(k, v[k]) /\ (k # "tc_access_id" => v[k] # "")
      /\ "tc_access_id" \in K => v["tc_access_id"] \in Texts \union {""}
      /\ Begin([kind |-> "settings", settings |-> v], order)

AlertRows == <<"policy", "email", "webhook", "push">>

PutAlerts ==
  \E form \in Forms \union {Form(file)} :
    AcceptsAlerts(form) /\ Begin([kind |-> "alerts", alerts |-> form], AlertRows)

Reset == Begin([kind |-> "reset"], <<"reset">>)

Wires == IF exported = None THEN Uploads ELSE Uploads \union {exported}

ImportScript ==
  <<"clear", "targets", "rules", "tc_access_id", "tag", "sync_enabled">> \o AlertRows

Import ==
  \E w \in Wires :
    /\ Accepts(w)
    /\ file.targetSeq + Len(w.targets.Values) <= MaxId
    /\ Begin([kind |-> "import", wire |-> w, settings |-> w.settings, alerts |-> w.alerts],
             ImportScript)

ConfigExport ==
  /\ phase = "running" /\ op = None /\ Loads(file)
  /\ exported' = Export(file)
  /\ UNCHANGED <<file, tx, op, todo, added, phase, counters, history>>

Statement ==
  /\ op \notin {None, Opening} /\ todo # <<>>
  /\ tx' = Effect(Head(todo), tx)
  /\ todo' = Tail(todo)
  /\ UNCHANGED <<file, op, added, phase, exported, counters, history>>

\* The rules given all targets once the request is committed.
SaidThen ==
  CASE op.kind = "rule"   -> IF op.refs = <<>> THEN said \union {tx.ruleSeq} ELSE said
    [] op.kind = "rerule" -> IF op.refs = <<>> THEN said \union {op.id} ELSE said \ {op.id}
    [] op.kind = "import" ->
         {file.ruleSeq + i : i \in {j \in DOMAIN op.wire.rules.Values :
                                      op.wire.rules.Values[j].refs = Given(<<>>)}}
    [] OTHER -> said

\* These three give all four rows values that validators take.
UncheckedThen == IF op.kind \in {"alerts", "import", "reset"} THEN {} ELSE unchecked

\* The candidate is read back inside the transaction; damage refuses the commit.
Commit ==
  /\ op \notin {None, Opening} /\ todo = <<>>
  /\ op' = None
  /\ IF Loads(tx)
     THEN file' = tx /\ said' = SaidThen /\ saved' = Content(tx) /\ unchecked' = UncheckedThen
     ELSE UNCHANGED <<file, history>>
  /\ UNCHANGED <<tx, todo, added, phase, exported, counters>>

-----------------------------------------------------------------------------
(***************************************************************************)
(* Faults.                                                                 *)
(***************************************************************************)
\* A statement or the commit fails: the transaction is rolled back; while the
\* schema is migrated the process ends.
Fails ==
  /\ op # None /\ crashes < MaxCrashes
  /\ crashes' = crashes + 1
  /\ op' = None /\ todo' = <<>> /\ tx' = file
  /\ phase' = IF op = Opening THEN "down" ELSE phase
  /\ UNCHANGED <<file, added, exported, ops, edits, history>>

Dies ==
  /\ phase # "down" /\ crashes < MaxCrashes
  /\ crashes' = crashes + 1
  /\ phase' = "down" /\ op' = None /\ todo' = <<>> /\ tx' = file
  /\ UNCHANGED <<file, added, exported, ops, edits, history>>

\* Somebody damages the references of a rule in the file, deletes a single row
\* or gives it a value of his own.
EditFile ==
  /\ edits < MaxEdits /\ op = None
  /\ edits' = edits + 1
  /\ \/ \E r \in file.rules, c \in {[kind |-> "null", ids |-> <<>>], Ids(<<MaxId + 1>>)} :
          /\ file' = [file EXCEPT !.rules = (@ \ {r}) \union {[r EXCEPT !.targets = c]}]
          /\ said' = said \ {r.id} /\ UNCHANGED unchecked
     \/ \E row \in file.rows :
          /\ file' = [file EXCEPT !.rows = @ \ {row}]
          /\ unchecked' = unchecked \ {row} /\ UNCHANGED said
     \/ \E row \in file.rows, alerts \in Handmade :
          /\ file' = SaveRow(file, row, alerts[row])
          /\ unchecked' = IF SoundRow(row, file') THEN unchecked \ {row} ELSE unchecked \union {row}
          /\ UNCHANGED said
  /\ saved' = Meant(file')
  /\ UNCHANGED <<tx, op, todo, added, phase, exported, ops, crashes>>

Next ==
  \/ Start \/ Migrate \/ MigrationCommits \/ Load
  \/ PostRule \/ PutRule \/ RemoveRule \/ PostTarget \/ RemoveTarget
  \/ PutSettings \/ PutAlerts \/ Reset \/ Import \/ ConfigExport
  \/ Statement \/ Commit
  \/ Fails \/ Dies \/ EditFile

Spec == Init /\ [][Next]_vars

-----------------------------------------------------------------------------
\* A rule applies to all targets only if that is what it was last given:
\* no damage, omission, import or removal of a target widens it.
NeverWidened ==
  phase = "running" /\ Loads(file) =>
    \A r \in file.rules : Refs(r.targets) = <<>> => r.id \in said

\* A single row can be sent back as the form shows it unless its value came from
\* outside the program: from a version without the validators, or by an edit of
\* the file.  While there is no such row, an import takes what is exported from a
\* configuration the program runs with.  Rules and targets have legal texts, and
\* a rule names no target twice (Keyed), as their handlers leave them.
ExportAccepted ==
  phase = "running" /\ Loads(file) =>
    /\ \A row \in SingleRows \ unchecked : AcceptsRow(row, Form(file)[row])
    /\ unchecked = {} => Accepts(Export(file))

\* bundle_v3.go:343 says so of every configuration ("an exported bundle can
\* certainly pass the validation of the import").
ExportAlwaysAccepted == phase = "running" /\ Loads(file) => Accepts(Export(file))

\* When the statements of an import are done, whatever the database was before,
\* the transaction holds a sound configuration, the one that was uploaded.
ImportExact ==
  op.kind = "import" /\ todo = <<>> =>
    /\ Loads(tx)
    /\ Content(tx).settings = op.wire.settings /\ Content(tx).alerts = op.wire.alerts
    /\ \A p \in Places :
         Content(tx).places[p] =
           Cardinality({i \in DOMAIN op.wire.targets.Values : op.wire.targets.Values[i].place = p})
    /\ Len(Export(tx).rules.Values) = Len(op.wire.rules.Values)
    /\ \A i \in DOMAIN op.wire.rules.Values :
         LET r == op.wire.rules.Values[i]
             targets == op.wire.targets.Values
         IN [host |-> r.host,
             targets |-> {targets[j].place :
                            j \in {k \in DOMAIN targets :
                                     targets[k].export_id \in Range(r.refs.Values)}}]
              \in Content(tx).rules

\* A running process has exactly what was committed last: restarts, crashes and
\* failures change nothing, and the one change the migration makes to a
\* database from before the templates, to turn its alerts off, is made once.
RestartKeeps == phase = "running" => Content(file) = saved
=============================================================================
