--------------------------- MODULE MCConfigBundle ---------------------------
(***************************************************************************)
(* Small instances of ConfigBundle: databases of several ages, and bundles *)
(* that differ from a sound one in one point each.                         *)
(***************************************************************************)
EXTENDS ConfigBundle

ClassesUsed ==
  {"", "t", "bad", "true", "false", "auto-dns", "587", "auto_starttls", "implicit_tls", "default",
   "text", "url", "slack", "feishu", "dingtalk", "60s", "5s", "10m"}
DefaultOrText == {"default", "text"}
AnyBody == DefaultOrText \union {""}

Mail(enabled, complete, port, security, text) ==
  [enabled |-> enabled, complete |-> complete, port |-> port, security |-> security,
   subject |-> text, body |-> text]
Hook(enabled, url, channel) == [enabled |-> enabled, url |-> url, channel |-> channel]
Alerts(email, webhook) ==
  [email |-> email, webhook |-> webhook, policy |-> "10m", push |-> DefaultPush]

On  == Alerts([Mail(TRUE, TRUE, "587", "implicit_tls", "text") EXCEPT !.body = ""],
              Hook(FALSE, "", ""))
Both == [On EXCEPT !.webhook = Hook(TRUE, "url", "slack")]
Filled == {Both}

\* Nothing of it would be taken by a validator; of the two durations one loads.
Garbled ==
  {[email |-> Mail(FALSE, TRUE, "587", "bad", "text"), webhook |-> Hook(FALSE, "url", "bad"),
    policy |-> "bad", push |-> [DefaultPush EXCEPT !.interval = "5s"]]}

Stored(rules, columns, rows, alerts) ==
  [targets |-> {[id |-> 1, place |-> "p"]}, targetSeq |-> 1,
   rules |-> rules, ruleSeq |-> Cardinality(rules),
   settings |-> [NoSettings EXCEPT !.tag = ""], columns |-> columns, rows |-> rows,
   alerts |-> alerts]
RuleOf(kind, ids) == {[id |-> 1, host |-> "a", targets |-> [kind |-> kind, ids |-> ids]]}

New     == [Stored({}, EveryColumn, {}, Alerts(ZeroEmail, ZeroWebhook)) EXCEPT !.targets = {},
                                                                           !.targetSeq = 0]
NoSecurity == Stored(RuleOf("ids", <<1>>), EveryColumn \ {"security"}, SingleRows, Both)
Older   == Stored(RuleOf("ids", <<1>>), {"enable_ipv6", "channel"}, {"email", "webhook"},
                  Alerts(Mail(TRUE, TRUE, "bad", "", ""), Hook(TRUE, "url", "feishu")))
Oldest  == Stored(RuleOf("blank", <<>>), {}, {"email", "webhook"},
                  Alerts(Mail(TRUE, FALSE, "", "", ""), Hook(TRUE, "text", "")))
Null    == Stored(RuleOf("null", <<>>), {"enable_ipv6"}, {"webhook"},
                  Alerts(ZeroEmail, Hook(TRUE, "url", "")))
Ages == {New, NoSecurity, Older, Oldest, Null}
BeforeValidators == {Older}

Sound ==
  [version |-> 3, complete |-> TRUE,
   targets |-> Given(<<[export_id |-> 7, place |-> "q"], [export_id |-> 4, place |-> "p"]>>),
   rules |-> Given(<<[host |-> "a", refs |-> Given(<<4>>)]>>),
   settings |-> [tag |-> "t", sync_enabled |-> "false", tc_access_id |-> ""], alerts |-> On]
Unfit ==
  {[Sound EXCEPT !.version = 2], [Sound EXCEPT !.complete = FALSE],
   [Sound EXCEPT !.rules.Values[1].refs = NotGiven],
   [Sound EXCEPT !.rules.Values[1].refs = Given(<<7, 7>>)],
   [Sound EXCEPT !.rules.Values[1].refs = Given(<<5>>)],
   [Sound EXCEPT !.targets.Values[2].export_id = 7],
   [Sound EXCEPT !.settings.tag = "bad"], [Sound EXCEPT !.alerts.email.complete = FALSE],
   [Sound EXCEPT !.alerts.webhook.channel = "bad"], [Sound EXCEPT !.alerts.push.interval = "5s"]}
Uploaded == {Sound} \union Unfit
=============================================================================
