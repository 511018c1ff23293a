-------------------------- MODULE ConfigBundleProofs --------------------------
(***************************************************************************)
(* Theorems about ConfigBundle, for any databases, bundles and forms the   *)
(* assumption on the constants allows.                                     *)
(***************************************************************************)
EXTENDS ConfigBundle, FiniteSetTheorems, FunctionTheorems, SequenceTheorems, TLAPS

Database(d) == d \in Databases /\ Keyed(d)

LEMMA Names ==
  /\ EveryColumn = {"enable_ipv6", "channel", "security", "subject", "body"}
  /\ SettingKeys = {"tag", "sync_enabled", "tc_access_id"}
  /\ SingleRows = {"email", "webhook", "policy", "push"}
  /\ \A k \in SettingKeys : Defaults[k] \in Classes
<1>1. DOMAIN Columns = 1..5
  BY DEF Columns
<1>2. EveryColumn = {Columns[1], Columns[2], Columns[3], Columns[4], Columns[5]}
  BY <1>1 DEF EveryColumn, Range
<1>3. EveryColumn = {"enable_ipv6", "channel", "security", "subject", "body"}
  BY <1>2 DEF Columns
<1>4. SettingKeys = {"tag", "sync_enabled", "tc_access_id"}
  BY DEF SettingKeys, Defaults
<1>5. \A k \in SettingKeys : Defaults[k] \in Classes
  <2>1. Defaults["tag"] = "auto-dns" /\ Defaults["sync_enabled"] = "true" /\ Defaults["tc_access_id"] = ""
    BY DEF Defaults
  <2>2. {"auto-dns", "true", ""} \subseteq Classes
    BY BundleAssumption DEF BundleAssumption
  <2> QED
    BY <1>4, <2>1, <2>2
<1> QED
  BY <1>3, <1>4, <1>5 DEF SingleRows

\* What the validators take is none of the blank texts, and has a class.
LEMMA LegalTexts ==
  /\ {"", "true", "false", "auto-dns", "auto_starttls", "dingtalk", "default", "587", "10m", "60s"}
       \subseteq Classes
  /\ "587" \in Ports /\ "" \notin Ports /\ "default" \in Subjects /\ "" \notin Subjects
  /\ "default" \in Bodies /\ "10m" \in Durations /\ "" \notin Durations
  /\ "60s" \in Intervals /\ Intervals \subseteq Durations
<1>1. /\ {"", "true", "false", "auto-dns", "auto_starttls", "dingtalk"} \subseteq Classes
      /\ "587" \in Ports /\ Ports \subseteq Classes \ {""}
      /\ "default" \in Subjects /\ Subjects \subseteq Classes \ {""}
      /\ "default" \in Bodies /\ Bodies \subseteq Classes
      /\ "10m" \in Durations /\ Durations \subseteq Classes \ {""}
      /\ "60s" \in Intervals /\ Intervals \subseteq Durations
  BY BundleAssumption DEF BundleAssumption
<1> QED
  BY <1>1

-----------------------------------------------------------------------------
(***************************************************************************)
(* Sequences and their order.                                              *)
(***************************************************************************)
LEMMA FiniteRange ==
  ASSUME NEW n \in Nat, NEW S, NEW f \in [1..n -> S]
  PROVE  IsFiniteSet(Range(f)) /\ Range(f) \subseteq S
<1>1. f \in Surjection(1..n, Range(f)) /\ Range(f) \subseteq S
  BY Fun_RangeProperties
<1>2. IsFiniteSet(1..n)
  BY FS_Interval
<1> QED
  BY <1>1, <1>2, FS_Surjection

\* A finite set of numbers can be listed in ascending order: a number comes
\* at the place that counts how many there are up to it.
LEMMA Listing ==
  ASSUME NEW S, IsFiniteSet(S), S \subseteq Nat
  PROVE  \E s \in Bijection(1..Cardinality(S), S) :
           \A i, j \in 1..Cardinality(S) : i < j => s[i] < s[j]
<1> DEFINE n == Cardinality(S)
           UpTo(x) == {y \in S : y <= x}
           rank == [x \in S |-> Cardinality(UpTo(x))]
<1>1. n \in Nat
  BY FS_CardinalityType
<1>2. \A x \in S : IsFiniteSet(UpTo(x)) /\ Cardinality(UpTo(x)) <= n
  BY FS_Subset
<1>3. \A x \in S : Cardinality(UpTo(x)) \in Nat /\ Cardinality(UpTo(x)) # 0
  <2> SUFFICES ASSUME NEW x \in S
               PROVE  Cardinality(UpTo(x)) \in Nat /\ Cardinality(UpTo(x)) # 0
    OBVIOUS
  <2>1. x \in UpTo(x)
    OBVIOUS
  <2> QED
    BY <1>2, <2>1, FS_CardinalityType, FS_EmptySet
<1>4. rank \in [S -> 1..n]
  BY <1>1, <1>2, <1>3
<1>5. ASSUME NEW x \in S, NEW y \in S, x < y
      PROVE  rank[x] < rank[y]
  <2>1. x \in Nat /\ y \in Nat /\ \A z \in S : z \in Nat /\ (z <= x => z <= y)
    BY <1>5
  <2>2. UpTo(x) \in SUBSET UpTo(y) /\ y \in UpTo(y) /\ y \notin UpTo(x)
    <3>1. y <= y /\ ~(y <= x)
      BY <1>5, <2>1
    <3> QED
      BY <2>1, <3>1, Zenon
  <2>3. Cardinality(UpTo(x)) <= Cardinality(UpTo(y)) /\ Cardinality(UpTo(x)) # Cardinality(UpTo(y))
    BY <1>2, <2>2, FS_Subset
  <2>4. Cardinality(UpTo(x)) < Cardinality(UpTo(y))
    BY <1>3, <2>3
  <2> QED
    BY <2>4
<1> HIDE DEF rank
<1>6. \A x, y \in S : rank[x] = rank[y] => x = y
  <2> SUFFICES ASSUME NEW x \in S, NEW y \in S, rank[x] = rank[y] PROVE x = y
    OBVIOUS
  <2>1. rank[x] \in Nat /\ ~(rank[x] < rank[y]) /\ ~(rank[y] < rank[x])
    BY <1>4
  <2> QED
    BY <1>5, <2>1
<1>7. rank \in Injection(S, 1..n)
  BY <1>4, <1>6, Fun_IsInj
<1>8. IsFiniteSet(1..n) /\ Cardinality(1..n) = n
  BY <1>1, FS_Interval
<1>9. rank \in Surjection(S, 1..n)
  BY <1>7, <1>8, FS_Injection
<1>10. rank \in Bijection(S, 1..n)
  BY <1>7, <1>9, Fun_IsBij
<1> DEFINE s == Inverse(rank, S, 1..n)
<1>11. s \in Bijection(1..n, S) /\ \A x \in S : s[rank[x]] = x
  BY <1>10, Fun_BijInverse
<1> HIDE DEF s
<1>12. ASSUME NEW i \in 1..n, NEW j \in 1..n, i < j
       PROVE  s[i] < s[j]
  <2>0. \A k \in 1..n : \E x \in S : rank[x] = k
    BY <1>9 DEF Surjection
  <2>1. PICK x \in S, y \in S : rank[x] = i /\ rank[y] = j
    BY <2>0
  <2>2. s[i] = x /\ s[j] = y
    BY <1>11, <2>1
  <2>3. ~(y < x) /\ x # y
    <3>1. y < x => j < i
      BY <1>5, <2>1
    <3> QED
      BY <1>1, <1>12, <2>1, <3>1
  <2> QED
    BY <2>2, <2>3
<1> QED
  BY <1>11, <1>12

\* The rows of a table, in the order of their keys.
LEMMA InOrderFacts ==
  ASSUME NEW R, IsFiniteSet(R), \A r \in R : r.id \in Nat, \A r, q \in R : r.id = q.id => r = q
  PROVE  InOrder(R) \in Bijection(1..Cardinality(R), R)
<1> DEFINE n == Cardinality(R)
           S == {r.id : r \in R}
           key == [r \in R |-> r.id]
<1>1. key \in [R -> S] /\ \A r, q \in R : key[r] = key[q] => r = q
  OBVIOUS
<1>2. \A x \in S : \E r \in R : key[r] = x
  OBVIOUS
<1>3. key \in Bijection(R, S)
  BY <1>1, <1>2, Fun_IsBij
<1>4. IsFiniteSet(S) /\ Cardinality(S) = n /\ S \subseteq Nat
  BY <1>3, FS_Bijection, Fun_ExistsBij
<1>5. PICK s \in Bijection(1..n, S) : \A i, j \in 1..n : i < j => s[i] < s[j]
  BY <1>4, Listing
<1> DEFINE row == Inverse(key, R, S)
           t == [i \in 1..n |-> row[s[i]]]
<1>6. row \in Bijection(S, R)
  BY <1>3, Fun_BijInverse
<1>7. \A x \in S : key[row[x]] = x
  BY <1>1, <1>3, Fun_InverseProperties, Fun_BijectionProperties, Fun_SurjectionProperties
<1> HIDE DEF row, S
<1>8. t \in Bijection(1..n, R)
  BY <1>5, <1>6, Fun_BijTransitive
<1>9. \A i \in 1..n : s[i] \in S
  BY <1>5 DEF Bijection, Injection
<1>10. \A x \in S : row[x] \in R
  BY <1>6, Fun_BijectionProperties
<1>11. \A i \in 1..n : t[i].id = s[i]
  BY <1>7, <1>9, <1>10
<1>12. \A i, j \in 1..n : i < j => t[i].id < t[j].id
  BY <1>5, <1>11
<1> QED
  BY <1>8, <1>12 DEF InOrder

\* A list without duplicates, in ascending order.
LEMMA AscendingFacts ==
  ASSUME NEW s \in Seq(Nat), IsInjective(s)
  PROVE  /\ Ascending(s) \in Seq(Nat) /\ Len(Ascending(s)) = Len(s)
         /\ IsInjective(Ascending(s)) /\ Range(Ascending(s)) = Range(s)
<1> DEFINE n == Len(s)
           S == Range(s)
<1>1. n \in Nat /\ DOMAIN s = 1..n /\ s \in [1..n -> Nat]
  OBVIOUS
<1>2. s \in Bijection(1..n, S)
  BY <1>1, Fun_IsInj, Fun_InjMeansBijImage DEF IsInjective
<1>3. IsFiniteSet(S) /\ S \subseteq Nat /\ Cardinality(S) = n
  BY <1>1, <1>2, FiniteRange, FS_CountingElements, Fun_ExistsBij
<1>4. PICK b \in Bijection(1..n, S) : \A i, j \in 1..n : i < j => b[i] < b[j]
  BY <1>3, Listing
<1> DEFINE place == Inverse(s, 1..n, S)
           p == [i \in 1..n |-> place[b[i]]]
<1>5. place \in Bijection(S, 1..n) /\ \A x \in S : s[place[x]] = x
  BY <1>1, <1>2, Fun_BijInverse, Fun_InverseProperties
<1> HIDE DEF place, S
<1>6. p \in Bijection(1..n, 1..n)
  BY <1>4, <1>5, Fun_BijTransitive
<1>7. \A i \in 1..n : s[p[i]] = b[i] /\ b[i] \in S
  BY <1>4, <1>5, Fun_BijectionProperties
<1> HIDE DEF p
<1>8. ASSUME NEW i \in 1..n, NEW j \in 1..n, i < j PROVE s[p[i]] <= s[p[j]]
  <2>1. b[i] < b[j] /\ b[i] \in Nat /\ b[j] \in Nat
    BY <1>3, <1>4, <1>7, <1>8
  <2> QED
    BY <1>7, <2>1
<1> DEFINE order == CHOOSE q \in Bijection(DOMAIN s, DOMAIN s) :
                      \A i, j \in DOMAIN s : i < j => s[q[i]] <= s[q[j]]
<1>9. order \in Bijection(1..n, 1..n)
  BY <1>1, <1>6, <1>8
<1> HIDE DEF order
<1>10. Ascending(s) = [i \in 1..n |-> s[order[i]]]
  BY <1>1 DEF Ascending, order
<1> DEFINE t == [i \in 1..n |-> s[order[i]]]
<1>11. t \in Bijection(1..n, S)
  BY <1>2, <1>9, Fun_BijTransitive
<1> HIDE DEF t
<1>12. t \in [1..n -> Nat]
  BY <1>3, <1>11 DEF Bijection, Injection
<1>13. IsInjective(t)
  BY <1>11 DEF Bijection, Injection
<1>14. Range(t) = S
  BY <1>11, Fun_BijectionProperties, Fun_SurjectionProperties
<1>15. t \in Seq(Nat) /\ Len(t) = n
  BY <1>1, <1>12
<1> QED
  BY <1>10, <1>13, <1>14, <1>15 DEF S, t

-----------------------------------------------------------------------------
(***************************************************************************)
(* What the statements of a request make of a database.                    *)
(***************************************************************************)
\* A database with other rules or other targets is a database.
LEMMA OtherRows ==
  ASSUME NEW d \in Databases, NEW R \in SUBSET RuleRows, NEW T \in SUBSET TargetRows, NEW n \in Nat
  PROVE  /\ [d EXCEPT !.rules = R] \in Databases
         /\ [d EXCEPT !.targets = T] \in Databases
         /\ [d EXCEPT !.rules = R, !.ruleSeq = n] \in Databases
         /\ [d EXCEPT !.targets = T, !.targetSeq = n] \in Databases
<1>1. [d EXCEPT !.rules = R] \in Databases /\ [d EXCEPT !.targets = T] \in Databases
  BY DEF Databases
<1>2. /\ [[d EXCEPT !.rules = R] EXCEPT !.ruleSeq = n] \in Databases
      /\ [[d EXCEPT !.targets = T] EXCEPT !.targetSeq = n] \in Databases
  BY <1>1 DEF Databases
<1>3. /\ [[d EXCEPT !.rules = R] EXCEPT !.ruleSeq = n] = [d EXCEPT !.rules = R, !.ruleSeq = n]
      /\ [[d EXCEPT !.targets = T] EXCEPT !.targetSeq = n] = [d EXCEPT !.targets = T, !.targetSeq = n]
  BY DEF Databases
<1> QED
  BY <1>1, <1>2, <1>3

\* The lists of targets that a rule is given.
TargetList(refs) == refs \in Seq(Nat) /\ IsInjective(refs)

LEMMA NewRuleKeeps ==
  ASSUME NEW d, Database(d), NEW h \in Hosts, NEW refs, TargetList(refs)
  PROVE  Database(NewRule(d, h, Ids(refs)))
<1> DEFINE r == [id |-> d.ruleSeq + 1, host |-> h, targets |-> Ids(refs)]
           e == NewRule(d, h, Ids(refs))
<1>1. Ids(refs) \in RefColumns /\ Refs(Ids(refs)) = refs
  BY DEF Ids, Refs, RefColumns, TargetList
<1>2. r \in RuleRows
  BY <1>1 DEF RuleRows, Database, Databases
<1>3. e = [d EXCEPT !.rules = @ \union {r}, !.ruleSeq = @ + 1]
  BY DEF NewRule
<1>4. r.id = d.ruleSeq + 1 /\ Refs(r.targets) = refs
  BY <1>1
<1> HIDE DEF r, e
<1>5. e \in Databases
  <2>1. d \in Databases /\ d.rules \union {r} \in SUBSET RuleRows /\ d.ruleSeq + 1 \in Nat
    BY <1>2 DEF Database, Databases
  <2> QED
    BY <1>3, <2>1, OtherRows
<1>6. /\ e.rules = d.rules \union {r} /\ e.ruleSeq = d.ruleSeq + 1
      /\ e.targets = d.targets /\ e.targetSeq = d.targetSeq
  BY <1>3 DEF Database, Databases
<1>7. IsFiniteSet(e.rules)
  BY <1>6, FS_AddElement DEF Database, Keyed
<1>8. d.ruleSeq \in Nat /\ \A q \in d.rules : q.id \in Nat
  BY DEF Database, Databases, RuleRows
<1>9. Keyed(e)
  BY <1>4, <1>6, <1>7, <1>8 DEF Database, Keyed, TargetList
<1> QED
  BY <1>5, <1>9 DEF Database, e

LEMMA NewTargetKeeps ==
  ASSUME NEW d, Database(d), NEW p \in Places
  PROVE  Database(NewTarget(d, p))
<1> DEFINE t == [id |-> d.targetSeq + 1, place |-> p]
           e == NewTarget(d, p)
<1>1. e = [d EXCEPT !.targets = @ \union {t}, !.targetSeq = @ + 1]
  BY DEF NewTarget
<1>2. t \in TargetRows /\ t.id = d.targetSeq + 1
  BY DEF TargetRows, Database, Databases
<1> HIDE DEF t, e
<1>3. e \in Databases
  <2>1. d \in Databases /\ d.targets \union {t} \in SUBSET TargetRows /\ d.targetSeq + 1 \in Nat
    BY <1>2 DEF Database, Databases
  <2> QED
    BY <1>1, <2>1, OtherRows
<1>4. /\ e.targets = d.targets \union {t} /\ e.targetSeq = d.targetSeq + 1
      /\ e.rules = d.rules /\ e.ruleSeq = d.ruleSeq
  BY <1>1 DEF Database, Databases
<1>5. IsFiniteSet(e.targets)
  BY <1>4, FS_AddElement DEF Database, Keyed
<1>6. d.targetSeq \in Nat /\ \A u \in d.targets : u.id \in Nat
  BY DEF Database, Databases, TargetRows
<1>7. Keyed(e)
  BY <1>2, <1>4, <1>5, <1>6 DEF Database, Keyed
<1> QED
  BY <1>3, <1>7 DEF Database, e

\* Rules or targets that are taken away leave a database.
LEMMA FewerKeep ==
  ASSUME NEW d, Database(d), NEW R \in SUBSET d.rules, NEW T \in SUBSET d.targets
  PROVE  Database([d EXCEPT !.rules = R, !.targets = T])
<1>1. IsFiniteSet(R) /\ IsFiniteSet(T)
  BY FS_Subset DEF Database, Keyed
<1> QED
  BY <1>1 DEF Database, Databases, Keyed

LEMMA OtherRuleKeeps ==
  ASSUME NEW d, Database(d), NEW n \in Nat \ {0}, n <= d.ruleSeq, NEW h \in Hosts,
         NEW refs, TargetList(refs)
  PROVE  Database([d EXCEPT !.rules = {r \in @ : r.id # n} \union
                                        {[id |-> n, host |-> h, targets |-> Ids(refs)]}])
<1> DEFINE q == [id |-> n, host |-> h, targets |-> Ids(refs)]
           R == {r \in d.rules : r.id # n}
           e == [d EXCEPT !.rules = R \union {q}]
<1>1. Ids(refs) \in RefColumns /\ Refs(Ids(refs)) = refs
  BY DEF Ids, Refs, RefColumns, TargetList
<1>2. q \in RuleRows /\ q.id = n /\ Refs(q.targets) = refs
  BY <1>1 DEF RuleRows
<1>3. R \in SUBSET d.rules /\ IsFiniteSet(R) /\ \A r \in R : r.id # n
  BY FS_Subset DEF Database, Keyed
<1> HIDE DEF q, R
<1>4. d \in Databases /\ R \union {q} \in SUBSET RuleRows
  BY <1>2, <1>3 DEF Database, Databases
<1>5. e \in Databases
  BY <1>4, OtherRows
<1>6. /\ e.rules = R \union {q} /\ e.ruleSeq = d.ruleSeq
      /\ e.targets = d.targets /\ e.targetSeq = d.targetSeq
  BY <1>4 DEF Databases
<1> HIDE DEF e
<1>7. IsFiniteSet(e.rules)
  BY <1>3, <1>6, FS_AddElement
<1>8. Keyed(e)
  BY <1>2, <1>3, <1>6, <1>7 DEF Database, Keyed, TargetList
<1> QED
  BY <1>5, <1>8 DEF Database, e, q, R

\* The four single rows may be any alerts.
LEMMA SaveRowKeeps ==
  ASSUME NEW d, Database(d), NEW row \in SingleRows, NEW a \in AlertForms
  PROVE  /\ Database(SaveRow(d, row, a[row]))
         /\ SaveRow(d, row, a[row]).rules = d.rules /\ SaveRow(d, row, a[row]).targets = d.targets
         /\ SaveRow(d, row, a[row]).ruleSeq = d.ruleSeq /\ SaveRow(d, row, a[row]).targetSeq = d.targetSeq
         /\ SaveRow(d, row, a[row]).settings = d.settings /\ SaveRow(d, row, a[row]).columns = d.columns
         /\ SaveRow(d, row, a[row]).rows = d.rows \union {row}
         /\ SaveRow(d, row, a[row]).alerts = [d.alerts EXCEPT ![row] = a[row]]
<1> DEFINE b == [d.alerts EXCEPT ![row] = a[row]]
           e == SaveRow(d, row, a[row])
<1>1. d \in Databases /\ d.alerts \in AlertForms
  BY DEF Database, Databases
<1>2. b \in AlertForms
  BY <1>1, Names DEF AlertForms
<1>3. e = [d EXCEPT !.rows = @ \union {row}, !.alerts = b]
  BY DEF SaveRow
<1> HIDE DEF b, e
<1>4. /\ e.rules = d.rules /\ e.targets = d.targets /\ e.ruleSeq = d.ruleSeq
      /\ e.targetSeq = d.targetSeq /\ e.settings = d.settings /\ e.columns = d.columns
      /\ e.rows = d.rows \union {row} /\ e.alerts = b
  BY <1>1, <1>3 DEF Databases
<1>5. e \in Databases
  <2>1. [d EXCEPT !.rows = @ \union {row}] \in Databases
    BY <1>1 DEF Databases
  <2>2. [[d EXCEPT !.rows = @ \union {row}] EXCEPT !.alerts = b] \in Databases
    BY <1>2, <2>1 DEF Databases
  <2>3. [[d EXCEPT !.rows = @ \union {row}] EXCEPT !.alerts = b] = e
    BY <1>1, <1>3 DEF Databases
  <2> QED
    BY <2>2, <2>3
<1>6. Keyed(e)
  BY <1>4 DEF Database, Keyed
<1> QED
  BY <1>4, <1>5, <1>6 DEF Database, b, e

LEMMA SettingKeeps ==
  ASSUME NEW d, Database(d), NEW k \in SettingKeys, NEW v \in Classes
  PROVE  /\ Database([d EXCEPT !.settings = [@ EXCEPT ![k] = v]])
         /\ [d EXCEPT !.settings = [@ EXCEPT ![k] = v]].alerts = d.alerts
         /\ [d EXCEPT !.settings = [@ EXCEPT ![k] = v]].rows = d.rows
         /\ [d EXCEPT !.settings = [@ EXCEPT ![k] = v]].columns = d.columns
         /\ [d EXCEPT !.settings = [@ EXCEPT ![k] = v]].rules = d.rules
         /\ [d EXCEPT !.settings = [@ EXCEPT ![k] = v]].targets = d.targets
         /\ [d EXCEPT !.settings = [@ EXCEPT ![k] = v]].ruleSeq = d.ruleSeq
         /\ [d EXCEPT !.settings = [@ EXCEPT ![k] = v]].targetSeq = d.targetSeq
         /\ [d EXCEPT !.settings = [@ EXCEPT ![k] = v]].settings = [d.settings EXCEPT ![k] = v]
<1> DEFINE s == [d.settings EXCEPT ![k] = v]
           e == [d EXCEPT !.settings = s]
<1>1. d \in Databases /\ d.settings \in [SettingKeys -> Classes \union {Absent}]
  BY DEF Database, Databases
<1>2. s \in [SettingKeys -> Classes \union {Absent}]
  BY <1>1
<1> HIDE DEF s
<1>3. e \in Databases
  BY <1>1, <1>2 DEF Databases
<1>4. /\ e.rules = d.rules /\ e.targets = d.targets /\ e.ruleSeq = d.ruleSeq
      /\ e.targetSeq = d.targetSeq /\ e.settings = s /\ e.columns = d.columns
      /\ e.rows = d.rows /\ e.alerts = d.alerts
  BY <1>1 DEF Databases
<1> HIDE DEF e
<1>5. Keyed(e)
  BY <1>4 DEF Database, Keyed
<1> QED
  BY <1>3, <1>4, <1>5 DEF Database, e, s

LEMMA ClearedKeeps ==
  ASSUME NEW d, Database(d)
  PROVE  /\ Database(Cleared(d))
         /\ Cleared(d).rules = {} /\ Cleared(d).targets = {} /\ Cleared(d).rows = {}
         /\ Cleared(d).ruleSeq = d.ruleSeq /\ Cleared(d).targetSeq = d.targetSeq
         /\ Cleared(d).settings = NoSettings /\ Cleared(d).columns = d.columns
         /\ Cleared(d).alerts = d.alerts
<1> DEFINE e == Cleared(d)
<1>1. d \in Databases /\ NoSettings \in [SettingKeys -> Classes \union {Absent}]
  BY DEF Database, NoSettings
<1>2. e = [[[[d EXCEPT !.targets = {}] EXCEPT !.rules = {}] EXCEPT !.settings = NoSettings]
             EXCEPT !.rows = {}]
  BY <1>1 DEF Databases, Cleared
<1>3. [d EXCEPT !.targets = {}] \in Databases
  BY <1>1, OtherRows
<1>4. [[d EXCEPT !.targets = {}] EXCEPT !.rules = {}] \in Databases
  BY <1>3, OtherRows
<1>5. [[[d EXCEPT !.targets = {}] EXCEPT !.rules = {}] EXCEPT !.settings = NoSettings] \in Databases
  BY <1>1, <1>4 DEF Databases
<1>6. e \in Databases
  BY <1>2, <1>5 DEF Databases
<1>7. /\ e.rules = {} /\ e.targets = {} /\ e.rows = {}
      /\ e.ruleSeq = d.ruleSeq /\ e.targetSeq = d.targetSeq
      /\ e.settings = NoSettings /\ e.columns = d.columns /\ e.alerts = d.alerts
  BY <1>1 DEF Cleared, Databases
<1> HIDE DEF e
<1>8. Keyed(e)
  BY <1>7, FS_EmptySet DEF Keyed
<1> QED
  BY <1>6, <1>7, <1>8 DEF Database, e

\* The four rows are there again, those that were there as they were.
LEMMA DefaultRowsKeep ==
  ASSUME NEW d, Database(d)
  PROVE  /\ Database(DefaultRows(d))
         /\ DefaultRows(d).rules = d.rules /\ DefaultRows(d).targets = d.targets
         /\ DefaultRows(d).ruleSeq = d.ruleSeq /\ DefaultRows(d).targetSeq = d.targetSeq
         /\ DefaultRows(d).settings = d.settings /\ DefaultRows(d).columns = d.columns
         /\ DefaultRows(d).rows = SingleRows
         /\ DefaultRows(d).alerts.email = IF "email" \in d.rows THEN d.alerts.email ELSE DefaultEmail
         /\ DefaultRows(d).alerts.webhook = IF "webhook" \in d.rows THEN d.alerts.webhook ELSE ZeroWebhook
         /\ DefaultRows(d).alerts.policy = IF "policy" \in d.rows THEN d.alerts.policy ELSE "10m"
         /\ DefaultRows(d).alerts.push = IF "push" \in d.rows THEN d.alerts.push ELSE DefaultPush
<1> DEFINE a == [email   |-> IF "email" \in d.rows THEN d.alerts.email ELSE DefaultEmail,
                 webhook |-> IF "webhook" \in d.rows THEN d.alerts.webhook ELSE ZeroWebhook,
                 policy  |-> IF "policy" \in d.rows THEN d.alerts.policy ELSE "10m",
                 push    |-> IF "push" \in d.rows THEN d.alerts.push ELSE DefaultPush]
           e == DefaultRows(d)
<1>1. d \in Databases /\ d.alerts \in AlertForms
  BY DEF Database, Databases
<1>2. DefaultEmail \in Emails /\ ZeroWebhook \in Webhooks /\ DefaultPush \in Pushes
  BY LegalTexts DEF DefaultEmail, Emails, ZeroWebhook, Webhooks, DefaultPush, Pushes
<1>3. "10m" \in Classes
  BY LegalTexts
<1>4. a \in AlertForms
  BY <1>1, <1>2, <1>3 DEF AlertForms
<1>5. e = [d EXCEPT !.rows = SingleRows, !.alerts = a]
  BY DEF DefaultRows
<1> HIDE DEF a, e
<1>6. [d EXCEPT !.rows = SingleRows] \in Databases
  BY <1>1 DEF Databases
<1>7. [[d EXCEPT !.rows = SingleRows] EXCEPT !.alerts = a] \in Databases
  BY <1>4, <1>6 DEF Databases
<1>8. [[d EXCEPT !.rows = SingleRows] EXCEPT !.alerts = a] = e
  BY <1>1, <1>5 DEF Databases
<1>9. /\ e.rules = d.rules /\ e.targets = d.targets /\ e.ruleSeq = d.ruleSeq
      /\ e.targetSeq = d.targetSeq /\ e.settings = d.settings /\ e.columns = d.columns
      /\ e.rows = SingleRows /\ e.alerts = a
  BY <1>1, <1>5 DEF Databases
<1>10. Keyed(e)
  BY <1>9 DEF Database, Keyed
<1>11. /\ a.email = IF "email" \in d.rows THEN d.alerts.email ELSE DefaultEmail
       /\ a.webhook = IF "webhook" \in d.rows THEN d.alerts.webhook ELSE ZeroWebhook
       /\ a.policy = IF "policy" \in d.rows THEN d.alerts.policy ELSE "10m"
       /\ a.push = IF "push" \in d.rows THEN d.alerts.push ELSE DefaultPush
  BY DEF a
<1> QED
  BY <1>7, <1>8, <1>9, <1>10, <1>11 DEF Database, e

-----------------------------------------------------------------------------
(***************************************************************************)
(* An import.                                                              *)
(***************************************************************************)
LEMMA WireFacts ==
  ASSUME NEW w \in Bundles
  PROVE  /\ w.targets.Values \in Seq(WireTargets) /\ w.rules.Values \in Seq(WireRules)
         /\ \A j \in DOMAIN w.targets.Values :
              w.targets.Values[j].export_id \in Nat /\ w.targets.Values[j].place \in Places
         /\ \A i \in DOMAIN w.rules.Values :
              /\ w.rules.Values[i].host \in Hosts /\ w.rules.Values[i].refs.Values \in Seq(Nat)
              /\ w.rules.Values[i].refs = [Values   |-> w.rules.Values[i].refs.Values,
                                           Provided |-> w.rules.Values[i].refs.Provided]
<1>1. w.targets.Values \in Seq(WireTargets) /\ w.rules.Values \in Seq(WireRules)
  BY DEF Bundles, Presence
<1>2. \A j \in DOMAIN w.targets.Values : w.targets.Values[j] \in WireTargets
  BY <1>1
<1>3. \A i \in DOMAIN w.rules.Values : w.rules.Values[i] \in WireRules
  BY <1>1
<1>4. \A r \in WireRules :
        /\ r.host \in Hosts /\ r.refs.Values \in Seq(Nat)
        /\ r.refs = [Values |-> r.refs.Values, Provided |-> r.refs.Provided]
  BY DEF WireRules, Presence
<1>5. \A t \in WireTargets : t.export_id \in Nat /\ t.place \in Places
  BY DEF WireTargets
<1> QED
  BY <1>1, <1>2, <1>3, <1>4, <1>5

LEMMA AcceptsFacts ==
  ASSUME NEW w \in Bundles, Accepts(w)
  PROVE  /\ \A i, j \in DOMAIN w.targets.Values :
              w.targets.Values[i].export_id = w.targets.Values[j].export_id => i = j
         /\ \A i \in DOMAIN w.rules.Values :
              /\ w.rules.Values[i].refs.Provided = TRUE
              /\ TargetList(w.rules.Values[i].refs.Values)
              /\ \A x \in Range(w.rules.Values[i].refs.Values) :
                   \E j \in DOMAIN w.targets.Values : w.targets.Values[j].export_id = x
<1> DEFINE T == w.targets.Values
           R == w.rules.Values
           ids == [i \in DOMAIN T |-> T[i].export_id]
<1>1. /\ IsInjective(ids)
      /\ \A i \in DOMAIN R : Range(R[i].refs.Values) \subseteq Range(ids) /\ IsInjective(R[i].refs.Values)
      /\ \A i \in DOMAIN R : R[i].refs.Provided
  BY DEF Accepts, Present
<1>2. \A i \in DOMAIN R : R[i].refs.Provided \in BOOLEAN
  <2>1. \A r \in WireRules : r.refs.Provided \in BOOLEAN
    BY DEF WireRules, Presence
  <2>2. \A i \in DOMAIN R : R[i] \in WireRules
    BY WireFacts
  <2> QED
    BY <2>1, <2>2
<1>3. \A i, j \in DOMAIN T : T[i].export_id = T[j].export_id => i = j
  BY <1>1 DEF IsInjective
<1>4. \A x \in Range(ids) : \E j \in DOMAIN T : T[j].export_id = x
  BY DEF Range
<1>5. \A i \in DOMAIN R : R[i].refs.Values \in Seq(Nat)
  BY WireFacts
<1> QED
  BY <1>1, <1>2, <1>3, <1>4, <1>5 DEF TargetList

\* The rows an import adds.
AddedTargets(w, d) ==
  {[id |-> d.targetSeq + i, place |-> w.targets.Values[i].place] : i \in DOMAIN w.targets.Values}
AddedRules(w, d) ==
  {[id |-> d.ruleSeq + i, host |-> w.rules.Values[i].host,
    targets |-> Ids(Remap(w, d, w.rules.Values[i].refs.Values))] : i \in DOMAIN w.rules.Values}

\* The targets of the bundle have the ids after the last one ever given.
LEMMA InsertTargetsKeeps ==
  ASSUME NEW d, Database(d), NEW w \in Bundles, NEW e, e = InsertTargets(w, d)
  PROVE  /\ Database(e)
         /\ e.targetSeq = d.targetSeq + Len(w.targets.Values)
         /\ e.targets = d.targets \union AddedTargets(w, d)
         /\ e.rules = d.rules /\ e.ruleSeq = d.ruleSeq /\ e.settings = d.settings
         /\ e.columns = d.columns /\ e.rows = d.rows /\ e.alerts = d.alerts
<1> DEFINE T == w.targets.Values
           n == Len(T)
           new == [i \in 1..n |-> [id |-> d.targetSeq + i, place |-> T[i].place]]
<1>1. T \in Seq(WireTargets)
  BY WireFacts
<1>2. n \in Nat /\ DOMAIN T = 1..n /\ \A i \in 1..n : T[i].place \in Places
  BY <1>1, WireFacts
<1>3. d \in Databases /\ d.targetSeq \in Nat /\ d.targets \in SUBSET TargetRows
  BY DEF Database, Databases
<1>4. new \in [1..n -> TargetRows]
  BY <1>2, <1>3 DEF TargetRows
<1>5. IsFiniteSet(Range(new)) /\ Range(new) \subseteq TargetRows
  BY <1>2, <1>4, FiniteRange
<1>6. Range(new) = {[id |-> d.targetSeq + i, place |-> T[i].place] : i \in DOMAIN T}
  BY <1>2 DEF Range
<1>7. e = [d EXCEPT !.targets = @ \union Range(new), !.targetSeq = @ + n]
  BY <1>6 DEF InsertTargets
<1>8. \A t \in Range(new) : \E i \in 1..n : t = [id |-> d.targetSeq + i, place |-> T[i].place]
  BY <1>2, <1>6
<1> HIDE DEF new, T
<1>9. d.targets \union Range(new) \in SUBSET TargetRows /\ d.targetSeq + n \in Nat
  BY <1>2, <1>3, <1>5
<1>10. e \in Databases
  <2>1. [d EXCEPT !.targets = d.targets \union Range(new), !.targetSeq = d.targetSeq + n] \in Databases
    BY <1>3, <1>9, OtherRows
  <2>2. e = [d EXCEPT !.targets = d.targets \union Range(new), !.targetSeq = d.targetSeq + n]
    BY <1>7
  <2> QED
    BY <2>1, <2>2
<1>11. /\ e.targets = d.targets \union Range(new) /\ e.targetSeq = d.targetSeq + n
       /\ e.rules = d.rules /\ e.ruleSeq = d.ruleSeq /\ e.settings = d.settings
       /\ e.columns = d.columns /\ e.rows = d.rows /\ e.alerts = d.alerts
  BY <1>3, <1>7 DEF Databases
<1>12. IsFiniteSet(e.targets)
  <2>1. IsFiniteSet(d.targets)
    BY DEF Database, Keyed
  <2> QED
    BY <1>5, <1>11, <2>1, FS_Union
<1>13. \A t \in Range(new) : t.id \in Nat /\ t.id > d.targetSeq /\ t.id <= d.targetSeq + n
  BY <1>2, <1>3, <1>8
<1>14. \A t, u \in Range(new) : t.id = u.id => t = u
  <2> SUFFICES ASSUME NEW t \in Range(new), NEW u \in Range(new), t.id = u.id PROVE t = u
    OBVIOUS
  <2>1. PICK i \in 1..n : t = [id |-> d.targetSeq + i, place |-> T[i].place]
    BY <1>8
  <2>2. PICK j \in 1..n : u = [id |-> d.targetSeq + j, place |-> T[j].place]
    BY <1>8
  <2>3. i = j
    BY <1>2, <1>3, <2>1, <2>2
  <2> QED
    BY <2>1, <2>2, <2>3
<1>15. \A t \in d.targets : t.id \in Nat /\ t.id <= d.targetSeq
  BY <1>3 DEF Database, Keyed, TargetRows
<1>16. Keyed(e)
  <2>1. \A t \in e.targets : t.id <= e.targetSeq
    BY <1>2, <1>3, <1>11, <1>13, <1>15
  <2>2. \A t, u \in e.targets : t.id = u.id => t = u
    BY <1>3, <1>11, <1>13, <1>14, <1>15 DEF Database, Keyed
  <2> QED
    BY <1>11, <1>12, <2>1, <2>2 DEF Database, Keyed
<1> QED
  BY <1>6, <1>10, <1>11, <1>16 DEF Database, T, AddedTargets

\* The new ids of the references: those of the same targets.
LEMMA RemapFacts ==
  ASSUME NEW d, Database(d), NEW w \in Bundles, Accepts(w), Len(w.targets.Values) <= d.targetSeq,
         NEW i \in DOMAIN w.rules.Values
  PROVE  LET T == w.targets.Values
             refs == w.rules.Values[i].refs.Values
             base == d.targetSeq - Len(T)
         IN /\ TargetList(Remap(w, d, refs)) /\ Len(Remap(w, d, refs)) = Len(refs)
            /\ base \in Nat
            /\ \A k \in DOMAIN refs : \E j \in DOMAIN T :
                 T[j].export_id = refs[k] /\ Remap(w, d, refs)[k] = base + j
<1> DEFINE T == w.targets.Values
           refs == w.rules.Values[i].refs.Values
           base == d.targetSeq - Len(T)
           m == Remap(w, d, refs)
           index(x) == CHOOSE j \in DOMAIN T : T[j].export_id = x
<1>1. /\ T \in Seq(WireTargets) /\ TargetList(refs)
      /\ \A x \in Range(refs) : \E j \in DOMAIN T : T[j].export_id = x
  BY WireFacts, AcceptsFacts
<1>2. base \in Nat /\ Len(T) \in Nat /\ DOMAIN T = 1..Len(T)
  BY <1>1 DEF Database, Databases
<1>3. refs \in Seq(Nat) /\ Len(refs) \in Nat /\ DOMAIN refs = 1..Len(refs) /\ IsInjective(refs)
  BY <1>1 DEF TargetList
<1>4. \A k \in DOMAIN refs : index(refs[k]) \in DOMAIN T /\ T[index(refs[k])].export_id = refs[k]
  BY <1>1 DEF Range
<1>5. m = [k \in DOMAIN refs |-> base + index(refs[k])]
  BY DEF Remap, NewId
<1> HIDE DEF index, T, refs, base, m
<1>6. \A k \in DOMAIN refs : m[k] = base + index(refs[k]) /\ m[k] \in Nat
  BY <1>2, <1>4, <1>5
<1>7. m \in [1..Len(refs) -> Nat]
  BY <1>3, <1>5, <1>6
<1>8. m \in Seq(Nat) /\ Len(m) = Len(refs) /\ DOMAIN m = DOMAIN refs
  BY <1>3, <1>7
<1>9. \A a, b \in DOMAIN refs : m[a] = m[b] => a = b
  <2> SUFFICES ASSUME NEW a \in DOMAIN refs, NEW b \in DOMAIN refs, m[a] = m[b] PROVE a = b
    OBVIOUS
  <2>1. index(refs[a]) = index(refs[b])
    BY <1>2, <1>4, <1>6
  <2>2. refs[a] = refs[b]
    BY <1>4, <2>1
  <2> QED
    BY <1>3, <2>2 DEF IsInjective
<1>10. TargetList(m)
  BY <1>8, <1>9 DEF TargetList, IsInjective
<1>11. \A k \in DOMAIN refs : \E j \in DOMAIN T : T[j].export_id = refs[k] /\ m[k] = base + j
  BY <1>4, <1>6
<1> QED
  BY <1>2, <1>8, <1>10, <1>11 DEF T, refs, base, m

\* The rules of the bundle have the ids after the last one ever given, and
\* refer to the new ids of their targets.
LEMMA InsertRulesKeeps ==
  ASSUME NEW d, Database(d), NEW w \in Bundles, Accepts(w), Len(w.targets.Values) <= d.targetSeq,
         NEW e, e = InsertRules(w, d)
  PROVE  /\ Database(e)
         /\ e.ruleSeq = d.ruleSeq + Len(w.rules.Values)
         /\ e.rules = d.rules \union AddedRules(w, d)
         /\ e.targets = d.targets /\ e.targetSeq = d.targetSeq /\ e.settings = d.settings
         /\ e.columns = d.columns /\ e.rows = d.rows /\ e.alerts = d.alerts
<1> DEFINE R == w.rules.Values
           n == Len(R)
           column(i) == Ids(Remap(w, d, R[i].refs.Values))
           new == [i \in 1..n |-> [id |-> d.ruleSeq + i, host |-> R[i].host, targets |-> column(i)]]
<1>1. R \in Seq(WireRules)
  BY WireFacts
<1>2. n \in Nat /\ DOMAIN R = 1..n /\ \A i \in 1..n : R[i].host \in Hosts
  <2>1. n \in Nat /\ DOMAIN R = 1..n
    BY <1>1
  <2>2. \A i \in DOMAIN R : R[i].host \in Hosts
    BY WireFacts
  <2> QED
    BY <2>1, <2>2
<1>3. d \in Databases /\ d.ruleSeq \in Nat /\ d.rules \in SUBSET RuleRows
  BY DEF Database, Databases
<1>4. \A i \in 1..n : TargetList(Remap(w, d, R[i].refs.Values))
  BY <1>2, RemapFacts
<1>5. \A i \in 1..n : column(i) \in RefColumns /\ IsInjective(Refs(column(i)))
  BY <1>4 DEF Ids, Refs, RefColumns, TargetList
<1> HIDE DEF column, R
<1>6. new \in [1..n -> RuleRows]
  BY <1>2, <1>3, <1>5 DEF RuleRows
<1>7. IsFiniteSet(Range(new)) /\ Range(new) \subseteq RuleRows
  BY <1>2, <1>6, FiniteRange
<1>8. Range(new) = {[id |-> d.ruleSeq + i, host |-> R[i].host, targets |-> column(i)] : i \in DOMAIN R}
  BY <1>2 DEF Range
<1>9. e = [d EXCEPT !.rules = @ \union Range(new), !.ruleSeq = @ + n]
  BY <1>8 DEF InsertRules, column, R
<1>10. \A r \in Range(new) : \E i \in 1..n :
         r = [id |-> d.ruleSeq + i, host |-> R[i].host, targets |-> column(i)]
  BY <1>2, <1>8
<1> HIDE DEF new
<1>11. d.rules \union Range(new) \in SUBSET RuleRows /\ d.ruleSeq + n \in Nat
  BY <1>2, <1>3, <1>7
<1>12. e \in Databases
  <2>1. [d EXCEPT !.rules = d.rules \union Range(new), !.ruleSeq = d.ruleSeq + n] \in Databases
    BY <1>3, <1>11, OtherRows
  <2>2. e = [d EXCEPT !.rules = d.rules \union Range(new), !.ruleSeq = d.ruleSeq + n]
    BY <1>9
  <2> QED
    BY <2>1, <2>2
<1>13. /\ e.rules = d.rules \union Range(new) /\ e.ruleSeq = d.ruleSeq + n
       /\ e.targets = d.targets /\ e.targetSeq = d.targetSeq /\ e.settings = d.settings
       /\ e.columns = d.columns /\ e.rows = d.rows /\ e.alerts = d.alerts
  BY <1>3, <1>9 DEF Databases
<1>14. IsFiniteSet(e.rules)
  <2>1. IsFiniteSet(d.rules)
    BY DEF Database, Keyed
  <2> QED
    BY <1>7, <1>13, <2>1, FS_Union
<1>15. \A r \in Range(new) : /\ r.id \in Nat /\ r.id > d.ruleSeq /\ r.id <= d.ruleSeq + n
                             /\ IsInjective(Refs(r.targets))
  <2> SUFFICES ASSUME NEW r \in Range(new)
               PROVE  /\ r.id \in Nat /\ r.id > d.ruleSeq /\ r.id <= d.ruleSeq + n
                      /\ IsInjective(Refs(r.targets))
    OBVIOUS
  <2>1. PICK i \in 1..n : r = [id |-> d.ruleSeq + i, host |-> R[i].host, targets |-> column(i)]
    BY <1>10
  <2>2. r.id = d.ruleSeq + i /\ r.targets = column(i)
    BY <2>1
  <2> QED
    BY <1>2, <1>3, <1>5, <2>2
<1>16. \A r, q \in Range(new) : r.id = q.id => r = q
  <2> SUFFICES ASSUME NEW r \in Range(new), NEW q \in Range(new), r.id = q.id PROVE r = q
    OBVIOUS
  <2>1. PICK i \in 1..n : r = [id |-> d.ruleSeq + i, host |-> R[i].host, targets |-> column(i)]
    BY <1>10
  <2>2. PICK j \in 1..n : q = [id |-> d.ruleSeq + j, host |-> R[j].host, targets |-> column(j)]
    BY <1>10
  <2>3. i = j
    BY <1>2, <1>3, <2>1, <2>2
  <2> QED
    BY <2>1, <2>2, <2>3
<1>17. \A r \in d.rules : r.id \in Nat /\ r.id <= d.ruleSeq
  BY <1>3 DEF Database, Keyed, RuleRows
<1>18. Keyed(e)
  <2>1. \A r \in e.rules : r.id <= e.ruleSeq
    BY <1>2, <1>3, <1>13, <1>15, <1>17
  <2>2. \A r \in e.rules : IsInjective(Refs(r.targets))
    BY <1>13, <1>15 DEF Database, Keyed
  <2>3. \A r, q \in e.rules : r.id = q.id => r = q
    BY <1>3, <1>13, <1>15, <1>16, <1>17 DEF Database, Keyed
  <2> QED
    BY <1>13, <1>14, <2>1, <2>2, <2>3 DEF Database, Keyed
<1>19. Range(new) = AddedRules(w, d)
  BY <1>8 DEF AddedRules, R, column
<1>20. e.ruleSeq = d.ruleSeq + Len(w.rules.Values)
  BY <1>13 DEF R
<1> QED
  BY <1>12, <1>13, <1>18, <1>19, <1>20 DEF Database

-----------------------------------------------------------------------------
(***************************************************************************)
(* Scripts of statements.                                                  *)
(***************************************************************************)
\* What is left of a script from its k-th statement on.
Rest(script, k) == SubSeq(script, k, Len(script))

LEMMA RestFacts ==
  ASSUME NEW S, NEW script \in Seq(S)
  PROVE  /\ Rest(script, 1) = script
         /\ \A k \in 1..Len(script) :
              /\ Rest(script, k) # <<>> /\ Head(Rest(script, k)) = script[k]
              /\ Tail(Rest(script, k)) = Rest(script, k + 1)
         /\ Rest(script, Len(script) + 1) = <<>>
<1>1. Rest(script, 1) = script
  BY DEF Rest
<1>2. Rest(script, Len(script) + 1) = <<>>
  BY DEF Rest
<1>3. ASSUME NEW k \in 1..Len(script)
      PROVE  /\ Rest(script, k) # <<>> /\ Head(Rest(script, k)) = script[k]
             /\ Tail(Rest(script, k)) = Rest(script, k + 1)
  <2> DEFINE n == Len(script)
  <2>1. n \in Nat /\ Rest(script, k) = [i \in 1..(n - k + 1) |-> script[i + k - 1]]
    BY DEF Rest
  <2>2. /\ Rest(script, k) \in Seq(S) /\ Len(Rest(script, k)) = n - k + 1
        /\ Rest(script, k)[1] = script[k]
    BY <2>1
  <2>3. Rest(script, k + 1) \in Seq(S) /\ Len(Rest(script, k + 1)) = n - k
    BY <2>1 DEF Rest
  <2> DEFINE s == Rest(script, k)
  <2>a. s \in Seq(S) /\ Len(s) = n - k + 1 /\ n - k + 1 \in Nat /\ n - k + 1 > 0
    BY <2>1, <2>2
  <2> HIDE DEF s
  <2>b. s # <<>>
    BY <2>a
  <2>c. /\ Head(s) = s[1] /\ Tail(s) \in Seq(S) /\ Len(Tail(s)) = Len(s) - 1
        /\ \A i \in 1..Len(Tail(s)) : Tail(s)[i] = s[i + 1]
    BY <2>a, <2>b
  <2>4. Rest(script, k) # <<>> /\ Head(Rest(script, k)) = script[k]
    BY <2>2, <2>b, <2>c DEF s
  <2>5. /\ Tail(Rest(script, k)) \in Seq(S) /\ Len(Tail(Rest(script, k))) = n - k
        /\ \A i \in 1..(n - k) : Tail(Rest(script, k))[i] = Rest(script, k)[i + 1]
    BY <2>1, <2>a, <2>c DEF s
  <2>6. \A i \in 1..(n - k) : Tail(Rest(script, k))[i] = Rest(script, k + 1)[i]
    BY <2>1, <2>5 DEF Rest
  <2>7. Tail(Rest(script, k)) = Rest(script, k + 1)
    BY <2>3, <2>5, <2>6, SeqEqual
  <2> QED
    BY <2>4, <2>7
<1> QED
  BY <1>1, <1>2, <1>3

LEMMA AlertScript ==
  /\ AlertRows \in Seq(SingleRows) /\ Len(AlertRows) = 4
  /\ AlertRows[1] = "policy" /\ AlertRows[2] = "email"
  /\ AlertRows[3] = "webhook" /\ AlertRows[4] = "push"
BY Names DEF AlertRows

Steps == SettingKeys \union SingleRows \union {"clear", "targets", "rules"}

LEMMA ImportSteps ==
  /\ ImportScript \in Seq(Steps) /\ Len(ImportScript) = 10
  /\ ImportScript[1] = "clear" /\ ImportScript[2] = "targets" /\ ImportScript[3] = "rules"
  /\ ImportScript[4] = "tc_access_id" /\ ImportScript[5] = "tag"
  /\ ImportScript[6] = "sync_enabled" /\ ImportScript[7] = "policy"
  /\ ImportScript[8] = "email" /\ ImportScript[9] = "webhook" /\ ImportScript[10] = "push"
<1> DEFINE first == <<"clear", "targets", "rules", "tc_access_id", "tag", "sync_enabled">>
<1>1. first \in Seq(Steps) /\ Len(first) = 6
  BY Names DEF Steps
<1>2. AlertRows \in Seq(Steps) /\ Len(AlertRows) = 4
  BY AlertScript DEF Steps
<1>3. ImportScript = first \o AlertRows
  BY DEF ImportScript
<1>c. /\ first \o AlertRows \in Seq(Steps) /\ Len(first \o AlertRows) = Len(first) + Len(AlertRows)
      /\ \A i \in 1..(Len(first) + Len(AlertRows)) :
           (first \o AlertRows)[i] = IF i <= Len(first) THEN first[i] ELSE AlertRows[i - Len(first)]
  BY <1>1, <1>2, ConcatProperties, Zenon
<1>4. /\ first[1] = "clear" /\ first[2] = "targets" /\ first[3] = "rules"
      /\ first[4] = "tc_access_id" /\ first[5] = "tag" /\ first[6] = "sync_enabled"
  OBVIOUS
<1> HIDE DEF first
<1>5. ImportScript \in Seq(Steps) /\ Len(ImportScript) = 10
  BY <1>1, <1>2, <1>3, <1>c
<1>6. ASSUME NEW i \in 1..6 PROVE ImportScript[i] = first[i]
  <2>1. i \in 1..(Len(first) + Len(AlertRows)) /\ i <= Len(first)
    BY <1>1, <1>2
  <2> QED
    BY <1>3, <1>c, <2>1, Zenon
<1>7. \A i \in 1..4 : ImportScript[i + 6] = AlertRows[i]
  BY <1>1, <1>2, <1>3, <1>c
<1> QED
  BY <1>4, <1>5, <1>6, <1>7, AlertScript

MigrationSteps == EveryColumn \union {"disable email", "disable webhook", "rows"}

LEMMA MigrationScript ==
  /\ Migration \in Seq(MigrationSteps) /\ Len(Migration) = 8
  /\ Migration[1] = "enable_ipv6" /\ Migration[2] = "channel" /\ Migration[3] = "security"
  /\ Migration[4] = "subject" /\ Migration[5] = "body" /\ Migration[6] = "disable email"
  /\ Migration[7] = "disable webhook" /\ Migration[8] = "rows"
<1> DEFINE last == <<"disable email", "disable webhook", "rows">>
<1>1. last \in Seq(MigrationSteps) /\ Len(last) = 3
  BY DEF MigrationSteps
<1>2. Columns \in Seq(MigrationSteps) /\ Len(Columns) = 5
  BY Names DEF MigrationSteps, Columns
<1>3. Migration = Columns \o last
  BY DEF Migration
<1>c. /\ Columns \o last \in Seq(MigrationSteps) /\ Len(Columns \o last) = Len(Columns) + Len(last)
      /\ \A i \in 1..(Len(Columns) + Len(last)) :
           (Columns \o last)[i] = IF i <= Len(Columns) THEN Columns[i] ELSE last[i - Len(Columns)]
  BY <1>1, <1>2, ConcatProperties, Zenon
<1>4. last[1] = "disable email" /\ last[2] = "disable webhook" /\ last[3] = "rows"
  OBVIOUS
<1>5. /\ Columns[1] = "enable_ipv6" /\ Columns[2] = "channel" /\ Columns[3] = "security"
      /\ Columns[4] = "subject" /\ Columns[5] = "body"
  BY DEF Columns
<1> HIDE DEF last
<1>6. Migration \in Seq(MigrationSteps) /\ Len(Migration) = 8
  BY <1>1, <1>2, <1>3, <1>c
<1>7. ASSUME NEW i \in 1..5 PROVE Migration[i] = Columns[i]
  <2>1. i \in 1..(Len(Columns) + Len(last)) /\ i <= Len(Columns)
    BY <1>1, <1>2
  <2> QED
    BY <1>3, <1>c, <2>1, Zenon
<1>8. \A i \in 1..3 : Migration[i + 5] = last[i]
  BY <1>1, <1>2, <1>3, <1>c
<1>9. /\ Migration[1] = Columns[1] /\ Migration[2] = Columns[2] /\ Migration[3] = Columns[3]
      /\ Migration[4] = Columns[4] /\ Migration[5] = Columns[5]
  BY <1>7
<1>10. Migration[6] = last[1] /\ Migration[7] = last[2] /\ Migration[8] = last[3]
  BY <1>8
<1> QED
  BY <1>4, <1>5, <1>6, <1>9, <1>10

\* What each statement of a request does.
LEMMA EffectFacts ==
  ASSUME NEW d
  PROVE  /\ Effect("rule", d) = NewRule(d, op.host, Ids(op.refs))
         /\ Effect("rerule", d) = [d EXCEPT !.rules = {r \in @ : r.id # op.id} \union
                                     {[id |-> op.id, host |-> op.host, targets |-> Ids(op.refs)]}]
         /\ Effect("unrule", d) = [d EXCEPT !.rules = {r \in @ : r.id # op.id}]
         /\ Effect("target", d) = NewTarget(d, op.place)
         /\ Effect("untarget", d) = [d EXCEPT !.targets = {t \in @ : t.id # op.id}]
         /\ Effect("reset", d) = DefaultRows(Cleared(d))
         /\ Effect("clear", d) = Cleared(d)
         /\ Effect("targets", d) = InsertTargets(op.wire, d)
         /\ Effect("rules", d) = InsertRules(op.wire, d)
         /\ \A k \in SettingKeys :
              Effect(k, d) = [d EXCEPT !.settings = [@ EXCEPT ![k] = op.settings[k]]]
         /\ \A row \in SingleRows : Effect(row, d) = SaveRow(d, row, op.alerts[row])
BY Names DEF Effect

-----------------------------------------------------------------------------
(***************************************************************************)
(* What the user sees of a database.                                       *)
(***************************************************************************)
LEMMA FillEmailFacts ==
  ASSUME NEW e \in Emails
  PROVE  /\ FillEmail(e) \in Emails
         /\ FillEmail(e).enabled = e.enabled /\ FillEmail(e).complete = e.complete
         /\ e.port \in Ports \union {""} => FillEmail(e).port \in Ports
         /\ e.security \in Securities \union {""} => FillEmail(e).security \in Securities
         /\ e.subject \in Subjects \union {""} => FillEmail(e).subject \in Subjects
         /\ e.body \in Bodies \/ e = ZeroEmail => FillEmail(e).body \in Bodies
         /\ e.port # "" /\ e.security # "" /\ e.subject # "" => FillEmail(e) = e
<1> DEFINE b == IF e = ZeroEmail THEN "default" ELSE e.body
           c == IF e.security = "" THEN "auto_starttls" ELSE e.security
           p == IF e.port = "" THEN "587" ELSE e.port
           s == IF e.subject = "" THEN "default" ELSE e.subject
<1>1. e = [enabled |-> e.enabled, complete |-> e.complete, port |-> e.port,
           security |-> e.security, subject |-> e.subject, body |-> e.body]
  BY DEF Emails
<1>0. FillEmail(e) = [e EXCEPT !.body = b, !.security = c, !.port = p, !.subject = s]
  BY DEF FillEmail
<1>3. /\ "default" \in Classes /\ "auto_starttls" \in Classes /\ "587" \in Classes
      /\ e.enabled \in BOOLEAN /\ e.complete \in BOOLEAN /\ e.port \in Classes
      /\ e.security \in Classes /\ e.subject \in Classes /\ e.body \in Classes
  BY LegalTexts DEF Emails
<1>4. b \in Classes /\ c \in Classes /\ p \in Classes /\ s \in Classes
  BY <1>3
<1>6. ASSUME e.port # "", e.security # "", e.subject # "" PROVE FillEmail(e) = e
  <2>1. ZeroEmail.port = ""
    BY DEF ZeroEmail
  <2>2. e # ZeroEmail
    BY <1>6, <2>1
  <2>3. b = e.body /\ c = e.security /\ p = e.port /\ s = e.subject
    BY <1>6, <2>2
  <2> HIDE DEF b, c, p, s
  <2> QED
    BY <1>0, <1>1, <2>3
<1>9. /\ e.port \in Ports \union {""} => p \in Ports
      /\ e.security \in Securities \union {""} => c \in Securities
      /\ e.subject \in Subjects \union {""} => s \in Subjects
      /\ e.body \in Bodies \/ e = ZeroEmail => b \in Bodies
  BY LegalTexts DEF Securities
<1> HIDE DEF b, c, p, s
<1>2. FillEmail(e) = [enabled |-> e.enabled, complete |-> e.complete, port |-> p,
                      security |-> c, subject |-> s, body |-> b]
  BY <1>0, <1>1
<1>7. FillEmail(e) \in Emails
  BY <1>2, <1>3, <1>4 DEF Emails
<1>8. /\ FillEmail(e).enabled = e.enabled /\ FillEmail(e).complete = e.complete
      /\ FillEmail(e).port = p /\ FillEmail(e).security = c /\ FillEmail(e).subject = s
      /\ FillEmail(e).body = b
  BY <1>2
<1> QED
  BY <1>6, <1>7, <1>8, <1>9

LEMMA FormFacts ==
  ASSUME NEW d \in Databases
  PROVE  /\ Form(d) \in AlertForms
         /\ Form(d) = [email   |-> Form(d).email, webhook |-> Form(d).webhook,
                       policy  |-> Form(d).policy, push |-> Form(d).push]
         /\ Form(d).email = FillEmail(IF "email" \in d.rows THEN d.alerts.email ELSE ZeroEmail)
         /\ Form(d).webhook = IF "webhook" \in d.rows THEN d.alerts.webhook ELSE ZeroWebhook
         /\ Form(d).policy = IF "policy" \in d.rows /\ d.alerts.policy # ""
                             THEN d.alerts.policy ELSE "10m"
         /\ Form(d).push = IF "push" \notin d.rows THEN DefaultPush
                           ELSE IF d.alerts.push.interval # "" THEN d.alerts.push
                           ELSE [d.alerts.push EXCEPT !.interval = "60s"]
<1> DEFINE e == IF "email" \in d.rows THEN d.alerts.email ELSE ZeroEmail
           w == IF "webhook" \in d.rows THEN d.alerts.webhook ELSE ZeroWebhook
           p == IF "policy" \in d.rows /\ d.alerts.policy # "" THEN d.alerts.policy ELSE "10m"
           u == IF "push" \notin d.rows THEN DefaultPush
                ELSE IF d.alerts.push.interval # "" THEN d.alerts.push
                ELSE [d.alerts.push EXCEPT !.interval = "60s"]
<1>0. LoadAlerts(d) = [email |-> e, webhook |-> w, policy |-> p, push |-> u]
  BY DEF LoadAlerts
<1>2. /\ d.alerts.email \in Emails /\ d.alerts.webhook \in Webhooks
      /\ d.alerts.policy \in Classes /\ d.alerts.push \in Pushes
  BY DEF Databases, AlertForms
<1>3. /\ ZeroEmail \in Emails /\ ZeroWebhook \in Webhooks /\ DefaultPush \in Pushes
      /\ "10m" \in Classes /\ "60s" \in Classes
  BY LegalTexts DEF ZeroEmail, Emails, ZeroWebhook, Webhooks, DefaultPush, Pushes
<1>4. e \in Emails /\ w \in Webhooks /\ p \in Classes
  BY <1>2, <1>3
<1>5. u \in Pushes
  BY <1>2, <1>3 DEF Pushes
<1>6. FillEmail(e) \in Emails
  BY <1>4, FillEmailFacts
<1> HIDE DEF e, w, p, u
<1>1. Form(d) = [email |-> FillEmail(e), webhook |-> w, policy |-> p, push |-> u]
  BY <1>0 DEF Form
<1>7. Form(d) \in AlertForms
  BY <1>1, <1>4, <1>5, <1>6 DEF AlertForms
<1>8. Form(d).email = FillEmail(e) /\ Form(d).webhook = w /\ Form(d).policy = p /\ Form(d).push = u
  BY <1>1
<1>9. Form(d) = [email |-> Form(d).email, webhook |-> Form(d).webhook,
                 policy |-> Form(d).policy, push |-> Form(d).push]
  BY <1>1, <1>8
<1> QED
  BY <1>7, <1>8, <1>9 DEF e, w, p, u

\* A row of the form comes from one row of the database.
LEMMA SameRow ==
  ASSUME NEW d \in Databases, NEW e \in Databases, NEW row \in SingleRows,
         row \in d.rows <=> row \in e.rows, row \in d.rows => d.alerts[row] = e.alerts[row]
  PROVE  Form(d)[row] = Form(e)[row]
<1>1. CASE row = "email"
  <2>1. /\ Form(d).email = FillEmail(IF "email" \in d.rows THEN d.alerts.email ELSE ZeroEmail)
        /\ Form(e).email = FillEmail(IF "email" \in e.rows THEN e.alerts.email ELSE ZeroEmail)
    BY FormFacts
  <2>2. CASE "email" \in d.rows
    BY <1>1, <2>1, <2>2
  <2>3. CASE "email" \notin d.rows
    BY <1>1, <2>1, <2>3
  <2> QED
    BY <2>2, <2>3
<1>2. CASE row = "webhook"
  BY <1>2, FormFacts
<1>3. CASE row = "policy"
  BY <1>3, FormFacts
<1>4. CASE row = "push"
  <2>1. /\ Form(d).push = IF "push" \notin d.rows THEN DefaultPush
                           ELSE IF d.alerts.push.interval # "" THEN d.alerts.push
                           ELSE [d.alerts.push EXCEPT !.interval = "60s"]
        /\ Form(e).push = IF "push" \notin e.rows THEN DefaultPush
                           ELSE IF e.alerts.push.interval # "" THEN e.alerts.push
                           ELSE [e.alerts.push EXCEPT !.interval = "60s"]
    BY FormFacts
  <2>2. CASE "push" \notin d.rows
    BY <1>4, <2>1, <2>2
  <2>3. CASE "push" \in d.rows
    <3>1. d.alerts.push = e.alerts.push /\ "push" \in e.rows
      BY <1>4, <2>3
    <3> QED
      BY <1>4, <2>1, <2>3, <3>1, Zenon
  <2> QED
    BY <2>2, <2>3
<1> QED
  BY <1>1, <1>2, <1>3, <1>4, Names

\* The same tables are the same configuration.
LEMMA SameContent ==
  ASSUME NEW d, NEW e, d.targets = e.targets, d.rules = e.rules, d.settings = e.settings,
         Form(d) = Form(e)
  PROVE  Content(d) = Content(e)
<1>1. TargetIDs(d) = TargetIDs(e)
  BY DEF TargetIDs
<1>2. \A i : Place(d, i) = Place(e, i)
  BY DEF Place
<1> QED
  BY <1>1, <1>2 DEF Content

-----------------------------------------------------------------------------
(***************************************************************************)
(* The migration.                                                          *)
(***************************************************************************)
Current(d) == {"subject", "body"} \subseteq d.columns

LEMMA RenewedFacts ==
  ASSUME NEW d \in Databases
  PROVE  /\ Renewed(d) \in Databases
         /\ Renewed(d).targets = d.targets /\ Renewed(d).rules = d.rules
         /\ Renewed(d).settings = d.settings /\ Renewed(d).rows = d.rows
         /\ Renewed(d).alerts.policy = d.alerts.policy /\ Renewed(d).alerts.push = d.alerts.push
         /\ Renewed(d).alerts.email =
              [enabled  |-> d.alerts.email.enabled /\ Current(d),
               complete |-> d.alerts.email.complete, port |-> d.alerts.email.port,
               security |-> IF "security" \in d.columns THEN d.alerts.email.security ELSE "auto_starttls",
               subject  |-> IF "subject" \in d.columns THEN d.alerts.email.subject ELSE "default",
               body     |-> IF "body" \in d.columns THEN d.alerts.email.body ELSE "default"]
         /\ Renewed(d).alerts.webhook =
              [enabled |-> d.alerts.webhook.enabled /\ Current(d), url |-> d.alerts.webhook.url,
               channel |-> IF "channel" \in d.columns THEN d.alerts.webhook.channel ELSE "dingtalk"]
<1> DEFINE e == [d.alerts.email EXCEPT
                   !.enabled  = @ /\ {"subject", "body"} \subseteq d.columns,
                   !.security = IF "security" \in d.columns THEN @ ELSE "auto_starttls",
                   !.subject  = IF "subject" \in d.columns THEN @ ELSE "default",
                   !.body     = IF "body" \in d.columns THEN @ ELSE "default"]
           w == [d.alerts.webhook EXCEPT
                   !.enabled = @ /\ {"subject", "body"} \subseteq d.columns,
                   !.channel = IF "channel" \in d.columns THEN @ ELSE "dingtalk"]
<1>1. Renewed(d) = [d EXCEPT !.alerts.email = e, !.alerts.webhook = w]
  BY DEF Renewed
<1>2. d.alerts \in AlertForms /\ d.alerts.email \in Emails /\ d.alerts.webhook \in Webhooks
  BY DEF Databases, AlertForms
<1>3. e = [enabled  |-> d.alerts.email.enabled /\ Current(d),
           complete |-> d.alerts.email.complete, port |-> d.alerts.email.port,
           security |-> IF "security" \in d.columns THEN d.alerts.email.security ELSE "auto_starttls",
           subject  |-> IF "subject" \in d.columns THEN d.alerts.email.subject ELSE "default",
           body     |-> IF "body" \in d.columns THEN d.alerts.email.body ELSE "default"]
  <2> DEFINE on == d.alerts.email.enabled /\ Current(d)
             security == IF "security" \in d.columns THEN d.alerts.email.security ELSE "auto_starttls"
             subject == IF "subject" \in d.columns THEN d.alerts.email.subject ELSE "default"
             body == IF "body" \in d.columns THEN d.alerts.email.body ELSE "default"
  <2>1. e = [d.alerts.email EXCEPT !.enabled = on, !.security = security, !.subject = subject, !.body = body]
    BY Zenon DEF Current
  <2> HIDE DEF on, security, subject, body, e
  <2>2. e = [enabled |-> on, complete |-> d.alerts.email.complete, port |-> d.alerts.email.port,
             security |-> security, subject |-> subject, body |-> body]
    BY <1>2, <2>1 DEF Emails
  <2> QED
    BY <2>2 DEF on, security, subject, body
<1>4. w = [enabled |-> d.alerts.webhook.enabled /\ Current(d), url |-> d.alerts.webhook.url,
           channel |-> IF "channel" \in d.columns THEN d.alerts.webhook.channel ELSE "dingtalk"]
  <2> DEFINE on == d.alerts.webhook.enabled /\ Current(d)
             channel == IF "channel" \in d.columns THEN d.alerts.webhook.channel ELSE "dingtalk"
  <2>1. w = [d.alerts.webhook EXCEPT !.enabled = on, !.channel = channel]
    BY Zenon DEF Current
  <2> HIDE DEF on, channel, w
  <2>2. w = [enabled |-> on, url |-> d.alerts.webhook.url, channel |-> channel]
    BY <1>2, <2>1 DEF Webhooks
  <2> QED
    BY <2>2 DEF on, channel
<1>5. e \in Emails /\ w \in Webhooks
  <2>1. (d.alerts.email.enabled /\ Current(d)) \in BOOLEAN /\ (d.alerts.webhook.enabled /\ Current(d)) \in BOOLEAN
    OBVIOUS
  <2>2. "auto_starttls" \in Classes /\ "default" \in Classes /\ "dingtalk" \in Classes
    BY LegalTexts
  <2> QED
    BY <1>2, <1>3, <1>4, <2>1, <2>2 DEF Emails, Webhooks
<1> HIDE DEF e, w
<1>6. [[d EXCEPT !.alerts.email = e] EXCEPT !.alerts.webhook = w] = Renewed(d)
  BY <1>1, <1>2 DEF Databases, AlertForms
<1>7. [d EXCEPT !.alerts.email = e] \in Databases
  BY <1>2, <1>5 DEF Databases, AlertForms
<1>8. [[d EXCEPT !.alerts.email = e] EXCEPT !.alerts.webhook = w] \in Databases
  BY <1>7, <1>5 DEF Databases, AlertForms
<1>9. /\ Renewed(d).targets = d.targets /\ Renewed(d).rules = d.rules
      /\ Renewed(d).settings = d.settings /\ Renewed(d).rows = d.rows
      /\ Renewed(d).alerts.policy = d.alerts.policy /\ Renewed(d).alerts.push = d.alerts.push
      /\ Renewed(d).alerts.email = e /\ Renewed(d).alerts.webhook = w
  <2> DEFINE f == [d EXCEPT !.alerts.email = e]
  <2>1. /\ f.targets = d.targets /\ f.rules = d.rules /\ f.settings = d.settings /\ f.rows = d.rows
        /\ f.alerts.policy = d.alerts.policy /\ f.alerts.push = d.alerts.push
        /\ f.alerts.email = e
    BY <1>2 DEF Databases, AlertForms
  <2>2. f \in Databases /\ Renewed(d) = [f EXCEPT !.alerts.webhook = w]
    BY <1>6, <1>7
  <2> HIDE DEF f
  <2>3. /\ Renewed(d).targets = f.targets /\ Renewed(d).rules = f.rules
        /\ Renewed(d).settings = f.settings /\ Renewed(d).rows = f.rows
        /\ Renewed(d).alerts.policy = f.alerts.policy /\ Renewed(d).alerts.push = f.alerts.push
        /\ Renewed(d).alerts.email = f.alerts.email /\ Renewed(d).alerts.webhook = w
    BY <2>2 DEF Databases, AlertForms
  <2> QED
    BY <2>1, <2>3
<1> QED
  BY <1>3, <1>4, <1>6, <1>8, <1>9

\* With every column a database means what it says.
LEMMA NothingToRenew ==
  ASSUME NEW d \in Databases, d.columns = EveryColumn
  PROVE  Meant(d) = Content(d) /\ Form(Renewed(d)) = Form(d)
<1>1. Current(d) /\ "security" \in d.columns /\ "channel" \in d.columns
      /\ "subject" \in d.columns /\ "body" \in d.columns
  BY Names DEF Current
<1>2. d.alerts.email \in Emails /\ d.alerts.webhook \in Webhooks
  BY DEF Databases, AlertForms
<1>3. (d.alerts.email.enabled /\ Current(d)) = d.alerts.email.enabled
      /\ (d.alerts.webhook.enabled /\ Current(d)) = d.alerts.webhook.enabled
  <2>1. d.alerts.email.enabled \in BOOLEAN /\ d.alerts.webhook.enabled \in BOOLEAN
    BY <1>2 DEF Emails, Webhooks
  <2> QED
    BY <1>1, <2>1
<1>4. Renewed(d).alerts.email = d.alerts.email /\ Renewed(d).alerts.webhook = d.alerts.webhook
  BY <1>1, <1>2, <1>3, RenewedFacts DEF Emails, Webhooks
<1> DEFINE e == Renewed(d)
<1>a. /\ e \in Databases /\ e.rows = d.rows /\ e.alerts.policy = d.alerts.policy
      /\ e.alerts.push = d.alerts.push
  BY RenewedFacts
<1>b. e.alerts.email = d.alerts.email /\ e.alerts.webhook = d.alerts.webhook
  BY <1>4
<1> HIDE DEF e
<1>c. /\ Form(e).email = Form(d).email /\ Form(e).webhook = Form(d).webhook
      /\ Form(e).policy = Form(d).policy /\ Form(e).push = Form(d).push
  <2>1. \A row \in SingleRows : e.alerts[row] = d.alerts[row]
    BY <1>a, <1>b, Names
  <2>2. \A row \in SingleRows : Form(e)[row] = Form(d)[row]
    BY <1>a, <2>1, SameRow
  <2> QED
    BY <2>2, Names
<1>d. Form(e) = Form(d)
  BY <1>a, <1>c, FormFacts
<1>5. Form(Renewed(d)) = Form(d)
  BY <1>d DEF e
<1> QED
  BY <1>5, RenewedFacts, SameContent DEF Meant

\* A row with a sound value, or none, can be sent back as the form will show it.
LEMMA FormAccepted ==
  ASSUME NEW d \in Databases, NEW row \in SingleRows, row \in d.rows => SoundRow(row, d)
  PROVE  AcceptsRow(row, Meant(d).alerts[row])
<1> DEFINE r == Renewed(d)
           emailOn == d.alerts.email.enabled /\ Current(d)
           webhookOn == d.alerts.webhook.enabled /\ Current(d)
<1>1. /\ r \in Databases /\ r.rows = d.rows
      /\ r.alerts.policy = d.alerts.policy /\ r.alerts.push = d.alerts.push
      /\ r.alerts.email =
           [enabled  |-> emailOn,
            complete |-> d.alerts.email.complete, port |-> d.alerts.email.port,
            security |-> IF "security" \in d.columns THEN d.alerts.email.security ELSE "auto_starttls",
            subject  |-> IF "subject" \in d.columns THEN d.alerts.email.subject ELSE "default",
            body     |-> IF "body" \in d.columns THEN d.alerts.email.body ELSE "default"]
      /\ r.alerts.webhook =
           [enabled |-> webhookOn, url |-> d.alerts.webhook.url,
            channel |-> IF "channel" \in d.columns THEN d.alerts.webhook.channel ELSE "dingtalk"]
  BY RenewedFacts
<1> HIDE DEF emailOn, webhookOn
<1>2. Meant(d).alerts = Form(r)
  BY DEF Meant, Content
<1> HIDE DEF r
<1>3. /\ r.alerts.email \in Emails /\ r.alerts.push \in Pushes
      /\ ZeroEmail \in Emails
  BY <1>1, LegalTexts DEF Databases, AlertForms, ZeroEmail, Emails
<1>4. CASE row = "email"
  <2> DEFINE e == IF "email" \in r.rows THEN r.alerts.email ELSE ZeroEmail
  <2>1. Form(r).email = FillEmail(e) /\ e \in Emails
    BY <1>1, <1>3, FormFacts
  <2>2. /\ e.port \in Ports \union {""} /\ e.security \in Securities \union {""}
        /\ e.subject \in Subjects \union {""} /\ (e.body \in Bodies \/ e = ZeroEmail)
        /\ e.enabled => e.complete
    <3>1. CASE "email" \in d.rows
      <4>1. e = r.alerts.email
        BY <1>1, <3>1
      <4>2. /\ d.alerts.email.port \in Ports \union {""}
            /\ "security" \in d.columns => d.alerts.email.security \in Securities \union {""}
            /\ "subject" \in d.columns => d.alerts.email.subject \in Subjects \union {""}
            /\ "body" \in d.columns => d.alerts.email.body \in Bodies
            /\ Current(d) /\ d.alerts.email.enabled => d.alerts.email.complete
        BY <1>4, <3>1 DEF SoundRow, Current
      <4>3. /\ e.port = d.alerts.email.port /\ e.complete = d.alerts.email.complete
            /\ e.security = IF "security" \in d.columns THEN d.alerts.email.security ELSE "auto_starttls"
            /\ e.subject = IF "subject" \in d.columns THEN d.alerts.email.subject ELSE "default"
            /\ e.body = IF "body" \in d.columns THEN d.alerts.email.body ELSE "default"
        BY <1>1, <4>1
      <4>4. e.enabled = emailOn
        BY <1>1, <4>1
      <4>5. e.enabled => e.complete
        BY <4>2, <4>3, <4>4, Zenon DEF emailOn
      <4> HIDE DEF e
      <4> QED
        BY <4>2, <4>3, <4>5, LegalTexts DEF Securities
    <3>2. CASE "email" \notin d.rows
      <4>1. e = ZeroEmail
        BY <1>1, <3>2
      <4>2. /\ ZeroEmail.port = "" /\ ZeroEmail.security = "" /\ ZeroEmail.subject = ""
            /\ ZeroEmail.enabled = FALSE
        BY DEF ZeroEmail
      <4> HIDE DEF e
      <4> QED
        BY <4>1, <4>2
    <3> QED
      BY <3>1, <3>2
  <2> HIDE DEF e
  <2>3. /\ FillEmail(e).port \in Ports /\ FillEmail(e).security \in Securities
        /\ FillEmail(e).subject \in Subjects /\ FillEmail(e).body \in Bodies
    BY <2>1, <2>2, FillEmailFacts
  <2>4. FillEmail(e).enabled => FillEmail(e).complete
    BY <2>1, <2>2, FillEmailFacts
  <2> QED
    BY <1>2, <1>4, <2>1, <2>3, <2>4 DEF AcceptsRow, AcceptsEmail
<1>5. CASE row = "webhook"
  <2>1. Form(r).webhook = IF "webhook" \in r.rows THEN r.alerts.webhook ELSE ZeroWebhook
    BY <1>1, FormFacts
  <2>2. AcceptsWebhook(Form(r).webhook)
    <3>1. CASE "webhook" \in d.rows
      <4> DEFINE w == Form(r).webhook
      <4>1. w = r.alerts.webhook
        BY <1>1, <2>1, <3>1
      <4>2. /\ "channel" \in d.columns => d.alerts.webhook.channel \in Channels \union {""}
            /\ Current(d) /\ d.alerts.webhook.enabled =>
                 d.alerts.webhook.channel # "" /\ d.alerts.webhook.url = "url"
        BY <1>5, <3>1 DEF SoundRow, Current
      <4>3. /\ w.url = d.alerts.webhook.url
            /\ w.channel = IF "channel" \in d.columns THEN d.alerts.webhook.channel ELSE "dingtalk"
        BY <1>1, <4>1
      <4>4. w.enabled = webhookOn
        BY <1>1, <4>1
      <4>5. w.enabled => d.alerts.webhook.channel # "" /\ w.url = "url"
        BY <4>2, <4>3, <4>4, Zenon DEF webhookOn
      <4> HIDE DEF w
      <4>6. AcceptsWebhook(w)
        BY <4>2, <4>3, <4>5 DEF AcceptsWebhook, Channels
      <4> QED
        BY <4>6 DEF w
    <3>2. CASE "webhook" \notin d.rows
      <4>1. Form(r).webhook = ZeroWebhook
        BY <1>1, <2>1, <3>2
      <4>2. ZeroWebhook.enabled = FALSE /\ ZeroWebhook.channel = ""
        BY DEF ZeroWebhook
      <4>3. AcceptsWebhook(ZeroWebhook)
        BY <4>2 DEF AcceptsWebhook
      <4> QED
        BY <4>1, <4>3
    <3> QED
      BY <3>1, <3>2
  <2> QED
    BY <1>2, <1>5, <2>2 DEF AcceptsRow
<1>6. CASE row = "policy"
  <2>1. "policy" \in d.rows => d.alerts.policy \in Durations \union {""}
    BY <1>6 DEF SoundRow
  <2>2. Form(r).policy \in Durations
    BY <1>1, <2>1, FormFacts, LegalTexts
  <2> QED
    BY <1>2, <1>6, <2>2 DEF AcceptsRow
<1>7. CASE row = "push"
  <2> DEFINE p == Form(r).push
  <2>0. p = IF "push" \notin d.rows THEN DefaultPush
            ELSE IF d.alerts.push.interval # "" THEN d.alerts.push
            ELSE [d.alerts.push EXCEPT !.interval = "60s"]
    BY <1>1, FormFacts
  <2>1. CASE "push" \notin d.rows
    <3>1. p = DefaultPush
      BY <2>0, <2>1
    <3>2. DefaultPush.interval = "60s" /\ DefaultPush.enabled = FALSE
      BY DEF DefaultPush
    <3>3. AcceptsPush(DefaultPush)
      BY <3>2, LegalTexts DEF AcceptsPush
    <3> QED
      BY <1>2, <1>7, <3>1, <3>3 DEF AcceptsRow
  <2>2. CASE "push" \in d.rows
    <3>1. /\ d.alerts.push.interval \in Intervals \union {""}
          /\ d.alerts.push.enabled => d.alerts.push.url = "url"
      BY <1>7, <2>2 DEF SoundRow
    <3>2. d.alerts.push \in Pushes
      BY DEF Databases, AlertForms
    <3>3. p.url = d.alerts.push.url /\ p.enabled = d.alerts.push.enabled
      BY <2>0, <2>2, <3>2 DEF Pushes
    <3>4. p.interval = IF d.alerts.push.interval # "" THEN d.alerts.push.interval ELSE "60s"
      BY <2>0, <2>2, <3>2 DEF Pushes
    <3> HIDE DEF p
    <3>5. AcceptsPush(p)
      BY <3>1, <3>3, <3>4, LegalTexts DEF AcceptsPush
    <3> QED
      BY <1>2, <1>7, <3>5 DEF AcceptsRow, p
  <2> QED
    BY <2>1, <2>2
<1> QED
  BY <1>4, <1>5, <1>6, <1>7, Names

\* A new column.
LEMMA AddColumnFacts ==
  ASSUME NEW d, Database(d), NEW c \in EveryColumn, NEW e, e = AddColumn(c, d)
  PROVE  /\ Database(e) /\ e.columns = d.columns \union {c}
         /\ e.targets = d.targets /\ e.rules = d.rules /\ e.settings = d.settings
         /\ e.targetSeq = d.targetSeq /\ e.ruleSeq = d.ruleSeq /\ e.rows = d.rows
         /\ e.alerts.policy = d.alerts.policy /\ e.alerts.push = d.alerts.push
         /\ "email" \in d.rows => e.alerts.email =
              [enabled  |-> d.alerts.email.enabled, complete |-> d.alerts.email.complete,
               port     |-> d.alerts.email.port,
               security |-> IF c = "security" THEN "auto_starttls" ELSE d.alerts.email.security,
               subject  |-> IF c = "subject" THEN "default" ELSE d.alerts.email.subject,
               body     |-> IF c = "body" THEN "default" ELSE d.alerts.email.body]
         /\ "webhook" \in d.rows => e.alerts.webhook =
              [enabled |-> d.alerts.webhook.enabled, url |-> d.alerts.webhook.url,
               channel |-> IF c = "channel" THEN "dingtalk" ELSE d.alerts.webhook.channel]
<1> DEFINE b == [d EXCEPT !.columns = @ \union {c}]
<1>1. /\ d \in Databases /\ d.alerts \in AlertForms
      /\ d.alerts.email \in Emails /\ d.alerts.webhook \in Webhooks
  BY DEF Database, Databases, AlertForms
<1>2. b \in Databases
  BY <1>1 DEF Databases
<1>3. /\ b.columns = d.columns \union {c} /\ b.targets = d.targets /\ b.rules = d.rules
      /\ b.settings = d.settings /\ b.targetSeq = d.targetSeq /\ b.ruleSeq = d.ruleSeq
      /\ b.rows = d.rows /\ b.alerts = d.alerts
  BY <1>1 DEF Databases
<1>4. /\ b.alerts.email = [enabled  |-> d.alerts.email.enabled, complete |-> d.alerts.email.complete,
                           port     |-> d.alerts.email.port, security |-> d.alerts.email.security,
                           subject  |-> d.alerts.email.subject, body |-> d.alerts.email.body]
      /\ b.alerts.webhook = [enabled |-> d.alerts.webhook.enabled, url |-> d.alerts.webhook.url,
                             channel |-> d.alerts.webhook.channel]
  BY <1>1, <1>3 DEF Emails, Webhooks
<1>5. Keyed(b)
  BY <1>3 DEF Database, Keyed
<1>6. "auto_starttls" \in Classes /\ "default" \in Classes /\ "dingtalk" \in Classes
  BY LegalTexts
<1>7. e = CASE c = "channel" /\ "webhook" \in d.rows -> [b EXCEPT !.alerts.webhook.channel = "dingtalk"]
            [] c = "security" /\ "email" \in d.rows  -> [b EXCEPT !.alerts.email.security = "auto_starttls"]
            [] c = "subject" /\ "email" \in d.rows   -> [b EXCEPT !.alerts.email.subject = "default"]
            [] c = "body" /\ "email" \in d.rows      -> [b EXCEPT !.alerts.email.body = "default"]
            [] OTHER -> b
  BY DEF AddColumn
<1> HIDE DEF b
<1>8. CASE c = "channel" /\ "webhook" \in d.rows
  <2>1. e = [b EXCEPT !.alerts.webhook.channel = "dingtalk"]
    BY <1>7, <1>8
  <2>2. [b.alerts.webhook EXCEPT !.channel = "dingtalk"] \in Webhooks
    BY <1>1, <1>3, <1>6 DEF Webhooks
  <2>3. /\ e \in Databases /\ e.alerts.webhook = [b.alerts.webhook EXCEPT !.channel = "dingtalk"]
        /\ e.alerts.email = b.alerts.email /\ e.alerts.policy = b.alerts.policy
        /\ e.alerts.push = b.alerts.push
    BY <1>2, <2>1, <2>2 DEF Databases, AlertForms
  <2>4. /\ e.columns = b.columns /\ e.targets = b.targets /\ e.rules = b.rules
        /\ e.settings = b.settings /\ e.targetSeq = b.targetSeq /\ e.ruleSeq = b.ruleSeq
        /\ e.rows = b.rows
    BY <1>2, <2>1 DEF Databases
  <2>5. Keyed(e)
    BY <1>5, <2>4 DEF Keyed
  <2>6. e.alerts.webhook = [enabled |-> d.alerts.webhook.enabled, url |-> d.alerts.webhook.url,
                            channel |-> "dingtalk"]
    BY <1>1, <1>3, <2>3 DEF Webhooks
  <2> QED
    BY <1>3, <1>4, <1>8, <2>3, <2>4, <2>5, <2>6 DEF Database
<1>9. ASSUME NEW f \in {"security", "subject", "body"}, NEW v \in Classes, c = f, "email" \in d.rows,
             e = [b EXCEPT !.alerts.email = [@ EXCEPT ![f] = v]],
             v = IF f = "security" THEN "auto_starttls" ELSE "default"
      PROVE  /\ Database(e) /\ e.columns = d.columns \union {c}
             /\ e.targets = d.targets /\ e.rules = d.rules /\ e.settings = d.settings
             /\ e.targetSeq = d.targetSeq /\ e.ruleSeq = d.ruleSeq /\ e.rows = d.rows
             /\ e.alerts.policy = d.alerts.policy /\ e.alerts.push = d.alerts.push
             /\ e.alerts.email =
                  [enabled  |-> d.alerts.email.enabled, complete |-> d.alerts.email.complete,
                   port     |-> d.alerts.email.port,
                   security |-> IF c = "security" THEN "auto_starttls" ELSE d.alerts.email.security,
                   subject  |-> IF c = "subject" THEN "default" ELSE d.alerts.email.subject,
                   body     |-> IF c = "body" THEN "default" ELSE d.alerts.email.body]
             /\ e.alerts.webhook = b.alerts.webhook
  <2>1. [b.alerts.email EXCEPT ![f] = v] \in Emails
    BY <1>1, <1>3, <1>9 DEF Emails
  <2>2. /\ e \in Databases /\ e.alerts.email = [b.alerts.email EXCEPT ![f] = v]
        /\ e.alerts.webhook = b.alerts.webhook /\ e.alerts.policy = b.alerts.policy
        /\ e.alerts.push = b.alerts.push
    BY <1>2, <1>9, <2>1 DEF Databases, AlertForms
  <2>3. /\ e.columns = b.columns /\ e.targets = b.targets /\ e.rules = b.rules
        /\ e.settings = b.settings /\ e.targetSeq = b.targetSeq /\ e.ruleSeq = b.ruleSeq
        /\ e.rows = b.rows
    BY <1>2, <1>9 DEF Databases
  <2>4. Keyed(e)
    BY <1>5, <2>3 DEF Keyed
  <2>5. e.alerts.email =
          [enabled  |-> d.alerts.email.enabled, complete |-> d.alerts.email.complete,
           port     |-> d.alerts.email.port,
           security |-> IF c = "security" THEN "auto_starttls" ELSE d.alerts.email.security,
           subject  |-> IF c = "subject" THEN "default" ELSE d.alerts.email.subject,
           body     |-> IF c = "body" THEN "default" ELSE d.alerts.email.body]
    BY <1>4, <1>9, <2>2
  <2> QED
    BY <1>3, <2>2, <2>3, <2>4, <2>5 DEF Database
<1>10. CASE c \in {"security", "subject", "body"} /\ "email" \in d.rows
  <2>1. PICK v \in Classes : v = IF c = "security" THEN "auto_starttls" ELSE "default"
    BY <1>6
  <2>2. e = [b EXCEPT !.alerts.email = [@ EXCEPT ![c] = v]]
    BY <1>7, <1>10, <2>1
  <2>3. b.alerts.webhook = [enabled |-> d.alerts.webhook.enabled, url |-> d.alerts.webhook.url,
                            channel |-> d.alerts.webhook.channel]
    BY <1>4
  <2> QED
    BY <1>9, <1>10, <2>1, <2>2, <2>3
<1>11. CASE /\ ~(c = "channel" /\ "webhook" \in d.rows)
            /\ ~(c \in {"security", "subject", "body"} /\ "email" \in d.rows)
  <2>1. e = b
    BY <1>7, <1>11
  <2> QED
    BY <1>2, <1>3, <1>4, <1>5, <1>11, <2>1 DEF Database
<1> QED
  BY <1>8, <1>10, <1>11

\* The columns there are before the k-th statement, and the new ones of them.
Done(k)  == {Columns[i] : i \in {j \in 1..5 : j < k}}
Fresh(k) == Done(k) \ file.columns

EmailOn(k)   == file.alerts.email.enabled /\ (k > 6 => Current(file))
WebhookOn(k) == file.alerts.webhook.enabled /\ (k > 7 => Current(file))

EmailAt(k) ==
  [enabled  |-> EmailOn(k),
   complete |-> file.alerts.email.complete, port |-> file.alerts.email.port,
   security |-> IF "security" \in Fresh(k) THEN "auto_starttls" ELSE file.alerts.email.security,
   subject  |-> IF "subject" \in Fresh(k) THEN "default" ELSE file.alerts.email.subject,
   body     |-> IF "body" \in Fresh(k) THEN "default" ELSE file.alerts.email.body]
WebhookAt(k) ==
  [enabled |-> WebhookOn(k),
   url     |-> file.alerts.webhook.url,
   channel |-> IF "channel" \in Fresh(k) THEN "dingtalk" ELSE file.alerts.webhook.channel]

\* The transaction of the migration before its k-th statement.
Migrated(k) ==
  /\ tx.targets = file.targets /\ tx.targetSeq = file.targetSeq
  /\ tx.rules = file.rules /\ tx.ruleSeq = file.ruleSeq /\ tx.settings = file.settings
  /\ tx.columns = file.columns \union Done(k) /\ added = Fresh(k)
  /\ tx.rows = IF k = 9 THEN SingleRows ELSE file.rows
  /\ tx.alerts.policy = IF k = 9 /\ "policy" \notin file.rows THEN "10m" ELSE file.alerts.policy
  /\ tx.alerts.push = IF k = 9 /\ "push" \notin file.rows THEN DefaultPush ELSE file.alerts.push
  /\ "email" \in file.rows => tx.alerts.email = EmailAt(k)
  /\ "email" \notin file.rows /\ k = 9 => tx.alerts.email = DefaultEmail
  /\ "webhook" \in file.rows => tx.alerts.webhook = WebhookAt(k)
  /\ "webhook" \notin file.rows /\ k = 9 => tx.alerts.webhook = ZeroWebhook

LEMMA DoneFacts ==
  /\ Done(1) = {}
  /\ \A k \in 1..5 : Done(k + 1) = Done(k) \union {Columns[k]}
  /\ \A k \in 6..9 : Done(k) = EveryColumn
  /\ \A k \in 1..9 : Done(k) \subseteq EveryColumn
<1>1. DOMAIN Columns = 1..5 /\ EveryColumn = {Columns[i] : i \in 1..5}
  BY DEF Columns, EveryColumn, Range
<1>2. \A k \in 6..9 : {j \in 1..5 : j < k} = 1..5
  OBVIOUS
<1>3. {j \in 1..5 : j < 1} = {}
  OBVIOUS
<1>4. \A k \in 1..5 : {j \in 1..5 : j < k + 1} = {j \in 1..5 : j < k} \union {k}
  OBVIOUS
<1> QED
  BY <1>1, <1>2, <1>3, <1>4 DEF Done

LEMMA MigrationBegins ==
  ASSUME Database(file), file' = file, tx' = file, added' = {}
  PROVE  Migrated(1)'
<1>1. Fresh(1) = {} /\ Done(1) = {}
  BY DoneFacts DEF Fresh
<1>2. file.alerts.email \in Emails /\ file.alerts.webhook \in Webhooks
  BY DEF Database, Databases, AlertForms
<1>3. (file.alerts.email.enabled /\ (1 > 6 => Current(file))) = file.alerts.email.enabled
  <2>1. file.alerts.email.enabled \in BOOLEAN
    BY <1>2 DEF Emails
  <2> QED
    BY <2>1
<1>4. (file.alerts.webhook.enabled /\ (1 > 7 => Current(file))) = file.alerts.webhook.enabled
  <2>1. file.alerts.webhook.enabled \in BOOLEAN
    BY <1>2 DEF Webhooks
  <2> QED
    BY <2>1
<1>5. file.alerts.email = EmailAt(1)
  BY <1>1, <1>2, <1>3 DEF EmailAt, EmailOn, Emails
<1>6. file.alerts.webhook = WebhookAt(1)
  BY <1>1, <1>2, <1>4 DEF WebhookAt, WebhookOn, Webhooks
<1>7. EmailAt(1)' = EmailAt(1) /\ WebhookAt(1)' = WebhookAt(1) /\ Fresh(1)' = {} /\ Done(1)' = {}
  BY <1>1 DEF EmailAt, EmailOn, WebhookAt, WebhookOn, Current, Fresh, Done
<1> QED
  BY <1>1, <1>5, <1>6, <1>7 DEF Migrated

\* A column is added, unless it is there.
LEMMA ColumnStep ==
  ASSUME Database(file), Database(tx), NEW k \in 1..5, Migrated(k), file' = file,
         NEW c, c = Columns[k],
         tx' = IF c \in tx.columns THEN tx ELSE AddColumn(c, tx),
         added' = added \union ({c} \intersect (EveryColumn \ tx.columns))
  PROVE  Database(tx') /\ Migrated(k + 1)'
<1>1. c \in EveryColumn /\ Done(k + 1) = Done(k) \union {c}
  BY DoneFacts DEF Columns, EveryColumn, Range
<1>2. /\ Fresh(k + 1) = IF c \in tx.columns THEN Fresh(k) ELSE Fresh(k) \union {c}
      /\ added' = Fresh(k + 1)
      /\ tx.columns = file.columns \union Done(k)
  BY <1>1 DEF Fresh, Migrated
<1>3. Fresh(k + 1)' = Fresh(k + 1) /\ EmailAt(k + 1)' = EmailAt(k + 1)
      /\ WebhookAt(k + 1)' = WebhookAt(k + 1) /\ Done(k + 1)' = Done(k + 1)
  BY DEF Fresh, EmailAt, WebhookAt, EmailOn, WebhookOn, Done, Current
<1>0. EmailOn(k + 1) = EmailOn(k) /\ WebhookOn(k + 1) = WebhookOn(k)
  <2>1. (k > 6 => Current(file)) = (k + 1 > 6 => Current(file))
        /\ (k > 7 => Current(file)) = (k + 1 > 7 => Current(file))
    OBVIOUS
  <2> QED
    BY <2>1, Zenon DEF EmailOn, WebhookOn
<1>4. k + 1 \in 2..6 /\ ~(k > 6) /\ ~(k + 1 > 6) /\ ~(k > 7) /\ ~(k + 1 > 7) /\ k # 9 /\ k + 1 # 9
  OBVIOUS
<1>5. CASE c \in tx.columns
  <2>1. EmailAt(k + 1) = EmailAt(k) /\ WebhookAt(k + 1) = WebhookAt(k)
    BY <1>0, <1>2, <1>5 DEF EmailAt, WebhookAt
  <2>2. tx' = tx /\ tx.columns = file.columns \union Done(k + 1)
    BY <1>1, <1>2, <1>5
  <2> QED
    BY <1>2, <1>3, <1>4, <2>1, <2>2 DEF Migrated
<1>6. CASE c \notin tx.columns
  <2>1. tx' = AddColumn(c, tx)
    BY <1>6
  <2>2. /\ Database(tx') /\ tx'.columns = tx.columns \union {c}
        /\ tx'.targets = tx.targets /\ tx'.rules = tx.rules /\ tx'.settings = tx.settings
        /\ tx'.targetSeq = tx.targetSeq /\ tx'.ruleSeq = tx.ruleSeq /\ tx'.rows = tx.rows
        /\ tx'.alerts.policy = tx.alerts.policy /\ tx'.alerts.push = tx.alerts.push
        /\ "email" \in tx.rows => tx'.alerts.email =
             [enabled  |-> tx.alerts.email.enabled, complete |-> tx.alerts.email.complete,
              port     |-> tx.alerts.email.port,
              security |-> IF c = "security" THEN "auto_starttls" ELSE tx.alerts.email.security,
              subject  |-> IF c = "subject" THEN "default" ELSE tx.alerts.email.subject,
              body     |-> IF c = "body" THEN "default" ELSE tx.alerts.email.body]
        /\ "webhook" \in tx.rows => tx'.alerts.webhook =
             [enabled |-> tx.alerts.webhook.enabled, url |-> tx.alerts.webhook.url,
              channel |-> IF c = "channel" THEN "dingtalk" ELSE tx.alerts.webhook.channel]
    BY <1>1, <2>1, AddColumnFacts
  <2>3. tx.rows = file.rows /\ tx'.columns = file.columns \union Done(k + 1)
    BY <1>1, <1>2, <1>4, <2>2 DEF Migrated
  <2>4. Fresh(k + 1) = Fresh(k) \union {c}
    BY <1>2, <1>6
  <2>5. ASSUME "email" \in file.rows PROVE tx'.alerts.email = EmailAt(k + 1)
    <3>1. tx.alerts.email = EmailAt(k)
      BY <2>5 DEF Migrated
    <3> QED
      BY <1>0, <2>2, <2>3, <2>4, <2>5, <3>1 DEF EmailAt
  <2>6. ASSUME "webhook" \in file.rows PROVE tx'.alerts.webhook = WebhookAt(k + 1)
    <3>1. tx.alerts.webhook = WebhookAt(k)
      BY <2>6 DEF Migrated
    <3> QED
      BY <1>0, <2>2, <2>3, <2>4, <2>6, <3>1 DEF WebhookAt
  <2> QED
    BY <1>2, <1>3, <1>4, <2>2, <2>3, <2>5, <2>6 DEF Migrated
<1> QED
  BY <1>5, <1>6

\* A channel is turned off.
Off(channel)  == [channel EXCEPT !.enabled = FALSE]
EmailOff(d)   == [d EXCEPT !.alerts.email.enabled = FALSE]
WebhookOff(d) == [d EXCEPT !.alerts.webhook.enabled = FALSE]

LEMMA DisableFacts ==
  ASSUME NEW d, Database(d)
  PROVE  /\ LET e == EmailOff(d) IN
              /\ Database(e) /\ e.columns = d.columns
              /\ e.targets = d.targets /\ e.rules = d.rules /\ e.settings = d.settings
              /\ e.targetSeq = d.targetSeq /\ e.ruleSeq = d.ruleSeq /\ e.rows = d.rows
              /\ e.alerts.policy = d.alerts.policy /\ e.alerts.push = d.alerts.push
              /\ e.alerts.webhook = d.alerts.webhook
              /\ e.alerts.email = Off(d.alerts.email)
         /\ LET e == WebhookOff(d) IN
              /\ Database(e) /\ e.columns = d.columns
              /\ e.targets = d.targets /\ e.rules = d.rules /\ e.settings = d.settings
              /\ e.targetSeq = d.targetSeq /\ e.ruleSeq = d.ruleSeq /\ e.rows = d.rows
              /\ e.alerts.policy = d.alerts.policy /\ e.alerts.push = d.alerts.push
              /\ e.alerts.email = d.alerts.email
              /\ e.alerts.webhook = Off(d.alerts.webhook)
<1> DEFINE m == Off(d.alerts.email)
           w == Off(d.alerts.webhook)
<1>1. d \in Databases /\ d.alerts.email \in Emails /\ d.alerts.webhook \in Webhooks
  BY DEF Database, Databases, AlertForms
<1>2. m \in Emails /\ w \in Webhooks
  BY <1>1 DEF Emails, Webhooks, Off
<1> DEFINE e == [d EXCEPT !.alerts.email = m]
           f == [d EXCEPT !.alerts.webhook = w]
<1>3. e = EmailOff(d) /\ f = WebhookOff(d)
  BY DEF EmailOff, WebhookOff, Off
<1> HIDE DEF m, w
<1>4. /\ e \in Databases /\ e.columns = d.columns
      /\ e.targets = d.targets /\ e.rules = d.rules /\ e.settings = d.settings
      /\ e.targetSeq = d.targetSeq /\ e.ruleSeq = d.ruleSeq /\ e.rows = d.rows
      /\ e.alerts.policy = d.alerts.policy /\ e.alerts.push = d.alerts.push
      /\ e.alerts.webhook = d.alerts.webhook /\ e.alerts.email = m
  BY <1>1, <1>2 DEF Databases, AlertForms
<1>5. /\ f \in Databases /\ f.columns = d.columns
      /\ f.targets = d.targets /\ f.rules = d.rules /\ f.settings = d.settings
      /\ f.targetSeq = d.targetSeq /\ f.ruleSeq = d.ruleSeq /\ f.rows = d.rows
      /\ f.alerts.policy = d.alerts.policy /\ f.alerts.push = d.alerts.push
      /\ f.alerts.email = d.alerts.email /\ f.alerts.webhook = w
  BY <1>1, <1>2 DEF Databases, AlertForms
<1> HIDE DEF e, f
<1>6. Keyed(e) /\ Keyed(f)
  BY <1>4, <1>5 DEF Database, Keyed
<1> QED
  BY <1>3, <1>4, <1>5, <1>6 DEF Database, m, w

\* The channels are turned off if the templates were not there.
LEMMA DisableStep ==
  ASSUME Database(file), Database(tx), NEW k \in {6, 7}, Migrated(k), file' = file, added' = added,
         tx' = IF ~Templates THEN tx
               ELSE IF k = 6 THEN EmailOff(tx) ELSE WebhookOff(tx)
  PROVE  Database(tx') /\ Migrated(k + 1)'
<1>1. Done(k) = EveryColumn /\ Done(k + 1) = EveryColumn /\ Fresh(k + 1) = Fresh(k)
  BY DoneFacts DEF Fresh
<1>2. Templates <=> ~Current(file)
  BY <1>1, Names DEF Templates, Migrated, Fresh, Current
<1>3. /\ Fresh(k + 1)' = Fresh(k) /\ EmailAt(k + 1)' = EmailAt(k + 1)
      /\ WebhookAt(k + 1)' = WebhookAt(k + 1) /\ Done(k + 1)' = EveryColumn
  BY <1>1 DEF Fresh, EmailAt, WebhookAt, EmailOn, WebhookOn, Done, Current
<1>4. k # 9 /\ k + 1 # 9 /\ k + 1 > 6
  OBVIOUS
<1>5. file.alerts.email \in Emails /\ file.alerts.webhook \in Webhooks
  BY DEF Database, Databases, AlertForms
<1>6. CASE ~Templates
  <2>1. (k > 6 => Current(file)) /\ (k + 1 > 6 => Current(file))
        /\ (k > 7 => Current(file)) /\ (k + 1 > 7 => Current(file))
    BY <1>2, <1>6
  <2>2. EmailOn(k) = EmailOn(k + 1) /\ WebhookOn(k) = WebhookOn(k + 1)
    BY <2>1, Zenon DEF EmailOn, WebhookOn
  <2>3. EmailAt(k + 1) = EmailAt(k)
    BY <1>1, <2>2, Zenon DEF EmailAt
  <2>4. WebhookAt(k + 1) = WebhookAt(k)
    BY <1>1, <2>2, Zenon DEF WebhookAt
  <2>5. tx' = tx
    BY <1>6
  <2> QED
    BY <1>1, <1>3, <1>4, <2>3, <2>4, <2>5 DEF Migrated
<1>7. CASE Templates /\ k = 6
  <2>1. tx' = EmailOff(tx)
    BY <1>7
  <2>2. /\ Database(tx') /\ tx'.columns = tx.columns
        /\ tx'.targets = tx.targets /\ tx'.rules = tx.rules /\ tx'.settings = tx.settings
        /\ tx'.targetSeq = tx.targetSeq /\ tx'.ruleSeq = tx.ruleSeq /\ tx'.rows = tx.rows
        /\ tx'.alerts.policy = tx.alerts.policy /\ tx'.alerts.push = tx.alerts.push
        /\ tx'.alerts.webhook = tx.alerts.webhook
        /\ tx'.alerts.email = Off(tx.alerts.email)
    BY <2>1, DisableFacts
  <2>3. EmailAt(k + 1) = Off(EmailAt(k))
    <3>1. EmailOn(k + 1) = FALSE
      BY <1>2, <1>4, <1>7 DEF EmailOn
    <3>2. Off(EmailAt(k)) = [enabled  |-> FALSE, complete |-> EmailAt(k).complete,
                             port     |-> EmailAt(k).port, security |-> EmailAt(k).security,
                             subject  |-> EmailAt(k).subject, body |-> EmailAt(k).body]
      <4>1. \A v : [EmailAt(k) EXCEPT !.enabled = v] =
                     [enabled  |-> v, complete |-> EmailAt(k).complete,
                      port     |-> EmailAt(k).port, security |-> EmailAt(k).security,
                      subject  |-> EmailAt(k).subject, body |-> EmailAt(k).body]
        BY DEF EmailAt
      <4> QED
        BY <4>1, Zenon DEF Off
    <3>3. /\ EmailAt(k + 1) = [enabled  |-> EmailOn(k + 1), complete |-> EmailAt(k + 1).complete,
                               port     |-> EmailAt(k + 1).port, security |-> EmailAt(k + 1).security,
                               subject  |-> EmailAt(k + 1).subject, body |-> EmailAt(k + 1).body]
      BY DEF EmailAt
    <3>4. /\ EmailAt(k + 1).complete = EmailAt(k).complete /\ EmailAt(k + 1).port = EmailAt(k).port
          /\ EmailAt(k + 1).security = EmailAt(k).security
          /\ EmailAt(k + 1).subject = EmailAt(k).subject /\ EmailAt(k + 1).body = EmailAt(k).body
      BY <1>1 DEF EmailAt
    <3> QED
      BY <3>1, <3>2, <3>3, <3>4, Zenon
  <2>4. WebhookAt(k + 1) = WebhookAt(k)
    <3>1. (k + 1 > 7 => Current(file)) = (k > 7 => Current(file))
      BY <1>7
    <3> QED
      BY <1>1, <3>1, Zenon DEF WebhookAt, WebhookOn
  <2> QED
    BY <1>1, <1>3, <1>4, <2>2, <2>3, <2>4 DEF Migrated
<1>8. CASE Templates /\ k = 7
  <2>1. tx' = WebhookOff(tx)
    BY <1>8
  <2>2. /\ Database(tx') /\ tx'.columns = tx.columns
        /\ tx'.targets = tx.targets /\ tx'.rules = tx.rules /\ tx'.settings = tx.settings
        /\ tx'.targetSeq = tx.targetSeq /\ tx'.ruleSeq = tx.ruleSeq /\ tx'.rows = tx.rows
        /\ tx'.alerts.policy = tx.alerts.policy /\ tx'.alerts.push = tx.alerts.push
        /\ tx'.alerts.email = tx.alerts.email
        /\ tx'.alerts.webhook = Off(tx.alerts.webhook)
    BY <2>1, DisableFacts
  <2>3. WebhookAt(k + 1) = Off(WebhookAt(k))
    <3>1. WebhookOn(k + 1) = FALSE
      BY <1>2, <1>8 DEF WebhookOn
    <3>2. Off(WebhookAt(k)) = [enabled |-> FALSE, url |-> WebhookAt(k).url,
                               channel |-> WebhookAt(k).channel]
      <4>1. \A v : [WebhookAt(k) EXCEPT !.enabled = v] =
                     [enabled |-> v, url |-> WebhookAt(k).url, channel |-> WebhookAt(k).channel]
        BY DEF WebhookAt
      <4> QED
        BY <4>1, Zenon DEF Off
    <3>3. WebhookAt(k + 1) = [enabled |-> WebhookOn(k + 1), url |-> WebhookAt(k + 1).url,
                              channel |-> WebhookAt(k + 1).channel]
      BY DEF WebhookAt
    <3>4. /\ WebhookAt(k + 1).url = WebhookAt(k).url
          /\ WebhookAt(k + 1).channel = WebhookAt(k).channel
      BY <1>1 DEF WebhookAt
    <3> QED
      BY <3>1, <3>2, <3>3, <3>4, Zenon
  <2>4. EmailAt(k + 1) = EmailAt(k)
    <3>1. (k + 1 > 6 => Current(file)) = (k > 6 => Current(file))
      BY <1>8
    <3> QED
      BY <1>1, <3>1, Zenon DEF EmailAt, EmailOn
  <2> QED
    BY <1>1, <1>3, <1>4, <2>2, <2>3, <2>4 DEF Migrated
<1> QED
  BY <1>6, <1>7, <1>8

\* The rows that were not there have their defaults.
LEMMA RowsStep ==
  ASSUME Database(file), Database(tx), Migrated(8), file' = file, added' = added,
         tx' = DefaultRows(tx)
  PROVE  Database(tx') /\ Migrated(9)'
<1>1. Done(8) = EveryColumn /\ Done(9) = EveryColumn /\ Fresh(9) = Fresh(8)
  BY DoneFacts DEF Fresh
<1>2. /\ Fresh(9)' = Fresh(8) /\ EmailAt(9)' = EmailAt(8) /\ WebhookAt(9)' = WebhookAt(8)
      /\ Done(9)' = EveryColumn
  <2>1. EmailAt(9)' = EmailAt(9) /\ WebhookAt(9)' = WebhookAt(9)
        /\ Fresh(9)' = Fresh(9) /\ Done(9)' = Done(9)
    BY DEF Fresh, EmailAt, WebhookAt, EmailOn, WebhookOn, Done, Current
  <2>2. (9 > 6 => Current(file)) = (8 > 6 => Current(file))
        /\ (9 > 7 => Current(file)) = (8 > 7 => Current(file))
    OBVIOUS
  <2>3. EmailAt(9) = EmailAt(8)
    BY <1>1, <2>2, Zenon DEF EmailAt, EmailOn
  <2>4. WebhookAt(9) = WebhookAt(8)
    BY <1>1, <2>2, Zenon DEF WebhookAt, WebhookOn
  <2> QED
    BY <1>1, <2>1, <2>3, <2>4
<1>3. tx.rows = file.rows
  BY DEF Migrated
<1>4. /\ Database(tx') /\ tx'.columns = tx.columns
      /\ tx'.targets = tx.targets /\ tx'.rules = tx.rules /\ tx'.settings = tx.settings
      /\ tx'.targetSeq = tx.targetSeq /\ tx'.ruleSeq = tx.ruleSeq /\ tx'.rows = SingleRows
      /\ tx'.alerts.email = IF "email" \in tx.rows THEN tx.alerts.email ELSE DefaultEmail
      /\ tx'.alerts.webhook = IF "webhook" \in tx.rows THEN tx.alerts.webhook ELSE ZeroWebhook
      /\ tx'.alerts.policy = IF "policy" \in tx.rows THEN tx.alerts.policy ELSE "10m"
      /\ tx'.alerts.push = IF "push" \in tx.rows THEN tx.alerts.push ELSE DefaultPush
  BY DefaultRowsKeep
<1> QED
  BY <1>1, <1>2, <1>3, <1>4 DEF Migrated

LEMMA SchemaFacts ==
  ASSUME NEW d
  PROVE  /\ SchemaEffect("disable email", d) = IF Templates THEN EmailOff(d) ELSE d
         /\ SchemaEffect("disable webhook", d) = IF Templates THEN WebhookOff(d) ELSE d
         /\ SchemaEffect("rows", d) = DefaultRows(d)
         /\ \A c \in EveryColumn :
              SchemaEffect(c, d) = IF c \in d.columns THEN d ELSE AddColumn(c, d)
<1>1. SchemaEffect("disable email", d) = IF Templates THEN EmailOff(d) ELSE d
  BY Names DEF SchemaEffect, EmailOff
<1>2. SchemaEffect("disable webhook", d) = IF Templates THEN WebhookOff(d) ELSE d
  BY Names DEF SchemaEffect, WebhookOff
<1>3. SchemaEffect("rows", d) = DefaultRows(d)
  BY Names DEF SchemaEffect
<1>4. \A c \in EveryColumn : SchemaEffect(c, d) = IF c \in d.columns THEN d ELSE AddColumn(c, d)
  BY Names DEF SchemaEffect
<1> QED
  BY <1>1, <1>2, <1>3, <1>4

\* Each statement of the migration.
LEMMA MigrateStep ==
  ASSUME Database(file), Database(tx), NEW k \in 1..8, todo = Rest(Migration, k), Migrated(k),
         Migrate
  PROVE  Database(tx') /\ Migrated(k + 1)' /\ todo' = Rest(Migration, k + 1)
<1>1. Migration \in Seq(MigrationSteps) /\ Len(Migration) = 8
  BY MigrationScript
<1>2. Head(todo) = Migration[k] /\ Tail(todo) = Rest(Migration, k + 1)
  BY <1>1, RestFacts
<1>3. /\ tx' = SchemaEffect(Migration[k], tx) /\ file' = file
      /\ added' = added \union ({Migration[k]} \intersect (EveryColumn \ tx.columns))
      /\ todo' = Rest(Migration, k + 1)
  BY <1>2 DEF Migrate
<1>4. CASE k \in 1..5
  <2>1. Migration[k] = Columns[k] /\ Columns[k] \in EveryColumn
    <3>1. k = 1 \/ k = 2 \/ k = 3 \/ k = 4 \/ k = 5
      BY <1>4
    <3>2. /\ Columns[1] = "enable_ipv6" /\ Columns[2] = "channel" /\ Columns[3] = "security"
          /\ Columns[4] = "subject" /\ Columns[5] = "body"
      BY DEF Columns
    <3> QED
      BY <3>1, <3>2, MigrationScript, Names
  <2>2. tx' = IF Columns[k] \in tx.columns THEN tx ELSE AddColumn(Columns[k], tx)
    BY <1>3, <2>1, SchemaFacts
  <2> QED
    BY <1>3, <1>4, <2>1, <2>2, ColumnStep
<1>5. CASE k = 6
  <2>1. tx' = IF Templates THEN EmailOff(tx) ELSE tx
    BY <1>3, <1>5, MigrationScript, SchemaFacts
  <2>2. added' = added
    BY <1>3, <1>5, MigrationScript, Names
  <2> QED
    BY <1>3, <1>5, <2>1, <2>2, DisableStep
<1>6. CASE k = 7
  <2>1. tx' = IF Templates THEN WebhookOff(tx) ELSE tx
    BY <1>3, <1>6, MigrationScript, SchemaFacts
  <2>2. added' = added
    BY <1>3, <1>6, MigrationScript, Names
  <2> QED
    BY <1>3, <1>6, <2>1, <2>2, DisableStep
<1>7. CASE k = 8
  <2>1. tx' = DefaultRows(tx)
    BY <1>3, <1>7, MigrationScript, SchemaFacts
  <2>2. added' = added
    BY <1>3, <1>7, MigrationScript, Names
  <2> QED
    BY <1>3, <1>7, <2>1, <2>2, RowsStep
<1> QED
  BY <1>4, <1>5, <1>6, <1>7

\* A migrated database has every column and is the configuration it was
\* meant to be.
LEMMA MigrationEnds ==
  ASSUME Database(file), Database(tx), Migrated(9)
  PROVE  tx.columns = EveryColumn /\ Content(tx) = Meant(file)
<1> DEFINE r == Renewed(file)
<1>1. Done(9) = EveryColumn /\ file.columns \subseteq EveryColumn
  BY DoneFacts DEF Database, Databases
<1>2. tx.columns = EveryColumn
  BY <1>1 DEF Migrated
<1>3. \A c \in EveryColumn : c \in Fresh(9) <=> c \notin file.columns
  BY <1>1 DEF Fresh
<1>4. /\ "security" \in Fresh(9) <=> "security" \notin file.columns
      /\ "subject" \in Fresh(9) <=> "subject" \notin file.columns
      /\ "body" \in Fresh(9) <=> "body" \notin file.columns
      /\ "channel" \in Fresh(9) <=> "channel" \notin file.columns
  BY <1>3, Names
<1>5. /\ tx.targets = file.targets /\ tx.rules = file.rules /\ tx.settings = file.settings
      /\ tx.rows = SingleRows
  BY DEF Migrated
<1>6. /\ r \in Databases /\ r.targets = file.targets /\ r.rules = file.rules
      /\ r.settings = file.settings /\ r.rows = file.rows
      /\ r.alerts.policy = file.alerts.policy /\ r.alerts.push = file.alerts.push
      /\ r.alerts.email =
           [enabled  |-> file.alerts.email.enabled /\ Current(file),
            complete |-> file.alerts.email.complete, port |-> file.alerts.email.port,
            security |-> IF "security" \in file.columns THEN file.alerts.email.security ELSE "auto_starttls",
            subject  |-> IF "subject" \in file.columns THEN file.alerts.email.subject ELSE "default",
            body     |-> IF "body" \in file.columns THEN file.alerts.email.body ELSE "default"]
      /\ r.alerts.webhook =
           [enabled |-> file.alerts.webhook.enabled /\ Current(file), url |-> file.alerts.webhook.url,
            channel |-> IF "channel" \in file.columns THEN file.alerts.webhook.channel ELSE "dingtalk"]
  BY RenewedFacts DEF Database
<1>7. r.alerts.email = EmailAt(9)
  <2>1. EmailOn(9) = (file.alerts.email.enabled /\ Current(file))
    BY SMT DEF EmailOn
  <2> QED
    BY <1>4, <1>6, <2>1 DEF EmailAt
<1>8. r.alerts.webhook = WebhookAt(9)
  <2>1. WebhookOn(9) = (file.alerts.webhook.enabled /\ Current(file))
    BY SMT DEF WebhookOn
  <2> QED
    BY <1>4, <1>6, <2>1 DEF WebhookAt
<1> HIDE DEF r
<1>9. tx \in Databases /\ "email" \in tx.rows /\ "webhook" \in tx.rows /\ "policy" \in tx.rows
      /\ "push" \in tx.rows
  BY <1>5, Names DEF Database
<1>10. Form(tx).email = Form(r).email
  <2>1. Form(tx).email = FillEmail(tx.alerts.email)
    BY <1>9, FormFacts
  <2>2. CASE "email" \in file.rows
    <3>1. Form(r).email = FillEmail(r.alerts.email)
      BY <1>6, <2>2, FormFacts
    <3>2. tx.alerts.email = r.alerts.email
      BY <1>7, <2>2 DEF Migrated
    <3> QED
      BY <2>1, <3>1, <3>2
  <2>3. CASE "email" \notin file.rows
    <3>1. Form(r).email = FillEmail(ZeroEmail)
      BY <1>6, <2>3, FormFacts
    <3>2. tx.alerts.email = DefaultEmail
      BY <2>3 DEF Migrated
    <3>3. FillEmail(ZeroEmail) = DefaultEmail
      <4>1. ZeroEmail.port = "" /\ ZeroEmail.security = "" /\ ZeroEmail.subject = ""
        BY DEF ZeroEmail
      <4>2. FillEmail(ZeroEmail) = [ZeroEmail EXCEPT !.body = "default", !.security = "auto_starttls",
                                                     !.port = "587", !.subject = "default"]
        BY <4>1 DEF FillEmail
      <4> QED
        BY <4>2 DEF ZeroEmail, DefaultEmail
    <3>4. FillEmail(DefaultEmail) = DefaultEmail
      <4>1. DefaultEmail \in Emails
        BY LegalTexts DEF DefaultEmail, Emails
      <4>2. DefaultEmail.port # "" /\ DefaultEmail.security # "" /\ DefaultEmail.subject # ""
        BY DEF DefaultEmail
      <4> QED
        BY <4>1, <4>2, FillEmailFacts
    <3> QED
      BY <2>1, <3>1, <3>2, <3>3, <3>4
  <2> QED
    BY <2>2, <2>3
<1>11. Form(tx).webhook = Form(r).webhook
  BY <1>6, <1>8, <1>9, FormFacts DEF Migrated
<1>12. Form(tx).policy = Form(r).policy
  <2>1. Form(tx).policy = IF tx.alerts.policy # "" THEN tx.alerts.policy ELSE "10m"
    BY <1>9, FormFacts
  <2>2. CASE "policy" \in file.rows
    <3>1. tx.alerts.policy = r.alerts.policy
      BY <1>6, <2>2 DEF Migrated
    <3>2. Form(r).policy = IF r.alerts.policy # "" THEN r.alerts.policy ELSE "10m"
      BY <1>6, <2>2, FormFacts
    <3> QED
      BY <2>1, <3>1, <3>2
  <2>3. CASE "policy" \notin file.rows
    <3>1. tx.alerts.policy = "10m"
      BY <2>3 DEF Migrated
    <3>2. Form(r).policy = "10m"
      BY <1>6, <2>3, FormFacts
    <3> QED
      BY <2>1, <3>1, <3>2
  <2> QED
    BY <2>2, <2>3
<1>13. Form(tx).push = Form(r).push
  <2>1. CASE "push" \in file.rows
    <3>1. tx.alerts.push = r.alerts.push
      BY <1>6, <2>1 DEF Migrated
    <3>2. CASE r.alerts.push.interval # ""
      <4>1. /\ "push" \in r.rows /\ "push" \in tx.rows
            /\ r.alerts.push.interval # "" /\ tx.alerts.push.interval # ""
        BY <1>6, <1>9, <2>1, <3>1, <3>2
      <4>2. Form(r).push = r.alerts.push
        BY <1>6, <4>1, FormFacts
      <4>3. Form(tx).push = tx.alerts.push
        BY <1>9, <4>1, FormFacts
      <4> QED
        BY <3>1, <4>2, <4>3
    <3>3. CASE r.alerts.push.interval = ""
      <4>1. /\ Form(r).push = [r.alerts.push EXCEPT !.interval = "60s"]
            /\ Form(tx).push = [tx.alerts.push EXCEPT !.interval = "60s"]
        <5>1. "push" \in r.rows /\ "push" \in tx.rows
              /\ r.alerts.push.interval = "" /\ tx.alerts.push.interval = ""
          BY <1>6, <1>9, <2>1, <3>1, <3>3
        <5>2. Form(r).push = [r.alerts.push EXCEPT !.interval = "60s"]
          BY <1>6, <5>1, FormFacts
        <5>3. Form(tx).push = [tx.alerts.push EXCEPT !.interval = "60s"]
          BY <1>9, <5>1, FormFacts
        <5> QED
          BY <5>2, <5>3
      <4> QED
        BY <3>1, <4>1, Zenon
    <3> QED
      BY <3>2, <3>3
  <2>2. CASE "push" \notin file.rows
    <3>1. tx.alerts.push = DefaultPush /\ DefaultPush.interval # ""
      BY <2>2 DEF Migrated, DefaultPush
    <3> QED
      BY <1>6, <1>9, <2>2, <3>1, FormFacts
  <2> QED
    BY <2>1, <2>2
<1>14. Form(tx) = Form(r)
  BY <1>6, <1>9, <1>10, <1>11, <1>12, <1>13, FormFacts
<1>15. Content(tx) = Meant(file)
  BY <1>5, <1>6, <1>14, SameContent DEF Meant, r
<1> QED
  BY <1>2, <1>15

-----------------------------------------------------------------------------
(***************************************************************************)
(* The inductive invariant.                                                *)
(***************************************************************************)
Requests == {"rule", "rerule", "unrule", "target", "untarget", "settings", "alerts", "reset", "import"}
Single == {"rule", "rerule", "unrule", "target", "untarget", "reset"}

Typed ==
  /\ Database(file) /\ Database(tx)
  /\ phase \in {"down", "opening", "loading", "running"}
  /\ exported # None => exported \in Bundles

\* What the process does, and what a process that has opened the database finds.
Stages ==
  /\ op.kind \in Requests \union {"none", "open"}
  /\ op.kind = "none" <=> op = None
  /\ op.kind = "open" <=> op = Opening
  /\ op = Opening <=> phase = "opening"
  /\ op.kind \in Requests => phase = "running"
  /\ phase \in {"loading", "running"} => file.columns = EveryColumn

\* What a handler has validated before it writes.
Fit(request) ==
  /\ request.kind \in {"rule", "rerule"} => request.host \in Hosts /\ TargetList(request.refs)
  /\ request.kind = "rerule" => request.id \in Nat \ {0} /\ request.id <= file.ruleSeq
  /\ request.kind = "target" => request.place \in Places
  /\ request.kind = "settings" =>
       /\ DOMAIN request.settings \subseteq SettingKeys
       /\ \A k \in DOMAIN request.settings : request.settings[k] \in Classes
  /\ request.kind \in {"alerts", "import"} =>
       request.alerts \in AlertForms /\ AcceptsAlerts(request.alerts)
  /\ request.kind = "import" =>
       /\ request.wire \in Bundles /\ Accepts(request.wire)
       /\ request.settings = request.wire.settings /\ request.alerts = request.wire.alerts

SameRules   == tx.rules = file.rules /\ tx.ruleSeq = file.ruleSeq
SameTargets == tx.targets = file.targets /\ tx.targetSeq = file.targetSeq
SameAlerts  == tx.rows = file.rows /\ tx.alerts = file.alerts

\* The single rows before n of the four are those of the request.
Written(n) ==
  \A i \in 1..(n - 1) :
    AlertRows[i] \in tx.rows /\ tx.alerts[AlertRows[i]] = op.alerts[AlertRows[i]]

WireTargetRows(w) ==
  {[id |-> file.targetSeq + i, place |-> w.targets.Values[i].place] : i \in DOMAIN w.targets.Values}
WireRuleRows(w) ==
  {[id |-> file.ruleSeq + i, host |-> w.rules.Values[i].host,
    targets |-> Ids(Remap(w, tx, w.rules.Values[i].refs.Values))] : i \in DOMAIN w.rules.Values}

\* The transaction of an import before its k-th statement.
Imported(k) ==
  /\ tx.columns = file.columns
  /\ tx.targetSeq = file.targetSeq + IF k > 2 THEN Len(op.wire.targets.Values) ELSE 0
  /\ tx.ruleSeq = file.ruleSeq + IF k > 3 THEN Len(op.wire.rules.Values) ELSE 0
  /\ k > 1 => tx.targets = IF k = 2 THEN {} ELSE WireTargetRows(op.wire)
  /\ k > 1 => tx.rules = IF k < 4 THEN {} ELSE WireRuleRows(op.wire)
  /\ \A i \in 4..6 : k > i => tx.settings[ImportScript[i]] = op.settings[ImportScript[i]]
  /\ k > 7 => Written(k - 6)

Progress ==
  /\ op.kind = "open" => \E k \in 1..9 : todo = Rest(Migration, k) /\ Migrated(k)
  /\ op.kind \in Single =>
       \/ todo = <<op.kind>> /\ tx = file
       \/ todo = <<>> /\ tx = Effect(op.kind, file)
  /\ op.kind = "settings" =>
       /\ todo \in Seq(DOMAIN op.settings)
       /\ SameRules /\ SameTargets /\ SameAlerts /\ tx.columns = file.columns
  /\ op.kind = "alerts" =>
       /\ SameRules /\ SameTargets /\ tx.settings = file.settings /\ tx.columns = file.columns
       /\ \E k \in 1..5 : todo = Rest(AlertRows, k) /\ Written(k)
  /\ op.kind = "import" => \E k \in 1..11 : todo = Rest(ImportScript, k) /\ Imported(k)

\* A rule that names no target applies to all of them.
Wide(r) == Parses(r.targets) /\ Refs(r.targets) = <<>>
WidelyMeant == \A r \in file.rules : Wide(r) => r.id \in said

\* What was committed last, and its single rows that a validator has taken.
Settled ==
  saved = Meant(file) /\ \A row \in SingleRows \ unchecked : AcceptsRow(row, saved.alerts[row])

BundleInv == Typed /\ Stages /\ Fit(op) /\ Progress /\ WidelyMeant /\ Settled

-----------------------------------------------------------------------------
LEMMA KindOfNone == None.kind = "none" /\ Opening.kind = "open"
BY DEF None, Opening

\* What a request with a single statement leaves.
LEMMA SingleEffects ==
  ASSUME BundleInv, op.kind \in Single, NEW e, e = Effect(op.kind, file)
  PROVE  /\ Database(e) /\ e.columns = file.columns
         /\ op.kind # "reset" => e.alerts = file.alerts /\ e.rows = file.rows
         /\ op.kind = "reset" => e = DefaultRows(Cleared(file))
         /\ op.kind \in {"target", "untarget"} => e.rules = file.rules
         /\ op.kind = "unrule" => e.rules \subseteq file.rules
         /\ op.kind = "reset" => e.rules = {}
         /\ op.kind = "rule" => e.ruleSeq = file.ruleSeq + 1 /\
              e.rules = file.rules \union {[id |-> file.ruleSeq + 1, host |-> op.host, targets |-> Ids(op.refs)]}
         /\ op.kind = "rerule" =>
              e.rules = {r \in file.rules : r.id # op.id}
                          \union {[id |-> op.id, host |-> op.host, targets |-> Ids(op.refs)]}
<1>1. Database(file) /\ file \in Databases /\ Fit(op)
  BY DEF BundleInv, Typed, Database
<1>2. CASE op.kind = "rule"
  <2>1. e = NewRule(file, op.host, Ids(op.refs))
    BY <1>2, EffectFacts
  <2>2. Database(e)
    BY <1>1, <1>2, <2>1, NewRuleKeeps DEF Fit
  <2>3. /\ e.columns = file.columns /\ e.alerts = file.alerts /\ e.rows = file.rows
        /\ e.ruleSeq = file.ruleSeq + 1
        /\ e.rules = file.rules \union {[id |-> file.ruleSeq + 1, host |-> op.host, targets |-> Ids(op.refs)]}
    BY <1>1, <2>1 DEF NewRule, Databases
  <2> QED
    BY <1>2, <2>2, <2>3
<1>3. CASE op.kind = "rerule"
  <2> DEFINE R == {r \in file.rules : r.id # op.id}
                    \union {[id |-> op.id, host |-> op.host, targets |-> Ids(op.refs)]}
  <2>1. e = [file EXCEPT !.rules = R]
    BY <1>3, EffectFacts
  <2>2. Database(e)
    BY <1>1, <1>3, <2>1, OtherRuleKeeps DEF Fit
  <2>3. e.columns = file.columns /\ e.alerts = file.alerts /\ e.rows = file.rows /\ e.rules = R
    <3> HIDE DEF R
    <3> QED
      BY <1>1, <2>1 DEF Databases
  <2> QED
    BY <1>3, <2>2, <2>3
<1>4. CASE op.kind = "unrule"
  <2> DEFINE R == {r \in file.rules : r.id # op.id}
  <2>1. e = [file EXCEPT !.rules = R]
    BY <1>4, EffectFacts
  <2>2. R \in SUBSET file.rules /\ file.targets \in SUBSET file.targets
    OBVIOUS
  <2> HIDE DEF R
  <2>3. [file EXCEPT !.rules = R, !.targets = file.targets] = e
    BY <1>1, <2>1 DEF Databases
  <2>a. Database([file EXCEPT !.rules = R, !.targets = file.targets])
    BY <1>1, <2>2, FewerKeep
  <2>4. Database(e)
    BY <2>3, <2>a
  <2>5. e.columns = file.columns /\ e.alerts = file.alerts /\ e.rows = file.rows /\ e.rules = R
    BY <1>1, <2>1 DEF Databases
  <2> QED
    BY <1>4, <2>2, <2>4, <2>5
<1>5. CASE op.kind = "target"
  <2>1. e = NewTarget(file, op.place)
    BY <1>5, EffectFacts
  <2>2. Database(e)
    BY <1>1, <1>5, <2>1, NewTargetKeeps DEF Fit
  <2>3. /\ e.columns = file.columns /\ e.alerts = file.alerts /\ e.rows = file.rows
        /\ e.rules = file.rules
    BY <1>1, <2>1 DEF NewTarget, Databases
  <2> QED
    BY <1>5, <2>2, <2>3
<1>6. CASE op.kind = "untarget"
  <2> DEFINE T == {t \in file.targets : t.id # op.id}
  <2>1. e = [file EXCEPT !.targets = T]
    BY <1>6, EffectFacts
  <2>2. T \in SUBSET file.targets /\ file.rules \in SUBSET file.rules
    OBVIOUS
  <2> HIDE DEF T
  <2>3. [file EXCEPT !.rules = file.rules, !.targets = T] = e
    BY <1>1, <2>1 DEF Databases
  <2>a. Database([file EXCEPT !.rules = file.rules, !.targets = T])
    BY <1>1, <2>2, FewerKeep
  <2>4. Database(e)
    BY <2>3, <2>a
  <2>5. /\ e.columns = file.columns /\ e.alerts = file.alerts /\ e.rows = file.rows
        /\ e.rules = file.rules
    BY <1>1, <2>1 DEF Databases
  <2> QED
    BY <1>6, <2>4, <2>5
<1>7. CASE op.kind = "reset"
  <2>1. e = DefaultRows(Cleared(file))
    BY <1>7, EffectFacts
  <2>2. Database(Cleared(file)) /\ Cleared(file).rules = {} /\ Cleared(file).columns = file.columns
    BY <1>1, ClearedKeeps
  <2>3. Database(e) /\ e.rules = {} /\ e.columns = file.columns
    BY <2>1, <2>2, DefaultRowsKeep
  <2> QED
    BY <1>7, <2>1, <2>3
<1> QED
  BY <1>2, <1>3, <1>4, <1>5, <1>6, <1>7 DEF Single

\* The alerts of a reset configuration are all sound.
LEMMA ResetSound ==
  ASSUME NEW d, Database(d), NEW e, e = DefaultRows(Cleared(d)), e.columns = EveryColumn
  PROVE  AcceptsAlerts(Form(e))
<1>1. Database(Cleared(d)) /\ Cleared(d).rows = {}
  BY ClearedKeeps
<1>2. /\ Database(e) /\ e.alerts.email = DefaultEmail /\ e.alerts.webhook = ZeroWebhook
      /\ e.alerts.policy = "10m" /\ e.alerts.push = DefaultPush
  BY <1>1, DefaultRowsKeep
<1>3. e \in Databases
  BY <1>2 DEF Database
<1>4. ASSUME NEW row \in SingleRows PROVE SoundRow(row, e)
  <2>1. CASE row = "email"
    <3>1. /\ DefaultEmail.port = "587" /\ DefaultEmail.security = "auto_starttls"
          /\ DefaultEmail.subject = "default" /\ DefaultEmail.body = "default"
          /\ DefaultEmail.enabled = FALSE
      BY DEF DefaultEmail
    <3> QED
      BY <1>2, <2>1, <3>1, LegalTexts DEF SoundRow, Securities
  <2>2. CASE row = "webhook"
    <3>1. ZeroWebhook.enabled = FALSE /\ ZeroWebhook.channel = ""
      BY DEF ZeroWebhook
    <3> QED
      BY <1>2, <2>2, <3>1 DEF SoundRow
  <2>3. CASE row = "policy"
    BY <1>2, <2>3, LegalTexts DEF SoundRow
  <2>4. CASE row = "push"
    <3>1. DefaultPush.enabled = FALSE /\ DefaultPush.interval = "60s"
      BY DEF DefaultPush
    <3> QED
      BY <1>2, <2>4, <3>1, LegalTexts DEF SoundRow
  <2> QED
    BY <2>1, <2>2, <2>3, <2>4, Names
<1>5. \A row \in SingleRows : AcceptsRow(row, Meant(e).alerts[row])
  BY <1>3, <1>4, FormAccepted
<1>6. Meant(e).alerts = Form(e)
  BY <1>3, NothingToRenew DEF Meant, Content
<1> QED
  BY <1>5, <1>6 DEF AcceptsAlerts

\* When its four rows are written the form is the one that was sent.
LEMMA AllWritten ==
  ASSUME Database(tx), op.alerts \in AlertForms, AcceptsAlerts(op.alerts), Written(5)
  PROVE  Form(tx) = op.alerts
<1> DEFINE a == op.alerts
<1>1. /\ "policy" \in tx.rows /\ tx.alerts["policy"] = a["policy"]
      /\ "email" \in tx.rows /\ tx.alerts["email"] = a["email"]
      /\ "webhook" \in tx.rows /\ tx.alerts["webhook"] = a["webhook"]
      /\ "push" \in tx.rows /\ tx.alerts["push"] = a["push"]
  <2>1. \A i \in 1..4 : AlertRows[i] \in tx.rows /\ tx.alerts[AlertRows[i]] = a[AlertRows[i]]
    BY DEF Written
  <2>2. /\ AlertRows[1] \in tx.rows /\ tx.alerts[AlertRows[1]] = a[AlertRows[1]]
        /\ AlertRows[2] \in tx.rows /\ tx.alerts[AlertRows[2]] = a[AlertRows[2]]
        /\ AlertRows[3] \in tx.rows /\ tx.alerts[AlertRows[3]] = a[AlertRows[3]]
        /\ AlertRows[4] \in tx.rows /\ tx.alerts[AlertRows[4]] = a[AlertRows[4]]
    BY <2>1
  <2> QED
    BY <2>2, AlertScript
<1>2. /\ a.email.port # "" /\ a.email.security # "" /\ a.email.subject # ""
      /\ a.policy # "" /\ a.push.interval # ""
  <2>1. AcceptsRow("email", a["email"]) /\ AcceptsRow("policy", a["policy"]) /\ AcceptsRow("push", a["push"])
    BY Names DEF AcceptsAlerts
  <2>2. AcceptsEmail(a.email) /\ a.policy \in Durations /\ AcceptsPush(a.push)
    BY <2>1 DEF AcceptsRow
  <2> QED
    BY <2>2, LegalTexts DEF AcceptsEmail, AcceptsPush, Securities
<1>3. tx \in Databases /\ a.email \in Emails
  BY DEF Database, AlertForms
<1>4. Form(tx).email = a.email
  <2>1. Form(tx).email = FillEmail(tx.alerts.email)
    BY <1>1, <1>3, FormFacts
  <2>2. FillEmail(a.email) = a.email
    BY <1>2, <1>3, FillEmailFacts
  <2> QED
    BY <1>1, <2>1, <2>2
<1>5. Form(tx).webhook = a.webhook /\ Form(tx).policy = a.policy /\ Form(tx).push = a.push
  BY <1>1, <1>2, <1>3, FormFacts
<1>6. Form(tx) = a
  <2>1. a = [email |-> a.email, webhook |-> a.webhook, policy |-> a.policy, push |-> a.push]
    BY DEF AlertForms
  <2> QED
    BY <1>3, <1>4, <1>5, <2>1, FormFacts
<1> QED
  BY <1>6
-----------------------------------------------------------------------------
(***************************************************************************)
(* Every step keeps the invariant.                                         *)
(***************************************************************************)
LEMMA InitKeeps == Init => BundleInv
<1> SUFFICES ASSUME Init PROVE BundleInv
  OBVIOUS
<1>1. Database(file) /\ tx = file
  BY BundleAssumption DEF BundleAssumption, Init, Database
<1>2. Typed
  BY <1>1 DEF Init, Typed
<1>3. op.kind = "none" /\ op # Opening
  BY KindOfNone DEF Init
<1>4. Stages /\ Fit(op) /\ Progress
  BY <1>3 DEF Init, Stages, Fit, Progress, Requests, Single
<1>5. WidelyMeant
  <2> SUFFICES ASSUME NEW r \in file.rules, Wide(r) PROVE r.id \in said
    BY DEF WidelyMeant
  <2>1. r.targets \in RefColumns
    BY <1>1 DEF Database, Databases, RuleRows
  <2>2. r.targets = [kind |-> r.targets.kind, ids |-> r.targets.ids]
    BY <2>1 DEF RefColumns
  <2>3. r.targets.kind = "blank" \/ r.targets = Ids(<<>>)
    BY <2>2 DEF Wide, Parses, Refs, Ids
  <2> QED
    BY <2>3 DEF Init
<1>6. Settled
  <2> SUFFICES ASSUME NEW row \in SingleRows \ unchecked
               PROVE  AcceptsRow(row, Meant(file).alerts[row])
    BY DEF Settled, Init
  <2>1. row \in file.rows => SoundRow(row, file)
    BY DEF Init
  <2> QED
    BY <1>1, <2>1, FormAccepted DEF Database
<1> QED
  BY <1>2, <1>4, <1>5, <1>6 DEF BundleInv

LEMMA BeginKeeps ==
  ASSUME BundleInv, NEW request, NEW statements, request.kind \in Requests, Fit(request),
         Begin(request, statements)
  PROVE  /\ (Typed /\ Stages /\ Fit(op) /\ WidelyMeant /\ Settled)'
         /\ file' = file /\ tx' = file /\ op' = request /\ todo' = statements
<1>1. /\ file' = file /\ tx' = file /\ op' = request /\ todo' = statements
      /\ phase = "running" /\ phase' = "running" /\ exported' = exported
      /\ said' = said /\ saved' = saved /\ unchecked' = unchecked
  BY DEF Begin, history
<1>2. Typed' /\ WidelyMeant' /\ Settled' /\ Fit(op)'
  BY <1>1 DEF BundleInv, Typed, WidelyMeant, Settled, Fit
<1>3. request.kind # "none" /\ request.kind # "open" /\ request # None /\ request # Opening
  BY KindOfNone DEF Requests
<1>4. Stages'
  BY <1>1, <1>3 DEF BundleInv, Stages
<1> QED
  BY <1>1, <1>2, <1>4

\* A request with one statement, begun.
LEMMA SingleBegins ==
  ASSUME BundleInv, NEW request, request.kind \in Single, Fit(request),
         Begin(request, <<request.kind>>)
  PROVE  BundleInv'
<1>1. request.kind \in Requests
  BY DEF Single, Requests
<1>2. /\ (Typed /\ Stages /\ Fit(op) /\ WidelyMeant /\ Settled)'
      /\ file' = file /\ tx' = file /\ op' = request /\ todo' = <<request.kind>>
  BY <1>1, BeginKeeps
<1>3. Progress'
  BY <1>2 DEF Progress, Single
<1> QED
  BY <1>2, <1>3 DEF BundleInv

LEMMA TargetListsFacts ==
  ASSUME BundleInv, NEW refs \in TargetLists
  PROVE  TargetList(refs)
<1>1. TargetIDs(file) \subseteq Nat
  BY DEF BundleInv, Typed, Database, Databases, TargetRows, TargetIDs
<1>2. PICK n \in 0..2 : refs \in [1..n -> TargetIDs(file)]
  BY DEF TargetLists
<1>3. refs \in Seq(Nat)
  BY <1>1, <1>2
<1> QED
  BY <1>3 DEF TargetLists, TargetList

LEMMA PostRuleKeeps == ASSUME BundleInv, PostRule PROVE BundleInv'
<1>1. PICK h \in Hosts, refs \in TargetLists :
        Begin([kind |-> "rule", host |-> h, refs |-> refs], <<"rule">>)
  BY DEF PostRule
<1> DEFINE request == [kind |-> "rule", host |-> h, refs |-> refs]
<1>2. TargetList(refs)
  BY TargetListsFacts
<1>3. request.kind = "rule" /\ request.kind \in Single /\ Fit(request)
  BY <1>2 DEF Single, Fit
<1> HIDE DEF request
<1>4. Begin(request, <<request.kind>>)
  BY <1>1, <1>3 DEF request
<1> QED
  BY <1>3, <1>4, SingleBegins

LEMMA PutRuleKeeps == ASSUME BundleInv, PutRule PROVE BundleInv'
<1>1. PICK r \in file.rules, h \in Hosts, refs \in TargetLists :
        Begin([kind |-> "rerule", id |-> r.id, host |-> h, refs |-> refs], <<"rerule">>)
  BY DEF PutRule
<1> DEFINE request == [kind |-> "rerule", id |-> r.id, host |-> h, refs |-> refs]
<1>2. TargetList(refs)
  BY TargetListsFacts
<1>3. r.id \in Nat \ {0} /\ r.id <= file.ruleSeq
  BY DEF BundleInv, Typed, Database, Databases, RuleRows, Keyed
<1>4. request.kind = "rerule" /\ request.kind \in Single /\ Fit(request)
  BY <1>2, <1>3 DEF Single, Fit
<1> HIDE DEF request
<1>5. Begin(request, <<request.kind>>)
  BY <1>1, <1>4 DEF request
<1> QED
  BY <1>4, <1>5, SingleBegins

LEMMA RemoveRuleKeeps == ASSUME BundleInv, RemoveRule PROVE BundleInv'
<1>1. PICK r \in file.rules : Begin([kind |-> "unrule", id |-> r.id], <<"unrule">>)
  BY DEF RemoveRule
<1> DEFINE request == [kind |-> "unrule", id |-> r.id]
<1>2. request.kind = "unrule" /\ request.kind \in Single /\ Fit(request)
  BY DEF Single, Fit
<1> HIDE DEF request
<1>3. Begin(request, <<request.kind>>)
  BY <1>1, <1>2 DEF request
<1> QED
  BY <1>2, <1>3, SingleBegins

LEMMA PostTargetKeeps == ASSUME BundleInv, PostTarget PROVE BundleInv'
<1>1. PICK p \in Places : Begin([kind |-> "target", place |-> p], <<"target">>)
  BY DEF PostTarget
<1> DEFINE request == [kind |-> "target", place |-> p]
<1>2. request.kind = "target" /\ request.kind \in Single /\ Fit(request)
  BY DEF Single, Fit
<1> HIDE DEF request
<1>3. Begin(request, <<request.kind>>)
  BY <1>1, <1>2 DEF request
<1> QED
  BY <1>2, <1>3, SingleBegins

LEMMA RemoveTargetKeeps == ASSUME BundleInv, RemoveTarget PROVE BundleInv'
<1>1. PICK id \in TargetIDs(file) : Begin([kind |-> "untarget", id |-> id], <<"untarget">>)
  BY DEF RemoveTarget
<1> DEFINE request == [kind |-> "untarget", id |-> id]
<1>2. request.kind = "untarget" /\ request.kind \in Single /\ Fit(request)
  BY DEF Single, Fit
<1> HIDE DEF request
<1>3. Begin(request, <<request.kind>>)
  BY <1>1, <1>2 DEF request
<1> QED
  BY <1>2, <1>3, SingleBegins

LEMMA ResetKeeps == ASSUME BundleInv, Reset PROVE BundleInv'
<1> DEFINE request == [kind |-> "reset"]
<1>1. request.kind = "reset" /\ request.kind \in Single /\ Fit(request)
  BY DEF Single, Fit
<1>2. Begin(request, <<"reset">>)
  BY DEF Reset
<1> HIDE DEF request
<1>3. Begin(request, <<request.kind>>)
  BY <1>1, <1>2
<1> QED
  BY <1>1, <1>3, SingleBegins

\* An order of the keys of a request.
LEMMA OrdersAreSequences ==
  ASSUME NEW S, IsFiniteSet(S), NEW s \in SetToSeqs(S)
  PROVE  s \in Seq(S)
<1>1. Cardinality(S) \in Nat
  BY FS_CardinalityType
<1>2. s \in [1..Cardinality(S) -> S]
  BY DEF SetToSeqs
<1> QED
  BY <1>1, <1>2, SeqDef

LEMMA PutSettingsKeeps == ASSUME BundleInv, PutSettings PROVE BundleInv'
<1>1. PICK K \in {{"tag"}, {"tc_access_id"}, {"tag", "tc_access_id"}, {"sync_enabled"}} :
        \E order \in SetToSeqs(K), v \in [K -> Texts \union {"", "true", "false"}] :
          Begin([kind |-> "settings", settings |-> v], order)
  BY DEF PutSettings
<1>2. PICK order \in SetToSeqs(K), v \in [K -> Texts \union {"", "true", "false"}] :
        Begin([kind |-> "settings", settings |-> v], order)
  BY <1>1
<1> DEFINE request == [kind |-> "settings", settings |-> v]
<1>3. K \subseteq SettingKeys /\ IsFiniteSet(K)
  <2>1. IsFiniteSet({"tag"}) /\ IsFiniteSet({"tc_access_id"}) /\ IsFiniteSet({"sync_enabled"})
    BY FS_Singleton
  <2>2. IsFiniteSet({"tag"} \union {"tc_access_id"})
    BY <2>1, FS_AddElement
  <2>a. {"tag"} \union {"tc_access_id"} = {"tag", "tc_access_id"}
    BY Zenon
  <2>3. IsFiniteSet({"tag", "tc_access_id"})
    BY <2>2, <2>a
  <2> QED
    BY <1>1, <2>1, <2>3, Names
<1>4. Texts \union {"", "true", "false"} \subseteq Classes
  BY BundleAssumption DEF BundleAssumption
<1>5. order \in Seq(K)
  BY <1>3, OrdersAreSequences
<1>6. request.kind = "settings" /\ request.kind \in Requests /\ DOMAIN request.settings = K
  BY DEF Requests
<1>7. Fit(request)
  BY <1>3, <1>4 DEF Fit
<1> HIDE DEF request
<1>8. Begin(request, order)
  BY <1>2 DEF request
<1>9. /\ (Typed /\ Stages /\ Fit(op) /\ WidelyMeant /\ Settled)'
      /\ file' = file /\ tx' = file /\ op' = request /\ todo' = order
  BY <1>6, <1>7, <1>8, BeginKeeps
<1>10. Progress'
  BY <1>5, <1>6, <1>9 DEF Progress, Single, SameRules, SameTargets, SameAlerts
<1> QED
  BY <1>9, <1>10 DEF BundleInv

LEMMA PutAlertsKeeps == ASSUME BundleInv, PutAlerts PROVE BundleInv'
<1>1. PICK form \in Forms \union {Form(file)} :
        AcceptsAlerts(form) /\ Begin([kind |-> "alerts", alerts |-> form], AlertRows)
  BY DEF PutAlerts
<1> DEFINE request == [kind |-> "alerts", alerts |-> form]
<1>2. form \in AlertForms
  BY FormFacts, BundleAssumption DEF BundleAssumption, BundleInv, Typed, Database
<1>3. request.kind = "alerts" /\ request.kind \in Requests /\ Fit(request)
  BY <1>1, <1>2 DEF Requests, Fit
<1> HIDE DEF request
<1>4. Begin(request, AlertRows)
  BY <1>1 DEF request
<1>5. /\ (Typed /\ Stages /\ Fit(op) /\ WidelyMeant /\ Settled)'
      /\ file' = file /\ tx' = file /\ op' = request /\ todo' = AlertRows
  BY <1>3, <1>4, BeginKeeps
<1>6. todo' = Rest(AlertRows, 1)
  BY <1>5, AlertScript, RestFacts
<1>7. Written(1)'
  BY DEF Written
<1>8. /\ tx'.rules = file'.rules /\ tx'.ruleSeq = file'.ruleSeq /\ tx'.targets = file'.targets
      /\ tx'.targetSeq = file'.targetSeq /\ tx'.settings = file'.settings /\ tx'.columns = file'.columns
  BY <1>5
<1>9. \E k \in 1..5 : todo' = Rest(AlertRows, k) /\ Written(k)'
  BY <1>6, <1>7
<1>10. Progress'
  BY <1>3, <1>5, <1>8, <1>9 DEF Progress, Single, SameRules, SameTargets
<1> QED
  BY <1>5, <1>10 DEF BundleInv

LEMMA ImportKeeps == ASSUME BundleInv, Import PROVE BundleInv'
<1>1. PICK w \in Wires :
        /\ Accepts(w)
        /\ Begin([kind |-> "import", wire |-> w, settings |-> w.settings, alerts |-> w.alerts],
                 ImportScript)
  BY DEF Import
<1> DEFINE request == [kind |-> "import", wire |-> w, settings |-> w.settings, alerts |-> w.alerts]
<1>2. w \in Bundles
  BY BundleAssumption DEF BundleAssumption, Wires, BundleInv, Typed
<1>3. w.alerts \in AlertForms /\ AcceptsAlerts(w.alerts)
  BY <1>1, <1>2 DEF Bundles, Accepts
<1>4. request.kind = "import" /\ request.kind \in Requests /\ Fit(request)
  BY <1>1, <1>2, <1>3 DEF Requests, Fit
<1> HIDE DEF request
<1>5. Begin(request, ImportScript)
  BY <1>1 DEF request
<1>6. /\ (Typed /\ Stages /\ Fit(op) /\ WidelyMeant /\ Settled)'
      /\ file' = file /\ tx' = file /\ op' = request /\ todo' = ImportScript
  BY <1>4, <1>5, BeginKeeps
<1>7. todo' = Rest(ImportScript, 1)
  BY <1>6, ImportSteps, RestFacts
<1>8. Imported(1)'
  <2>1. file.targetSeq \in Nat /\ file.ruleSeq \in Nat
    BY DEF BundleInv, Typed, Database, Databases
  <2> QED
    BY <1>6, <2>1 DEF Imported
<1>9. \E k \in 1..11 : todo' = Rest(ImportScript, k) /\ Imported(k)'
  BY <1>7, <1>8
<1>10. Progress'
  BY <1>4, <1>6, <1>9 DEF Progress, Single
<1> QED
  BY <1>6, <1>10 DEF BundleInv
\* Statements.
LEMMA Scripts ==
  /\ \A k \in 1..4 : /\ Rest(AlertRows, k) # <<>> /\ Head(Rest(AlertRows, k)) = AlertRows[k]
                     /\ Tail(Rest(AlertRows, k)) = Rest(AlertRows, k + 1)
  /\ Rest(AlertRows, 5) = <<>>
  /\ \A k \in 1..10 : /\ Rest(ImportScript, k) # <<>> /\ Head(Rest(ImportScript, k)) = ImportScript[k]
                      /\ Tail(Rest(ImportScript, k)) = Rest(ImportScript, k + 1)
  /\ Rest(ImportScript, 11) = <<>>
  /\ \A k \in 1..8 : Rest(Migration, k) # <<>>
  /\ Rest(Migration, 1) = Migration /\ Rest(Migration, 9) = <<>>
<1>1. /\ AlertRows \in Seq(SingleRows) /\ Len(AlertRows) = 4 /\ Len(AlertRows) + 1 = 5
  BY AlertScript
<1>2. /\ ImportScript \in Seq(Steps) /\ Len(ImportScript) = 10 /\ Len(ImportScript) + 1 = 11
  BY ImportSteps
<1>3. /\ Migration \in Seq(MigrationSteps) /\ Len(Migration) = 8
  BY MigrationScript
<1>4. Rest(AlertRows, 5) = <<>> /\ Rest(ImportScript, 11) = <<>>
  <2>1. Rest(AlertRows, Len(AlertRows) + 1) = <<>>
    BY <1>1, RestFacts
  <2>2. Rest(ImportScript, Len(ImportScript) + 1) = <<>>
    BY <1>2, RestFacts
  <2> QED
    BY <1>1, <1>2, <2>1, <2>2
<1>5. \A k \in 1..4 : /\ Rest(AlertRows, k) # <<>> /\ Head(Rest(AlertRows, k)) = AlertRows[k]
                       /\ Tail(Rest(AlertRows, k)) = Rest(AlertRows, k + 1)
  BY <1>1, RestFacts
<1>6. \A k \in 1..10 : /\ Rest(ImportScript, k) # <<>> /\ Head(Rest(ImportScript, k)) = ImportScript[k]
                        /\ Tail(Rest(ImportScript, k)) = Rest(ImportScript, k + 1)
  BY <1>2, RestFacts
<1>7. (\A k \in 1..8 : Rest(Migration, k) # <<>>) /\ Rest(Migration, 1) = Migration
  BY <1>3, RestFacts
<1>8. Rest(Migration, 9) = <<>>
  <2>1. Rest(Migration, Len(Migration) + 1) = <<>>
    BY <1>3, RestFacts
  <2>2. Len(Migration) + 1 = 9
    BY <1>3
  <2> QED
    BY <2>1, <2>2
<1> QED
  BY <1>4, <1>5, <1>6, <1>7, <1>8

LEMMA RowEffect ==
  ASSUME NEW d, NEW row \in SingleRows
  PROVE  Effect(row, d) = SaveRow(d, row, op.alerts[row])
BY EffectFacts

LEMMA KeyEffect ==
  ASSUME NEW d, NEW k \in SettingKeys
  PROVE  Effect(k, d) = [d EXCEPT !.settings = [@ EXCEPT ![k] = op.settings[k]]]
BY EffectFacts

LEMMA WriteStep ==
  ASSUME Database(tx), op.alerts \in AlertForms, op' = op, NEW n \in 1..4, Written(n),
         tx' = SaveRow(tx, AlertRows[n], op.alerts[AlertRows[n]])
  PROVE  /\ Database(tx') /\ Written(n + 1)'
         /\ tx'.rules = tx.rules /\ tx'.ruleSeq = tx.ruleSeq
         /\ tx'.targets = tx.targets /\ tx'.targetSeq = tx.targetSeq
         /\ tx'.settings = tx.settings /\ tx'.columns = tx.columns
<1> DEFINE row == AlertRows[n]
           a == op.alerts
<1>0. AlertRows[n] \in SingleRows
  BY AlertScript
<1>1. row \in SingleRows /\ a \in AlertForms /\ tx' = SaveRow(tx, row, a[row])
  BY <1>0
<1> HIDE DEF row, a
<1>2. /\ Database(tx')
      /\ tx'.rules = tx.rules /\ tx'.ruleSeq = tx.ruleSeq
      /\ tx'.targets = tx.targets /\ tx'.targetSeq = tx.targetSeq
      /\ tx'.settings = tx.settings /\ tx'.columns = tx.columns
      /\ tx'.rows = tx.rows \union {row} /\ tx'.alerts = [tx.alerts EXCEPT ![row] = a[row]]
  BY <1>1, SaveRowKeeps
<1>3. tx.alerts \in AlertForms /\ DOMAIN tx.alerts = SingleRows
  BY Names DEF Database, Databases, AlertForms
<1>4. \A i \in 1..(n - 1) : AlertRows[i] # AlertRows[n] /\ AlertRows[i] \in SingleRows
  <2>1. n = 1 \/ n = 2 \/ n = 3 \/ n = 4
    OBVIOUS
  <2>2. \A i \in 1..(n - 1) : i < n /\ (i = 1 \/ i = 2 \/ i = 3)
    OBVIOUS
  <2> QED
    BY <2>1, <2>2, AlertScript, Names
<1>5. \A i \in 1..n :
        AlertRows[i] \in tx'.rows /\ tx'.alerts[AlertRows[i]] = op.alerts[AlertRows[i]]
  <2> TAKE i \in 1..n
  <2>1. CASE i = n
    BY <1>1, <1>2, <1>3, <2>1 DEF row, a
  <2>2. CASE i # n
    <3>1. i \in 1..(n - 1)
      BY <2>2
    <3>2. AlertRows[i] \in tx.rows /\ tx.alerts[AlertRows[i]] = op.alerts[AlertRows[i]]
      BY <3>1 DEF Written
    <3>3. AlertRows[i] # AlertRows[n] /\ AlertRows[i] \in SingleRows
      BY <1>4, <3>1
    <3> QED
      BY <1>2, <1>3, <3>2, <3>3 DEF row
  <2> QED
    BY <2>1, <2>2
<1>6. Written(n + 1)'
  BY <1>5 DEF Written
<1> QED
  BY <1>2, <1>6

LEMMA RowsOfWire ==
  ASSUME file' = file, tx'.targetSeq = tx.targetSeq, NEW w
  PROVE  WireTargetRows(w)' = WireTargetRows(w) /\ WireRuleRows(w)' = WireRuleRows(w)
<1>1. \A refs : Remap(w, tx, refs)' = Remap(w, tx, refs)
  BY DEF Remap, NewId
<1> QED
  BY <1>1 DEF WireTargetRows, WireRuleRows

\* What an import keeps in every statement but its own.
LEMMA ImportFrame ==
  ASSUME NEW k \in 4..10, Imported(k), op.kind = "import", file' = file, op' = op,
         tx'.columns = tx.columns, tx'.targetSeq = tx.targetSeq, tx'.ruleSeq = tx.ruleSeq,
         tx'.targets = tx.targets, tx'.rules = tx.rules,
         \A i \in 4..6 : k + 1 > i => tx'.settings[ImportScript[i]] = op.settings[ImportScript[i]],
         k + 1 > 7 => Written(k + 1 - 6)'
  PROVE  Imported(k + 1)'
<1>1. WireTargetRows(op.wire)' = WireTargetRows(op.wire) /\ WireRuleRows(op.wire)' = WireRuleRows(op.wire)
  <2>1. \A w : WireTargetRows(w)' = WireTargetRows(w) /\ WireRuleRows(w)' = WireRuleRows(w)
    BY RowsOfWire
  <2> QED
    BY <2>1
<1>2. /\ tx.columns = file.columns
      /\ tx.targetSeq = file.targetSeq + Len(op.wire.targets.Values)
      /\ tx.ruleSeq = file.ruleSeq + Len(op.wire.rules.Values)
      /\ tx.targets = WireTargetRows(op.wire) /\ tx.rules = WireRuleRows(op.wire)
  BY DEF Imported
<1> QED
  BY <1>1, <1>2 DEF Imported

LEMMA ImportStep ==
  ASSUME BundleInv, op.kind = "import", NEW k \in 1..10, Imported(k),
         file' = file, op' = op, tx' = Effect(ImportScript[k], tx)
  PROVE  Database(tx') /\ Imported(k + 1)'
<1> DEFINE w == op.wire
<1>1. /\ w \in Bundles /\ Accepts(w) /\ op.settings = w.settings
      /\ op.alerts \in AlertForms /\ AcceptsAlerts(op.alerts)
  BY DEF BundleInv, Fit
<1>2. Database(tx) /\ Database(file)
  BY DEF BundleInv, Typed
<1>3. /\ file.targetSeq \in Nat /\ file.ruleSeq \in Nat
      /\ Len(w.targets.Values) \in Nat /\ Len(w.rules.Values) \in Nat
  <2>1. file.targetSeq \in Nat /\ file.ruleSeq \in Nat
    BY <1>2 DEF Database, Databases
  <2>2. w.targets.Values \in Seq(WireTargets) /\ w.rules.Values \in Seq(WireRules)
    BY <1>1, WireFacts
  <2> HIDE DEF w
  <2>3. Len(w.targets.Values) \in Nat
    BY <2>2
  <2>4. Len(w.rules.Values) \in Nat
    BY <2>2
  <2> QED
    BY <2>1, <2>3, <2>4
<1>4. CASE k = 1
  <2>1. tx' = Cleared(tx)
    BY <1>4, ImportSteps, EffectFacts
  <2>2. Database(tx') /\ tx'.rules = {} /\ tx'.targets = {} /\ tx'.columns = tx.columns
        /\ tx'.ruleSeq = tx.ruleSeq /\ tx'.targetSeq = tx.targetSeq
    BY <1>2, <2>1, ClearedKeeps
  <2>3. tx.columns = file.columns /\ tx.ruleSeq = file.ruleSeq /\ tx.targetSeq = file.targetSeq
    BY <1>3, <1>4 DEF Imported
  <2> QED
    BY <1>3, <1>4, <2>2, <2>3 DEF Imported
<1>5. CASE k = 2
  <2>1. tx' = InsertTargets(w, tx)
    BY <1>5, ImportSteps, EffectFacts
  <2>2. /\ tx.columns = file.columns /\ tx.ruleSeq = file.ruleSeq /\ tx.targetSeq = file.targetSeq
        /\ tx.targets = {} /\ tx.rules = {}
    BY <1>3, <1>5 DEF Imported
  <2>3. /\ Database(tx') /\ tx'.rules = {} /\ tx'.columns = file.columns
        /\ tx'.ruleSeq = file.ruleSeq /\ tx'.targetSeq = file.targetSeq + Len(w.targets.Values)
        /\ tx'.targets = AddedTargets(w, tx)
    <3>1. /\ Database(tx') /\ tx'.rules = tx.rules /\ tx'.columns = tx.columns
          /\ tx'.ruleSeq = tx.ruleSeq /\ tx'.targetSeq = tx.targetSeq + Len(w.targets.Values)
          /\ tx'.targets = tx.targets \union AddedTargets(w, tx)
      <4> HIDE DEF w
      <4> QED
        BY <1>1, <1>2, <2>1, InsertTargetsKeeps
    <3> QED
      BY <2>2, <3>1
  <2>4. tx'.targets = WireTargetRows(w)'
    BY <2>2, <2>3 DEF WireTargetRows, AddedTargets
  <2>5. WireTargetRows(op.wire)' = WireTargetRows(w)'
    OBVIOUS
  <2> HIDE DEF w
  <2>6. /\ tx'.columns = file'.columns
        /\ tx'.targetSeq = file'.targetSeq + Len(op'.wire.targets.Values)
        /\ tx'.ruleSeq = file'.ruleSeq + 0 /\ tx'.targets = WireTargetRows(op.wire)' /\ tx'.rules = {}
    BY <1>3, <2>3, <2>4, <2>5 DEF w
  <2> QED
    BY <1>5, <2>3, <2>6 DEF Imported
<1>6. CASE k = 3
  <2>1. tx' = InsertRules(w, tx)
    BY <1>6, ImportSteps, EffectFacts
  <2>2. /\ tx.columns = file.columns /\ tx.ruleSeq = file.ruleSeq
        /\ tx.targetSeq = file.targetSeq + Len(w.targets.Values)
        /\ tx.targets = WireTargetRows(w) /\ tx.rules = {}
    BY <1>3, <1>6 DEF Imported
  <2>3. Len(w.targets.Values) <= tx.targetSeq
    BY <1>3, <2>2
  <2>4. /\ Database(tx') /\ tx'.columns = tx.columns
        /\ tx'.targetSeq = tx.targetSeq /\ tx'.targets = tx.targets
        /\ tx'.ruleSeq = tx.ruleSeq + Len(w.rules.Values)
        /\ tx'.rules = tx.rules \union AddedRules(w, tx)
    <3> HIDE DEF w
    <3> QED
      BY <1>1, <1>2, <2>1, <2>3, InsertRulesKeeps
  <2>5. tx'.rules = WireRuleRows(w)
    BY <2>2, <2>4 DEF WireRuleRows, AddedRules
  <2>6. \A v : WireTargetRows(v)' = WireTargetRows(v) /\ WireRuleRows(v)' = WireRuleRows(v)
    BY <2>4, RowsOfWire
  <2>7. WireTargetRows(op.wire)' = WireTargetRows(w) /\ WireRuleRows(op.wire)' = WireRuleRows(w)
    BY <2>6
  <2> HIDE DEF w
  <2>8. /\ tx'.columns = file'.columns
        /\ tx'.targetSeq = file'.targetSeq + Len(op'.wire.targets.Values)
        /\ tx'.ruleSeq = file'.ruleSeq + Len(op'.wire.rules.Values)
        /\ tx'.targets = WireTargetRows(op.wire)' /\ tx'.rules = WireRuleRows(op.wire)'
    BY <2>2, <2>4, <2>5, <2>7 DEF w
  <2> QED
    BY <1>6, <2>4, <2>8 DEF Imported
<1>7. CASE k \in 4..6
  <2> DEFINE key == ImportScript[k]
  <2>1. key \in SettingKeys /\ \A i \in 4..6 : i # k => ImportScript[i] # key
    <3>1. k = 4 \/ k = 5 \/ k = 6
      BY <1>7
    <3>2. \A i \in 4..6 : i = 4 \/ i = 5 \/ i = 6
      OBVIOUS
    <3> QED
      BY <3>1, <3>2, ImportSteps, Names
  <2>2. w.settings[key] \in Classes
    BY <1>1, <2>1 DEF Bundles
  <2>a. Effect(key, tx) = [tx EXCEPT !.settings = [@ EXCEPT ![key] = op.settings[key]]]
    BY <2>1, KeyEffect
  <2> HIDE DEF key
  <2>3. tx' = [tx EXCEPT !.settings = [@ EXCEPT ![key] = w.settings[key]]]
    BY <1>1, <2>a DEF key
  <2>4. /\ Database(tx') /\ tx'.columns = tx.columns
        /\ tx'.rules = tx.rules /\ tx'.targets = tx.targets
        /\ tx'.ruleSeq = tx.ruleSeq /\ tx'.targetSeq = tx.targetSeq
        /\ tx'.settings = [tx.settings EXCEPT ![key] = w.settings[key]]
    BY <1>2, <2>1, <2>2, <2>3, SettingKeeps
  <2>5. DOMAIN tx.settings = SettingKeys
    BY <1>2 DEF Database, Databases
  <2>6. \A i \in 4..6 : k + 1 > i => tx'.settings[ImportScript[i]] = op.settings[ImportScript[i]]
    <3> SUFFICES ASSUME NEW i \in 4..6, k + 1 > i
                 PROVE  tx'.settings[ImportScript[i]] = op.settings[ImportScript[i]]
      OBVIOUS
    <3>1. CASE i = k
      BY <1>1, <2>1, <2>4, <2>5, <3>1 DEF key
    <3>2. CASE i # k
      <4>1. k > i /\ ImportScript[i] # key
        BY <1>7, <2>1, <3>2
      <4>2. tx.settings[ImportScript[i]] = op.settings[ImportScript[i]]
        BY <4>1 DEF Imported
      <4>3. ImportScript[i] \in SettingKeys
        <5>1. i = 4 \/ i = 5 \/ i = 6
          OBVIOUS
        <5> QED
          BY <5>1, ImportSteps, Names
      <4> QED
        BY <2>4, <2>5, <4>1, <4>2, <4>3
    <3> QED
      BY <3>1, <3>2
  <2>7. k + 1 > 7 => Written(k + 1 - 6)'
    BY <1>7
  <2> QED
    BY <1>7, <2>4, <2>6, <2>7, ImportFrame
<1>8. CASE k \in 7..10
  <2> DEFINE n == k - 6
  <2>1. n \in 1..4 /\ n + 1 = k + 1 - 6
    BY <1>8
  <2>2. ImportScript[k] = AlertRows[n] /\ AlertRows[n] \in SingleRows
    <3>1. k = 7 \/ k = 8 \/ k = 9 \/ k = 10
      BY <1>8
    <3> QED
      BY <3>1, ImportSteps, AlertScript, Names
  <2>3. tx' = SaveRow(tx, AlertRows[n], op.alerts[AlertRows[n]])
    BY <2>2, RowEffect
  <2>4. Written(n)
    <3>1. CASE k = 7
      BY <3>1 DEF Written
    <3>2. CASE k # 7
      BY <1>8, <3>2 DEF Imported
    <3> QED
      BY <3>1, <3>2
  <2> HIDE DEF n
  <2>5. /\ Database(tx') /\ Written(n + 1)'
        /\ tx'.rules = tx.rules /\ tx'.ruleSeq = tx.ruleSeq
        /\ tx'.targets = tx.targets /\ tx'.targetSeq = tx.targetSeq
        /\ tx'.settings = tx.settings /\ tx'.columns = tx.columns
    BY <1>1, <1>2, <2>1, <2>3, <2>4, WriteStep
  <2>6. \A i \in 4..6 : k + 1 > i => tx'.settings[ImportScript[i]] = op.settings[ImportScript[i]]
    BY <1>8, <2>5 DEF Imported
  <2>7. Written(k + 1 - 6)'
    BY <2>1, <2>5
  <2> QED
    BY <1>8, <2>5, <2>6, <2>7, ImportFrame
<1> QED
  BY <1>4, <1>5, <1>6, <1>7, <1>8

LEMMA StatementKeeps == ASSUME BundleInv, Statement PROVE BundleInv'
<1>1. /\ todo # <<>> /\ tx' = Effect(Head(todo), tx) /\ todo' = Tail(todo)
      /\ file' = file /\ op' = op /\ phase' = phase /\ exported' = exported
      /\ said' = said /\ saved' = saved /\ unchecked' = unchecked
  BY DEF Statement, history
<1>2. op.kind \in Requests /\ op.kind # "open"
  BY DEF BundleInv, Stages, Statement, Requests
<1>3. ASSUME Database(tx') PROVE (Typed /\ Stages /\ Fit(op) /\ WidelyMeant /\ Settled)'
  BY <1>1, <1>3 DEF BundleInv, Typed, Stages, Fit, WidelyMeant, Settled
<1>4. Database(tx) /\ Database(file) /\ Fit(op) /\ Progress
  BY DEF BundleInv, Typed
<1>5. CASE op.kind \in Single
  <2>1. todo = <<op.kind>> /\ tx = file
    BY <1>1, <1>4, <1>5 DEF Progress
  <2>2. tx' = Effect(op.kind, file) /\ todo' = <<>>
    BY <1>1, <2>1
  <2>3. Database(tx')
    BY <1>5, <2>2, SingleEffects
  <2>4. Effect(op.kind, file)' = Effect(op.kind, file)
    BY <1>1 DEF Effect
  <2>5. Progress'
    BY <1>1, <1>5, <2>2, <2>4 DEF Progress, Single
  <2> QED
    BY <1>3, <2>3, <2>5 DEF BundleInv
<1>6. CASE op.kind = "settings"
  <2>1. todo \in Seq(DOMAIN op.settings) /\ DOMAIN op.settings \subseteq SettingKeys
        /\ SameRules /\ SameTargets /\ SameAlerts /\ tx.columns = file.columns
    BY <1>4, <1>6 DEF Progress, Fit
  <2> DEFINE key == Head(todo)
  <2>2. key \in DOMAIN op.settings /\ key \in SettingKeys /\ Tail(todo) \in Seq(DOMAIN op.settings)
    BY <1>1, <2>1
  <2>3. op.settings[key] \in Classes
    BY <1>4, <1>6, <2>2 DEF Fit
  <2>4. tx' = [tx EXCEPT !.settings = [@ EXCEPT ![key] = op.settings[key]]]
    BY <1>1, <2>2, EffectFacts
  <2> HIDE DEF key
  <2>5. /\ Database(tx') /\ tx'.columns = tx.columns /\ tx'.rows = tx.rows /\ tx'.alerts = tx.alerts
        /\ tx'.rules = tx.rules /\ tx'.targets = tx.targets
        /\ tx'.ruleSeq = tx.ruleSeq /\ tx'.targetSeq = tx.targetSeq
    BY <1>4, <2>2, <2>3, <2>4, SettingKeeps
  <2>6. Progress'
    BY <1>1, <1>6, <2>1, <2>2, <2>5 DEF Progress, Single, SameRules, SameTargets, SameAlerts
  <2> QED
    BY <1>3, <2>5, <2>6 DEF BundleInv
<1>7. CASE op.kind = "alerts"
  <2>1. SameRules /\ SameTargets /\ tx.settings = file.settings /\ tx.columns = file.columns
        /\ op.alerts \in AlertForms
    BY <1>4, <1>7 DEF Progress, Fit
  <2>2. PICK k \in 1..5 : todo = Rest(AlertRows, k) /\ Written(k)
    BY <1>4, <1>7 DEF Progress
  <2>3. k \in 1..4 /\ Head(todo) = AlertRows[k] /\ Tail(todo) = Rest(AlertRows, k + 1)
    <3>1. k # 5
      BY <1>1, <2>2, Scripts
    <3>2. k \in 1..4
      BY <3>1
    <3>3. /\ Head(Rest(AlertRows, k)) = AlertRows[k]
          /\ Tail(Rest(AlertRows, k)) = Rest(AlertRows, k + 1)
      BY <3>2, Scripts
    <3> QED
      BY <2>2, <3>2, <3>3
  <2>4. AlertRows[k] \in SingleRows
    BY <2>3, AlertScript
  <2>5. tx' = SaveRow(tx, AlertRows[k], op.alerts[AlertRows[k]])
    BY <1>1, <2>3, <2>4, RowEffect
  <2>6. /\ Database(tx') /\ Written(k + 1)'
        /\ tx'.rules = tx.rules /\ tx'.ruleSeq = tx.ruleSeq
        /\ tx'.targets = tx.targets /\ tx'.targetSeq = tx.targetSeq
        /\ tx'.settings = tx.settings /\ tx'.columns = tx.columns
    BY <1>1, <1>4, <2>1, <2>2, <2>3, <2>5, WriteStep
  <2>7. \E j \in 1..5 : todo' = Rest(AlertRows, j) /\ Written(j)'
    BY <1>1, <2>3, <2>6
  <2>8. Progress'
    BY <1>1, <1>7, <2>1, <2>6, <2>7 DEF Progress, Single, SameRules, SameTargets
  <2> QED
    BY <1>3, <2>6, <2>8 DEF BundleInv
<1>8. CASE op.kind = "import"
  <2>1. PICK k \in 1..11 : todo = Rest(ImportScript, k) /\ Imported(k)
    BY <1>4, <1>8 DEF Progress
  <2>2. k \in 1..10 /\ Head(todo) = ImportScript[k] /\ Tail(todo) = Rest(ImportScript, k + 1)
    <3>1. k # 11
      BY <1>1, <2>1, Scripts
    <3>2. k \in 1..10
      BY <3>1
    <3>3. /\ Head(Rest(ImportScript, k)) = ImportScript[k]
          /\ Tail(Rest(ImportScript, k)) = Rest(ImportScript, k + 1)
      BY <3>2, Scripts
    <3> QED
      BY <2>1, <3>2, <3>3
  <2>3. Database(tx') /\ Imported(k + 1)'
    BY <1>1, <1>8, <2>1, <2>2, ImportStep
  <2>4. \E j \in 1..11 : todo' = Rest(ImportScript, j) /\ Imported(j)'
    <3>1. todo' = Rest(ImportScript, k + 1) /\ Imported(k + 1)'
      BY <1>1, <2>2, <2>3
    <3>2. k + 1 \in 1..11
      BY <2>2
    <3> QED
      BY <3>1, <3>2
  <2>5. Progress'
    BY <1>1, <1>8, <2>4 DEF Progress, Single
  <2> QED
    BY <1>3, <2>3, <2>5 DEF BundleInv
<1> QED
  BY <1>2, <1>5, <1>6, <1>7, <1>8 DEF Requests, Single
\* Nothing is underway.
LEMMA IdleKeeps == ASSUME op' = None PROVE Fit(op)' /\ Progress'
<1>1. op'.kind = "none"
  BY KindOfNone
<1> QED
  BY <1>1 DEF Fit, Progress, Single

\* What a request has made of the database when its statements are done.
LEMMA RequestDone ==
  ASSUME BundleInv, op.kind \in Requests, todo = <<>>
  PROVE  /\ Database(tx) /\ tx.columns = EveryColumn
         /\ IF op.kind \in {"alerts", "import", "reset"} THEN AcceptsAlerts(Form(tx))
            ELSE Form(tx) = Form(file)
         /\ \A r \in tx.rules : Wide(r) => r.id \in SaidThen
<1>1. Database(tx) /\ Database(file) /\ Fit(op) /\ Progress /\ WidelyMeant
  BY DEF BundleInv, Typed
<1>2. file.columns = EveryColumn
  BY DEF BundleInv, Stages
<1>3. ASSUME tx.rows = file.rows, tx.alerts = file.alerts PROVE Form(tx) = Form(file)
  BY <1>3 DEF Form, LoadAlerts
<1>5. CASE op.kind \in Single
  <2>1. todo # <<op.kind>>
    OBVIOUS
  <2>2. tx = Effect(op.kind, file)
    BY <1>1, <1>5, <2>1 DEF Progress
  <2>3. /\ tx.columns = file.columns
        /\ op.kind = "reset" => tx = DefaultRows(Cleared(file))
        /\ op.kind # "reset" => tx.alerts = file.alerts /\ tx.rows = file.rows
    BY <1>5, <2>2, SingleEffects
  <2>a. op.kind # "reset" => Form(tx) = Form(file)
    BY <1>3, <2>3
  <2>b. op.kind = "reset" => AcceptsAlerts(Form(tx))
    BY <1>1, <1>2, <2>3, ResetSound
  <2>4. IF op.kind \in {"alerts", "import", "reset"} THEN AcceptsAlerts(Form(tx))
        ELSE Form(tx) = Form(file)
    BY <1>5, <2>a, <2>b DEF Single
  <2>5. \A r \in tx.rules : Wide(r) => r.id \in SaidThen
    <3>1. CASE op.kind \in {"target", "untarget", "unrule", "reset"}
      <4>1. tx.rules \subseteq file.rules
        BY <1>5, <2>2, <3>1, SingleEffects
      <4>2. SaidThen = said
        BY <3>1 DEF SaidThen
      <4> QED
        BY <1>1, <4>1, <4>2 DEF WidelyMeant
    <3>2. CASE op.kind = "rule"
      <4> DEFINE q == [id |-> file.ruleSeq + 1, host |-> op.host, targets |-> Ids(op.refs)]
      <4>1. tx.rules = file.rules \union {q} /\ tx.ruleSeq = file.ruleSeq + 1
        BY <1>5, <2>2, <3>2, SingleEffects
      <4>2. SaidThen = IF op.refs = <<>> THEN said \union {tx.ruleSeq} ELSE said
        BY <3>2 DEF SaidThen
      <4>3. q.id = file.ruleSeq + 1 /\ (Wide(q) => op.refs = <<>>)
        BY DEF Wide, Refs, Ids
      <4> HIDE DEF q
      <4> QED
        BY <1>1, <4>1, <4>2, <4>3 DEF WidelyMeant
    <3>3. CASE op.kind = "rerule"
      <4> DEFINE q == [id |-> op.id, host |-> op.host, targets |-> Ids(op.refs)]
      <4>1. tx.rules = {r \in file.rules : r.id # op.id} \union {q}
        BY <1>5, <2>2, <3>3, SingleEffects
      <4>2. SaidThen = IF op.refs = <<>> THEN said \union {op.id} ELSE said \ {op.id}
        BY <3>3 DEF SaidThen
      <4>3. q.id = op.id /\ (Wide(q) => op.refs = <<>>)
        BY DEF Wide, Refs, Ids
      <4> HIDE DEF q
      <4> QED
        BY <1>1, <4>1, <4>2, <4>3 DEF WidelyMeant
    <3> QED
      BY <1>5, <3>1, <3>2, <3>3 DEF Single
  <2> QED
    BY <1>1, <1>2, <2>3, <2>4, <2>5
<1>6. CASE op.kind = "settings"
  <2>1. SameRules /\ SameAlerts /\ tx.columns = file.columns
    BY <1>1, <1>6 DEF Progress
  <2>2. SaidThen = said
    BY <1>6 DEF SaidThen
  <2>3. Form(tx) = Form(file)
    BY <1>3, <2>1 DEF SameAlerts
  <2> QED
    BY <1>1, <1>2, <1>6, <2>1, <2>2, <2>3 DEF WidelyMeant, SameRules
<1>7. CASE op.kind = "alerts"
  <2>1. SameRules /\ tx.columns = file.columns /\ op.alerts \in AlertForms /\ AcceptsAlerts(op.alerts)
    BY <1>1, <1>7 DEF Progress, Fit
  <2>2. PICK k \in 1..5 : todo = Rest(AlertRows, k) /\ Written(k)
    BY <1>1, <1>7 DEF Progress
  <2>3. k = 5
    <3>1. k \in 1..4 => Rest(AlertRows, k) # <<>>
      BY Scripts
    <3> QED
      BY <2>2, <3>1
  <2>4. AcceptsAlerts(Form(tx))
    BY <1>1, <2>1, <2>2, <2>3, AllWritten
  <2>5. SaidThen = said
    BY <1>7 DEF SaidThen
  <2> QED
    BY <1>1, <1>2, <1>7, <2>1, <2>4, <2>5 DEF WidelyMeant, SameRules
<1>8. CASE op.kind = "import"
  <2> DEFINE w == op.wire
             rules == w.rules.Values
  <2>1. w \in Bundles /\ Accepts(w) /\ op.alerts \in AlertForms /\ AcceptsAlerts(op.alerts)
    BY <1>1, <1>8 DEF Fit
  <2>2. PICK k \in 1..11 : todo = Rest(ImportScript, k) /\ Imported(k)
    BY <1>1, <1>8 DEF Progress
  <2>3. k = 11
    <3>1. k \in 1..10 => Rest(ImportScript, k) # <<>>
      BY Scripts
    <3> QED
      BY <2>2, <3>1
  <2>4. /\ tx.columns = file.columns /\ tx.targetSeq = file.targetSeq + Len(w.targets.Values)
        /\ tx.rules = WireRuleRows(w)
    BY <2>2, <2>3 DEF Imported
  <2>5. Written(5)
    BY <2>2, <2>3 DEF Imported
  <2>6. AcceptsAlerts(Form(tx))
    BY <1>1, <2>1, <2>5, AllWritten
  <2>7. Len(w.targets.Values) <= tx.targetSeq
    <3>1. Len(w.targets.Values) \in Nat /\ file.targetSeq \in Nat
      BY <1>1, <2>1, WireFacts DEF Database, Databases
    <3> QED
      BY <2>4, <3>1
  <2>8. SaidThen = {file.ruleSeq + i : i \in {j \in DOMAIN rules : rules[j].refs = Given(<<>>)}}
    BY <1>8 DEF SaidThen
  <2>9. ASSUME NEW r \in tx.rules, Wide(r) PROVE r.id \in SaidThen
    <3>1. PICK i \in DOMAIN rules :
            r = [id |-> file.ruleSeq + i, host |-> rules[i].host,
                 targets |-> Ids(Remap(w, tx, rules[i].refs.Values))]
      BY <2>4 DEF WireRuleRows
    <3>2. r.id = file.ruleSeq + i /\ r.targets = Ids(Remap(w, tx, rules[i].refs.Values))
      BY <3>1
    <3>3. Remap(w, tx, rules[i].refs.Values) = <<>>
      BY <2>9, <3>2 DEF Wide, Refs, Ids
    <3>4. Len(Remap(w, tx, rules[i].refs.Values)) = Len(rules[i].refs.Values)
      BY <1>1, <2>1, <2>7, RemapFacts
    <3>5. /\ rules[i].refs.Values \in Seq(Nat) /\ rules[i].refs.Provided = TRUE
          /\ rules[i].refs = [Values |-> rules[i].refs.Values, Provided |-> rules[i].refs.Provided]
      BY <2>1, WireFacts, AcceptsFacts
    <3>6. rules[i].refs.Values = <<>>
      BY <3>3, <3>4, <3>5
    <3>7. rules[i].refs = Given(<<>>)
      BY <3>5, <3>6, Zenon DEF Given
    <3> QED
      BY <2>8, <3>2, <3>7
  <2> QED
    BY <1>1, <1>2, <1>8, <2>4, <2>6, <2>9
<1> QED
  BY <1>5, <1>6, <1>7, <1>8 DEF Requests, Single

LEMMA CommitKeeps == ASSUME BundleInv, Commit PROVE BundleInv'
<1>1. /\ todo = <<>> /\ op' = None /\ tx' = tx /\ phase' = phase /\ exported' = exported
      /\ op.kind \in Requests
  BY DEF Commit, BundleInv, Stages, Requests
<1>2. phase = "running"
  BY <1>1 DEF BundleInv, Stages
<1>3. /\ Database(tx) /\ tx.columns = EveryColumn
      /\ IF op.kind \in {"alerts", "import", "reset"} THEN AcceptsAlerts(Form(tx))
         ELSE Form(tx) = Form(file)
      /\ \A r \in tx.rules : Wide(r) => r.id \in SaidThen
  BY <1>1, RequestDone
<1>4. Fit(op)' /\ Progress'
  BY <1>1, IdleKeeps
<1>5. CASE Loads(tx)
  <2>1. file' = tx /\ said' = SaidThen /\ saved' = Content(tx) /\ unchecked' = UncheckedThen
    BY <1>5 DEF Commit
  <2>2. Typed'
    BY <1>1, <1>3, <2>1 DEF BundleInv, Typed
  <2>3. Stages'
    BY <1>1, <1>2, <1>3, <2>1, KindOfNone DEF Stages, Requests
  <2>4. WidelyMeant'
    BY <1>3, <2>1 DEF WidelyMeant
  <2>5. Meant(tx) = Content(tx) /\ Content(tx).alerts = Form(tx)
    BY <1>3, NothingToRenew DEF Database, Content
  <2>6. \A row \in SingleRows \ unchecked' : AcceptsRow(row, Form(tx)[row])
    <3>1. CASE op.kind \in {"alerts", "import", "reset"}
      BY <1>3, <3>1 DEF AcceptsAlerts
    <3>2. CASE op.kind \notin {"alerts", "import", "reset"}
      <4>1. unchecked' = unchecked /\ Form(tx) = Form(file)
        BY <1>3, <2>1, <3>2 DEF UncheckedThen
      <4>2. file \in Databases /\ file.columns = EveryColumn /\ saved = Meant(file)
        BY <1>2 DEF BundleInv, Typed, Stages, Settled, Database
      <4>3. saved.alerts = Form(file)
        BY <4>2, NothingToRenew DEF Content
      <4> QED
        BY <4>1, <4>3 DEF BundleInv, Settled
    <3> QED
      BY <3>1, <3>2
  <2>7. Settled'
    <3>1. saved' = Meant(file')
      BY <2>1, <2>5
    <3>2. saved'.alerts = Form(tx)
      BY <2>1, <2>5
    <3> QED
      BY <2>6, <3>1, <3>2 DEF Settled
  <2> QED
    BY <1>4, <2>2, <2>3, <2>4, <2>7 DEF BundleInv
<1>6. CASE ~Loads(tx)
  <2>1. file' = file /\ said' = said /\ saved' = saved /\ unchecked' = unchecked
    BY <1>6 DEF Commit, history
  <2>2. Typed' /\ WidelyMeant' /\ Settled'
    BY <1>1, <2>1 DEF BundleInv, Typed, WidelyMeant, Settled
  <2>3. Stages'
    BY <1>1, <1>2, <2>1, KindOfNone DEF BundleInv, Stages, Requests
  <2> QED
    BY <1>4, <2>2, <2>3 DEF BundleInv
<1> QED
  BY <1>5, <1>6

LEMMA StartKeeps == ASSUME BundleInv, Start PROVE BundleInv'
<1>1. /\ phase' = "opening" /\ op' = Opening /\ todo' = Migration /\ added' = {} /\ tx' = file
      /\ file' = file /\ exported' = exported /\ said' = said /\ saved' = saved /\ unchecked' = unchecked
  BY DEF Start, history
<1>2. op'.kind = "open" /\ op' # None
  BY <1>1, KindOfNone
<1>3. Typed' /\ WidelyMeant' /\ Settled'
  BY <1>1 DEF BundleInv, Typed, WidelyMeant, Settled
<1>4. Stages' /\ Fit(op)'
  BY <1>1, <1>2 DEF Stages, Fit, Requests
<1>5. todo' = Rest(Migration, 1) /\ Migrated(1)'
  BY <1>1, Scripts, MigrationBegins DEF BundleInv, Typed
<1>6. \E k \in 1..9 : todo' = Rest(Migration, k) /\ Migrated(k)'
  BY <1>5
<1>7. Progress'
  BY <1>2, <1>6 DEF Progress, Single
<1> QED
  BY <1>3, <1>4, <1>7 DEF BundleInv

LEMMA MigrateKeeps == ASSUME BundleInv, Migrate PROVE BundleInv'
<1>1. /\ op = Opening /\ todo # <<>> /\ op' = op /\ phase' = phase
      /\ file' = file /\ exported' = exported /\ said' = said /\ saved' = saved /\ unchecked' = unchecked
  BY DEF Migrate, history
<1>2. op.kind = "open" /\ Database(file) /\ Database(tx) /\ Progress
  BY <1>1 DEF BundleInv, Stages, Typed
<1>3. PICK k \in 1..9 : todo = Rest(Migration, k) /\ Migrated(k)
  BY <1>2 DEF Progress
<1>4. k \in 1..8
  <2>1. k # 9
    BY <1>1, <1>3, Scripts
  <2> QED
    BY <2>1
<1>5. Database(tx') /\ Migrated(k + 1)' /\ todo' = Rest(Migration, k + 1)
  BY <1>2, <1>3, <1>4, MigrateStep
<1>6. \E j \in 1..9 : todo' = Rest(Migration, j) /\ Migrated(j)'
  BY <1>4, <1>5
<1>7. Progress'
  BY <1>1, <1>2, <1>6 DEF Progress, Single
<1>8. Typed' /\ Stages' /\ Fit(op)' /\ WidelyMeant' /\ Settled'
  BY <1>1, <1>5 DEF BundleInv, Typed, Stages, Fit, WidelyMeant, Settled
<1> QED
  BY <1>7, <1>8 DEF BundleInv

LEMMA MigrationCommitsKeeps == ASSUME BundleInv, MigrationCommits PROVE BundleInv'
<1>1. /\ op = Opening /\ todo = <<>> /\ file' = tx /\ tx' = tx /\ phase' = "loading" /\ op' = None
      /\ exported' = exported /\ said' = said /\ saved' = saved /\ unchecked' = unchecked
  BY DEF MigrationCommits, Durable, history
<1>2. op.kind = "open" /\ Database(file) /\ Database(tx) /\ Progress
  BY <1>1 DEF BundleInv, Stages, Typed
<1>3. PICK k \in 1..9 : todo = Rest(Migration, k) /\ Migrated(k)
  BY <1>2 DEF Progress
<1>4. k = 9
  <2>1. k \in 1..8 => Rest(Migration, k) # <<>>
    BY Scripts
  <2> QED
    BY <1>1, <1>3, <2>1
<1>5. /\ tx.columns = EveryColumn /\ Content(tx) = Meant(file)
      /\ tx.rules = file.rules
  <2>1. Migrated(9)
    BY <1>3, <1>4
  <2>2. tx.rules = file.rules
    BY <2>1 DEF Migrated
  <2> QED
    BY <1>2, <2>1, <2>2, MigrationEnds
<1>6. Meant(tx) = Content(tx)
  BY <1>2, <1>5, NothingToRenew DEF Database
<1>7. Typed' /\ WidelyMeant' /\ Settled'
  BY <1>1, <1>2, <1>5, <1>6 DEF BundleInv, Typed, WidelyMeant, Settled
<1>8. Stages'
  BY <1>1, <1>5, KindOfNone DEF Stages, Requests
<1> QED
  BY <1>1, <1>7, <1>8, IdleKeeps DEF BundleInv

LEMMA LoadKeeps == ASSUME BundleInv, Load PROVE BundleInv'
<1>1. /\ phase = "loading" /\ phase' \in {"running", "down"}
      /\ UNCHANGED <<file, tx, op, todo, added, exported, said, saved, unchecked>>
  BY DEF Load, history
<1>2. op.kind = "none" /\ op = None
  BY <1>1, KindOfNone DEF BundleInv, Stages
<1>3. Typed' /\ Fit(op)' /\ Progress' /\ WidelyMeant' /\ Settled'
  BY <1>1, <1>2, IdleKeeps DEF BundleInv, Typed, WidelyMeant, Settled
<1>4. Stages'
  BY <1>1, <1>2, KindOfNone DEF BundleInv, Stages, Requests
<1> QED
  BY <1>3, <1>4 DEF BundleInv

LEMMA FaultKeeps == ASSUME BundleInv, Fails \/ Dies PROVE BundleInv'
<1>1. /\ op' = None /\ tx' = file /\ file' = file /\ exported' = exported /\ said' = said /\ saved' = saved /\ unchecked' = unchecked
      /\ phase' = "down" \/ (phase' = phase /\ op # Opening)
  BY DEF Fails, Dies, history
<1>2. Typed' /\ WidelyMeant' /\ Settled' /\ Fit(op)' /\ Progress'
  BY <1>1, IdleKeeps DEF BundleInv, Typed, WidelyMeant, Settled
<1>3. Stages'
  BY <1>1, KindOfNone DEF BundleInv, Stages, Requests
<1> QED
  BY <1>2, <1>3 DEF BundleInv
\* A configuration that loads can be written out as a bundle.
LEMMA NormalizedFacts ==
  ASSUME NEW d, Database(d), Loads(d), NEW k \in SettingKeys
  PROVE  /\ Normalized(k, d.settings[k]) \in Classes
         /\ Legal(k, Normalized(k, d.settings[k]))
         /\ k # "tc_access_id" => Normalized(k, d.settings[k]) # ""
<1> DEFINE v == d.settings[k]
<1>1. v \in Classes \union {Absent} /\ Legal(k, v)
  BY DEF Database, Databases, Loads
<1>2. Defaults["tag"] = "auto-dns" /\ Defaults["sync_enabled"] = "true" /\ Defaults["tc_access_id"] = ""
      /\ Defaults.tag = "auto-dns"
  BY DEF Defaults
<1>3. k = "tag" \/ k = "sync_enabled" \/ k = "tc_access_id"
  BY Names
<1> HIDE DEF v
<1>4. CASE v \in {Absent, ""}
  <2>1. Normalized(k, v) = Defaults[k]
    BY <1>4 DEF Normalized
  <2>2. Defaults[k] \in Classes
    BY Names
  <2>3. Legal(k, Defaults[k]) /\ (k # "tc_access_id" => Defaults[k] # "")
    BY <1>2, <1>3 DEF Legal
  <2> QED
    BY <2>1, <2>2, <2>3 DEF v
<1>5. CASE v \notin {Absent, ""}
  <2>1. Normalized(k, v) = v
    BY <1>5 DEF Normalized
  <2> QED
    BY <1>1, <1>5, <2>1 DEF v
<1> QED
  BY <1>4, <1>5

LEMMA ExportedTargets ==
  ASSUME NEW d, Database(d), NEW TS, TS = Export(d).targets.Values
  PROVE  /\ Export(d).targets = Given(TS) /\ TS \in Seq(WireTargets)
         /\ \A i \in DOMAIN TS : TS[i].export_id # 0
         /\ \A i, j \in DOMAIN TS : TS[i].export_id = TS[j].export_id => i = j
         /\ \A x \in TargetIDs(d) : \E i \in DOMAIN TS : TS[i].export_id = x
<1> DEFINE n == Cardinality(d.targets)
           T == InOrder(d.targets)
<1>1. n \in Nat
  BY FS_CardinalityType DEF Database, Keyed
<1>2. /\ d.targets \subseteq TargetRows /\ IsFiniteSet(d.targets)
      /\ \A t, u \in d.targets : t.id = u.id => t = u
      /\ \A t \in d.targets : t.id \in Nat /\ t.id # 0 /\ t.place \in Places
  BY DEF Database, Databases, Keyed, TargetRows
<1>3. T \in Bijection(1..n, d.targets)
  BY <1>2, InOrderFacts
<1>4. /\ \A i \in 1..n : T[i] \in d.targets
      /\ \A i, j \in 1..n : T[i] = T[j] => i = j
      /\ \A t \in d.targets : \E i \in 1..n : T[i] = t
  BY <1>3 DEF Bijection, Injection, Surjection, IsInjective
<1>5. Export(d).targets = Given([i \in 1..n |-> [export_id |-> T[i].id, place |-> T[i].place]])
  BY DEF Export
<1>6. TS = [i \in 1..n |-> [export_id |-> T[i].id, place |-> T[i].place]]
  BY <1>5 DEF Given
<1> HIDE DEF n, T
<1>7. \A i \in 1..n : /\ TS[i] = [export_id |-> T[i].id, place |-> T[i].place]
                      /\ TS[i] \in WireTargets
  BY <1>2, <1>4, <1>6 DEF WireTargets
<1>a. \A i \in 1..n : TS[i].export_id = T[i].id
  <2> TAKE i \in 1..n
  <2>1. TS[i] = [export_id |-> T[i].id, place |-> T[i].place]
    BY <1>7
  <2> QED
    BY <2>1
<1>8. TS \in [1..n -> WireTargets] /\ DOMAIN TS = 1..n
  BY <1>6, <1>7
<1>9. TS \in Seq(WireTargets)
  BY <1>1, <1>8, SeqDef
<1>10. \A i \in 1..n : TS[i].export_id # 0
  BY <1>2, <1>4, <1>a
<1>11. \A i, j \in 1..n : TS[i].export_id = TS[j].export_id => i = j
  BY <1>2, <1>4, <1>a
<1>12. \A x \in TargetIDs(d) : \E i \in 1..n : TS[i].export_id = x
  BY <1>4, <1>a DEF TargetIDs
<1> QED
  BY <1>5, <1>6, <1>8, <1>9, <1>10, <1>11, <1>12

CopyOfRule(refs, d) == \E r \in d.rules : Range(refs) = Range(Refs(r.targets))

LEMMA ExportedRules ==
  ASSUME NEW d, Database(d), NEW RS, RS = Export(d).rules.Values
  PROVE  /\ Export(d).rules = Given(RS) /\ RS \in Seq(WireRules)
         /\ Len(RS) = Cardinality(d.rules)
         /\ \A i \in DOMAIN RS :
              /\ RS[i].refs.Provided = TRUE /\ IsInjective(RS[i].refs.Values)
              /\ CopyOfRule(RS[i].refs.Values, d)
<1> DEFINE n == Cardinality(d.rules)
           R == InOrder(d.rules)
           refs(i) == Ascending(Refs(R[i].targets))
<1>1. n \in Nat
  BY FS_CardinalityType DEF Database, Keyed
<1>2. /\ d.rules \subseteq RuleRows /\ IsFiniteSet(d.rules)
      /\ \A r, q \in d.rules : r.id = q.id => r = q
      /\ \A r \in d.rules : r.id \in Nat /\ r.host \in Hosts
      /\ \A r \in d.rules : IsInjective(Refs(r.targets))
  BY DEF Database, Databases, Keyed, RuleRows
<1>3. \A r \in d.rules : Refs(r.targets) \in Seq(Nat)
  BY <1>2 DEF RuleRows, RefColumns, Refs
<1>4. R \in Bijection(1..n, d.rules)
  BY <1>2, InOrderFacts
<1>5. \A i \in 1..n : R[i] \in d.rules
  BY <1>4 DEF Bijection, Injection
<1>6. Export(d).rules = Given([i \in 1..n |-> [host |-> R[i].host, refs |-> Given(refs(i))]])
  BY DEF Export
<1>7. RS = [i \in 1..n |-> [host |-> R[i].host, refs |-> Given(refs(i))]]
  BY <1>6 DEF Given
<1>8. \A i \in 1..n : /\ refs(i) \in Seq(Nat) /\ IsInjective(refs(i))
                      /\ Range(refs(i)) = Range(Refs(R[i].targets))
  BY <1>2, <1>3, <1>5, AscendingFacts
<1> HIDE DEF n, R, refs
<1>9. \A i \in 1..n : /\ RS[i] = [host |-> R[i].host, refs |-> Given(refs(i))]
                      /\ RS[i].refs = Given(refs(i))
  BY <1>7
<1>a. \A s \in Seq(Nat) : Given(s) \in Presence(Seq(Nat)) /\ Given(s).Values = s
  BY DEF Given, Presence
<1>b. \A s : Given(s).Provided = TRUE
  BY Zenon DEF Given
<1>10. \A i \in 1..n : RS[i] \in WireRules
  <2>1. \A h \in Hosts, p \in Presence(Seq(Nat)) : [host |-> h, refs |-> p] \in WireRules
    BY DEF WireRules
  <2>2. \A i \in 1..n : R[i].host \in Hosts /\ Given(refs(i)) \in Presence(Seq(Nat))
    BY <1>2, <1>5, <1>8, <1>a
  <2> QED
    BY <1>9, <2>1, <2>2, Zenon
<1>11. RS \in [1..n -> WireRules] /\ DOMAIN RS = 1..n
  BY <1>7, <1>10
<1>12. RS \in Seq(WireRules) /\ Len(RS) = n
  BY <1>1, <1>11, SeqDef
<1>13. \A i \in 1..n : RS[i].refs.Values = refs(i)
  BY <1>8, <1>9, <1>a
<1>14. \A i \in 1..n : RS[i].refs.Provided = TRUE
  BY <1>9, <1>b, Zenon
<1>15. \A i \in 1..n : /\ IsInjective(RS[i].refs.Values)
                       /\ CopyOfRule(RS[i].refs.Values, d)
  BY <1>5, <1>8, <1>13 DEF CopyOfRule
<1> QED
  BY <1>6, <1>7, <1>11, <1>12, <1>14, <1>15 DEF n

LEMMA ExportFacts ==
  ASSUME NEW d, Database(d), Loads(d), NEW w, w = Export(d)
  PROVE  w \in Bundles /\ (AcceptsAlerts(Form(d)) => Accepts(w))
<1> DEFINE TS == w.targets.Values
           RS == w.rules.Values
<1>1. /\ w.targets = Given(TS) /\ TS \in Seq(WireTargets)
      /\ \A i \in DOMAIN TS : TS[i].export_id # 0
      /\ \A i, j \in DOMAIN TS : TS[i].export_id = TS[j].export_id => i = j
      /\ \A x \in TargetIDs(d) : \E i \in DOMAIN TS : TS[i].export_id = x
  <2>1. TS = Export(d).targets.Values /\ w.targets = Export(d).targets
    BY Zenon
  <2> HIDE DEF TS
  <2>2. w.targets = Given(TS) /\ TS \in Seq(WireTargets)
    BY <2>1, ExportedTargets
  <2>3. \A i \in DOMAIN TS : TS[i].export_id # 0
    BY <2>1, ExportedTargets
  <2>4. \A i, j \in DOMAIN TS : TS[i].export_id = TS[j].export_id => i = j
    BY <2>1, ExportedTargets
  <2>5. \A x \in TargetIDs(d) : \E i \in DOMAIN TS : TS[i].export_id = x
    BY <2>1, ExportedTargets
  <2> QED
    BY <2>2, <2>3, <2>4, <2>5
<1>0. RS = Export(d).rules.Values /\ w.rules = Export(d).rules
  BY Zenon
<1> HIDE DEF RS
<1>2. /\ w.rules = Given(RS) /\ RS \in Seq(WireRules)
      /\ \A i \in DOMAIN RS :
           /\ RS[i].refs.Provided = TRUE /\ IsInjective(RS[i].refs.Values)
           /\ CopyOfRule(RS[i].refs.Values, d)
  <2>1. w.rules = Given(RS) /\ RS \in Seq(WireRules)
    BY <1>0, ExportedRules
  <2>2. \A i \in DOMAIN RS : RS[i].refs.Provided = TRUE
    BY <1>0, ExportedRules
  <2>3. \A i \in DOMAIN RS :
           /\ IsInjective(RS[i].refs.Values)
           /\ CopyOfRule(RS[i].refs.Values, d)
    BY <1>0, ExportedRules
  <2> QED
    BY <2>1, <2>2, <2>3, Zenon
<1>3. /\ w.version = 3 /\ w.alerts = Form(d)
      /\ w.settings = [k \in SettingKeys |-> Normalized(k, d.settings[k])]
  BY DEF Export
<1>4. w.complete = TRUE
  BY Zenon DEF Export
<1>5. w = [version |-> w.version, complete |-> w.complete, targets |-> w.targets, rules |-> w.rules,
           settings |-> w.settings, alerts |-> w.alerts]
  BY Zenon DEF Export
<1> HIDE DEF TS
<1>6. w.settings \in [SettingKeys -> Classes] /\ Form(d) \in AlertForms
  <2>1. \A k \in SettingKeys : Normalized(k, d.settings[k]) \in Classes
    BY NormalizedFacts
  <2>2. Form(d) \in AlertForms
    BY FormFacts DEF Database
  <2> QED
    BY <1>3, <2>1, <2>2
<1>7. w.targets \in Presence(Seq(WireTargets)) /\ w.rules \in Presence(Seq(WireRules))
  BY <1>1, <1>2 DEF Given, Presence
<1>8. w \in Bundles
  <2>1. w.complete \in BOOLEAN
    BY <1>4
  <2>2. w.version \in Nat
    BY <1>3
  <2>3. w.alerts \in AlertForms
    BY <1>3, <1>6
  <2> QED
    BY <1>5, <1>6, <1>7, <2>1, <2>2, <2>3 DEF Bundles
<1>9. ASSUME AcceptsAlerts(Form(d)) PROVE Accepts(w)
  <2> DEFINE ids == [i \in DOMAIN TS |-> TS[i].export_id]
  <2>1. w.targets.Provided = TRUE /\ w.rules.Provided = TRUE
    <3>1. \A s : Given(s).Provided = TRUE
      BY Zenon DEF Given
    <3> QED
      BY <1>1, <1>2, <3>1, Zenon
  <2>2. Present(w)
    <3>1. \A i \in DOMAIN w.rules.Values : w.rules.Values[i].refs.Provided
      BY <1>2, Zenon DEF RS
    <3> QED
      BY <1>4, <2>1, <3>1, Zenon DEF Present
  <2>3. Range(ids) = {TS[i].export_id : i \in DOMAIN TS}
    BY DEF Range
  <2>4. 0 \notin Range(ids) /\ IsInjective(ids)
    <3>1. 0 \notin Range(ids)
      BY <1>1, <2>3
    <3>2. IsInjective(ids)
      BY <1>1 DEF IsInjective
    <3> QED
      BY <3>1, <3>2
  <2>5. \A i \in DOMAIN RS :
          Range(RS[i].refs.Values) \subseteq Range(ids) /\ IsInjective(RS[i].refs.Values)
    <3> TAKE i \in DOMAIN RS
    <3>1. PICK r \in d.rules : Range(RS[i].refs.Values) = Range(Refs(r.targets))
      BY <1>2 DEF CopyOfRule
    <3>2. Range(Refs(r.targets)) \subseteq TargetIDs(d)
      BY DEF Loads
    <3>3. TargetIDs(d) \subseteq Range(ids)
      BY <1>1, <2>3
    <3> QED
      BY <1>2, <3>1, <3>2, <3>3
  <2>6. \A k \in SettingKeys :
          Legal(k, w.settings[k]) /\ (k # "tc_access_id" => w.settings[k] # "")
    <3>1. \A k \in SettingKeys :
            /\ Legal(k, Normalized(k, d.settings[k]))
            /\ k # "tc_access_id" => Normalized(k, d.settings[k]) # ""
      BY NormalizedFacts
    <3> QED
      BY <1>3, <3>1
  <2>7. AcceptsAlerts(w.alerts)
    BY <1>3, <1>9
  <2>8. ids = [i \in DOMAIN w.targets.Values |-> w.targets.Values[i].export_id]
    BY DEF TS
  <2> HIDE DEF ids
  <2> QED
    BY <1>3, <2>2, <2>4, <2>5, <2>6, <2>7, <2>8, Zenon DEF Accepts, RS
<1> QED
  BY <1>8, <1>9

LEMMA ConfigExportKeeps == ASSUME BundleInv, ConfigExport PROVE BundleInv'
<1>1. /\ Loads(file) /\ exported' = Export(file)
      /\ UNCHANGED <<file, tx, op, todo, added, phase, said, saved, unchecked>>
  BY DEF ConfigExport, history
<1>2. exported' \in Bundles
  BY <1>1, ExportFacts DEF BundleInv, Typed
<1>3. Typed' /\ Stages' /\ Fit(op)' /\ WidelyMeant' /\ Settled'
  BY <1>1, <1>2 DEF BundleInv, Typed, Stages, Fit, WidelyMeant, Settled
<1>4. Progress'
  <2>1. op.kind = "none"
    BY KindOfNone DEF ConfigExport
  <2> QED
    BY <1>1, <2>1, IdleKeeps DEF ConfigExport
<1> QED
  BY <1>3, <1>4 DEF BundleInv

\* The columns that somebody may write into the file.
LEMMA DamagedFacts ==
  ASSUME NEW c \in {[kind |-> "null", ids |-> <<>>], Ids(<<MaxId + 1>>)}
  PROVE  c \in RefColumns /\ IsInjective(Refs(c)) /\ ~(Parses(c) /\ Refs(c) = <<>>)
<1>1. MaxId + 1 \in Nat
  <2>1. MaxId \in Nat
    BY BundleAssumption, Zenon DEF BundleAssumption
  <2> QED
    BY <2>1
<1>2. CASE c = [kind |-> "null", ids |-> <<>>]
  <2>1. c.kind = "null" /\ c.ids = <<>>
    BY <1>2
  <2>2. Refs(c) = <<>> /\ ~Parses(c)
    BY <2>1 DEF Refs, Parses
  <2>3. IsInjective(<<>>)
    BY DEF IsInjective
  <2>4. c \in RefColumns
    BY <1>2 DEF RefColumns
  <2> QED
    BY <2>2, <2>3, <2>4
<1>3. CASE c = Ids(<<MaxId + 1>>)
  <2>1. c = [kind |-> "ids", ids |-> <<MaxId + 1>>]
    BY <1>3 DEF Ids
  <2>2. c.kind = "ids" /\ c.ids = <<MaxId + 1>>
    BY <2>1
  <2>3. Refs(c) = <<MaxId + 1>>
    BY <2>2 DEF Refs
  <2>4. <<MaxId + 1>> \in Seq(Nat) /\ <<MaxId + 1>> # <<>> /\ IsInjective(<<MaxId + 1>>)
    BY <1>1 DEF IsInjective
  <2>5. c \in RefColumns
    BY <2>1, <2>4 DEF RefColumns
  <2> QED
    BY <2>3, <2>4, <2>5
<1> QED
  BY <1>2, <1>3

\* A row that is edited changes no other.
LEMMA SameMeaning ==
  ASSUME NEW d \in Databases, NEW e \in Databases, d.columns = e.columns, NEW row \in SingleRows,
         row \in d.rows <=> row \in e.rows, d.alerts[row] = e.alerts[row]
  PROVE  Meant(d).alerts[row] = Meant(e).alerts[row]
<1> DEFINE r == Renewed(d)
           q == Renewed(e)
           email(v, columns) ==
             [enabled  |-> v.enabled /\ {"subject", "body"} \subseteq columns,
              complete |-> v.complete, port |-> v.port,
              security |-> IF "security" \in columns THEN v.security ELSE "auto_starttls",
              subject  |-> IF "subject" \in columns THEN v.subject ELSE "default",
              body     |-> IF "body" \in columns THEN v.body ELSE "default"]
           webhook(v, columns) ==
             [enabled |-> v.enabled /\ {"subject", "body"} \subseteq columns, url |-> v.url,
              channel |-> IF "channel" \in columns THEN v.channel ELSE "dingtalk"]
<1>1. r \in Databases /\ q \in Databases /\ r.rows = d.rows /\ q.rows = e.rows
  BY RenewedFacts
<1>2. /\ r.alerts.email = email(d.alerts.email, d.columns)
      /\ r.alerts.webhook = webhook(d.alerts.webhook, d.columns)
      /\ q.alerts.email = email(e.alerts.email, e.columns)
      /\ q.alerts.webhook = webhook(e.alerts.webhook, e.columns)
  BY RenewedFacts DEF Current
<1> HIDE DEF email, webhook
<1>3. r.alerts[row] = q.alerts[row]
  <2>1. CASE row = "email"
    BY <1>2, <2>1, RenewedFacts
  <2>2. CASE row = "webhook"
    BY <1>2, <2>2, RenewedFacts
  <2>3. CASE row \in {"policy", "push"}
    BY <2>3, RenewedFacts
  <2> QED
    BY <2>1, <2>2, <2>3, Names
<1> HIDE DEF r, q
<1>4. Form(r)[row] = Form(q)[row]
  BY <1>1, <1>3, SameRow
<1> QED
  BY <1>4 DEF Meant, Content, r, q

LEMMA EditFileKeeps == ASSUME BundleInv, EditFile PROVE BundleInv'
<1>1. /\ op = None /\ op' = None /\ tx' = tx /\ phase' = phase /\ exported' = exported
      /\ saved' = Meant(file')
  BY DEF EditFile
<1>2. /\ Database(file) /\ file \in Databases /\ WidelyMeant
      /\ \A row \in SingleRows \ unchecked : AcceptsRow(row, Meant(file).alerts[row])
  BY DEF BundleInv, Typed, Settled, Database
<1>3. ASSUME Database(file'), file'.columns = file.columns, NEW changed, unchecked \subseteq unchecked' \union changed,
             \A row \in SingleRows \ changed :
               (row \in file.rows <=> row \in file'.rows) /\ file.alerts[row] = file'.alerts[row],
             \A row \in SingleRows :
               row \in changed /\ row \notin unchecked' /\ row \in file'.rows => SoundRow(row, file')
      PROVE  Settled'
  <2> SUFFICES ASSUME NEW row \in SingleRows, row \notin unchecked'
               PROVE  AcceptsRow(row, Meant(file').alerts[row])
    BY <1>1 DEF Settled
  <2>1. CASE row \in changed
    <3>1. file' \in Databases /\ (row \in file'.rows => SoundRow(row, file'))
      BY <1>3, <2>1 DEF Database
    <3> QED
      BY <3>1, FormAccepted
  <2>2. CASE row \notin changed
    <3>1. row \in SingleRows \ unchecked
      BY <1>3, <2>2
    <3>2. Meant(file).alerts[row] = Meant(file').alerts[row]
      BY <1>2, <1>3, <2>2, SameMeaning DEF Database
    <3> QED
      BY <1>2, <3>1, <3>2
  <2> QED
    BY <2>1, <2>2
<1>4. ASSUME Database(file'), file'.columns = file.columns, Settled', WidelyMeant'
      PROVE  BundleInv'
  <2>1. Typed'
    BY <1>1, <1>4 DEF BundleInv, Typed
  <2>2. Stages'
    BY <1>1, <1>4, KindOfNone DEF BundleInv, Stages, Requests
  <2> QED
    BY <1>1, <1>4, <2>1, <2>2, IdleKeeps DEF BundleInv
<1>5. CASE \E r \in file.rules, c \in {[kind |-> "null", ids |-> <<>>], Ids(<<MaxId + 1>>)} :
             /\ file' = [file EXCEPT !.rules = (@ \ {r}) \union {[r EXCEPT !.targets = c]}]
             /\ said' = said \ {r.id} /\ UNCHANGED unchecked
  <2>1. PICK r \in file.rules, c \in {[kind |-> "null", ids |-> <<>>], Ids(<<MaxId + 1>>)} :
          /\ file' = [file EXCEPT !.rules = (@ \ {r}) \union {[r EXCEPT !.targets = c]}]
          /\ said' = said \ {r.id} /\ unchecked' = unchecked
    BY <1>5
  <2> DEFINE q == [r EXCEPT !.targets = c]
             R == (file.rules \ {r}) \union {q}
  <2>2. c \in RefColumns /\ IsInjective(Refs(c)) /\ ~(Parses(c) /\ Refs(c) = <<>>)
    BY DamagedFacts
  <2>3. r \in RuleRows
    BY <1>2 DEF Databases
  <2>4. q \in RuleRows /\ q.id = r.id /\ q.targets = c
    <3> HIDE <2>1
    <3> QED
      BY <2>2, <2>3 DEF RuleRows
  <2>5. file' = [file EXCEPT !.rules = R]
    BY <2>1
  <2> HIDE DEF q
  <2>6. R \in SUBSET RuleRows
    BY <1>2, <2>4 DEF Databases
  <2>7. IsFiniteSet(R)
    <3>1. IsFiniteSet(file.rules \ {r})
      BY <1>2, FS_RemoveElement DEF Database, Keyed
    <3> QED
      BY <3>1, FS_AddElement
  <2>8. \A p \in R : p = q \/ (p \in file.rules /\ p # r)
    OBVIOUS
  <2> HIDE DEF R
  <2>9. /\ file' \in Databases /\ file'.rules = R /\ file'.ruleSeq = file.ruleSeq
        /\ file'.targets = file.targets /\ file'.targetSeq = file.targetSeq
        /\ file'.columns = file.columns /\ file'.rows = file.rows /\ file'.alerts = file.alerts
    <3>1. file' \in Databases
      BY <1>2, <2>5, <2>6, OtherRows
    <3> QED
      BY <1>2, <2>5, <3>1 DEF Databases
  <2>10. Keyed(file')
    BY <1>2, <2>2, <2>4, <2>7, <2>8, <2>9 DEF Database, Keyed
  <2>11. Settled'
    <3>1. Database(file') /\ unchecked' = unchecked
      BY <2>1, <2>9, <2>10 DEF Database
    <3> QED
      BY <2>9, <3>1, <1>3
  <2>12. \A p \in R : Wide(p) => p.id \in said'
    <3> SUFFICES ASSUME NEW p \in R, Wide(p) PROVE p.id \in said'
      OBVIOUS
    <3>1. p # q
      BY <2>2, <2>4 DEF Wide
    <3>2. p \in file.rules /\ p # r
      BY <2>8, <3>1
    <3>3. p.id \in said /\ p.id # r.id
      BY <1>2, <3>2 DEF WidelyMeant, Database, Keyed
    <3> QED
      BY <2>1, <3>3
  <2>13. WidelyMeant'
    BY <2>9, <2>12 DEF WidelyMeant
  <2> QED
    BY <1>4, <2>9, <2>10, <2>11, <2>13 DEF Database
<1>6. CASE \E row \in file.rows : /\ file' = [file EXCEPT !.rows = @ \ {row}]
                                  /\ unchecked' = unchecked \ {row} /\ UNCHANGED said
  <2>1. PICK row \in file.rows : /\ file' = [file EXCEPT !.rows = @ \ {row}]
                                 /\ unchecked' = unchecked \ {row} /\ said' = said
    BY <1>6
  <2>2. file' \in Databases
    BY <1>2, <2>1 DEF Databases
  <2>3. /\ file'.rules = file.rules /\ file'.ruleSeq = file.ruleSeq
        /\ file'.targets = file.targets /\ file'.targetSeq = file.targetSeq
        /\ file'.columns = file.columns /\ file'.rows = file.rows \ {row} /\ file'.alerts = file.alerts
    BY <1>2, <2>1 DEF Databases
  <2>4. Keyed(file')
    BY <1>2, <2>3 DEF Database, Keyed
  <2>5. Database(file')
    BY <2>2, <2>4 DEF Database
  <2>6. Settled'
    BY <1>3, <2>1, <2>3, <2>5
  <2>7. WidelyMeant'
    BY <1>2, <2>1, <2>3 DEF WidelyMeant
  <2> QED
    BY <1>4, <2>3, <2>5, <2>6, <2>7
<1>7. CASE \E row \in file.rows, alerts \in Handmade :
             /\ file' = SaveRow(file, row, alerts[row])
             /\ unchecked' = IF SoundRow(row, file') THEN unchecked \ {row} ELSE unchecked \union {row}
             /\ UNCHANGED said
  <2>1. PICK row \in file.rows, alerts \in Handmade :
          /\ file' = SaveRow(file, row, alerts[row])
          /\ unchecked' = IF SoundRow(row, file') THEN unchecked \ {row} ELSE unchecked \union {row}
          /\ said' = said
    BY <1>7
  <2>2. row \in SingleRows /\ alerts \in AlertForms
    BY <1>2, BundleAssumption DEF BundleAssumption, Databases
  <2>3. /\ Database(file') /\ file'.rules = file.rules /\ file'.columns = file.columns
        /\ file'.rows = file.rows \union {row}
        /\ file'.alerts = [file.alerts EXCEPT ![row] = alerts[row]]
    BY <1>2, <2>1, <2>2, SaveRowKeeps
  <2>4. \A other \in SingleRows \ {row} : file.alerts[other] = file'.alerts[other]
    BY <2>3
  <2>5. unchecked \subseteq unchecked' \union {row} /\ (row \notin unchecked' => SoundRow(row, file'))
    BY <2>1
  <2>a. \A other \in SingleRows \ {row} :
          (other \in file.rows <=> other \in file'.rows) /\ file.alerts[other] = file'.alerts[other]
    BY <2>3, <2>4
  <2>b. \A other \in SingleRows :
          other \in {row} /\ other \notin unchecked' /\ other \in file'.rows => SoundRow(other, file')
    BY <2>5
  <2>6. Settled'
    BY <1>3, <2>3, <2>5, <2>a, <2>b
  <2>7. WidelyMeant'
    BY <1>2, <2>1, <2>3 DEF WidelyMeant
  <2> QED
    BY <1>4, <2>3, <2>6, <2>7
<1> QED
  BY <1>5, <1>6, <1>7 DEF EditFile
-----------------------------------------------------------------------------
(***************************************************************************)
(* What an import leaves.                                                  *)
(***************************************************************************)
\* The transaction when the statements of an import are done.
ImportDone(w) ==
  /\ w \in Bundles /\ Accepts(w) /\ Database(tx) /\ Database(file)
  /\ tx.targetSeq = file.targetSeq + Len(w.targets.Values)
  /\ tx.targets = WireTargetRows(w) /\ tx.rules = WireRuleRows(w)
  /\ \A k \in SettingKeys : tx.settings[k] = w.settings[k]
  /\ Form(tx) = w.alerts

LEMMA ImportEnds ==
  ASSUME BundleInv, op.kind = "import", todo = <<>>
  PROVE  ImportDone(op.wire)
<1>1. /\ op.wire \in Bundles /\ Accepts(op.wire) /\ op.alerts \in AlertForms /\ AcceptsAlerts(op.alerts)
      /\ op.settings = op.wire.settings /\ op.alerts = op.wire.alerts
      /\ Database(tx) /\ Database(file)
  BY DEF BundleInv, Fit, Typed
<1>2. PICK k \in 1..11 : todo = Rest(ImportScript, k) /\ Imported(k)
  BY DEF BundleInv, Progress
<1>3. k = 11
  <2>1. k \in 1..10 => Rest(ImportScript, k) # <<>>
    BY Scripts
  <2> QED
    BY <1>2, <2>1
<1>4. /\ tx.targetSeq = file.targetSeq + Len(op.wire.targets.Values)
      /\ tx.targets = WireTargetRows(op.wire) /\ tx.rules = WireRuleRows(op.wire) /\ Written(5)
      /\ \A i \in 4..6 : tx.settings[ImportScript[i]] = op.settings[ImportScript[i]]
  BY <1>2, <1>3 DEF Imported
<1>5. Form(tx) = op.alerts
  BY <1>1, <1>4, AllWritten
<1>6. /\ tx.settings[ImportScript[4]] = op.settings[ImportScript[4]]
      /\ tx.settings[ImportScript[5]] = op.settings[ImportScript[5]]
      /\ tx.settings[ImportScript[6]] = op.settings[ImportScript[6]]
  BY <1>4
<1>7. \A k2 \in SettingKeys : k2 = ImportScript[4] \/ k2 = ImportScript[5] \/ k2 = ImportScript[6]
  BY ImportSteps, Names
<1>8. \A k2 \in SettingKeys : tx.settings[k2] = op.wire.settings[k2]
  BY <1>1, <1>6, <1>7, Zenon
<1> QED
  BY <1>1, <1>4, <1>5, <1>8 DEF ImportDone

\* The imported settings are those of the bundle.
LEMMA ImportedSettings ==
  ASSUME NEW w, ImportDone(w)
  PROVE  /\ \A k \in SettingKeys : Legal(k, tx.settings[k])
         /\ Content(tx).settings = w.settings
<1>1. w.settings \in [SettingKeys -> Classes]
  BY DEF ImportDone, Bundles
<1>2. \A k \in SettingKeys : Legal(k, w.settings[k]) /\ (k # "tc_access_id" => w.settings[k] # "")
  BY DEF ImportDone, Accepts
<1>3. \A k \in SettingKeys : Normalized(k, tx.settings[k]) = w.settings[k]
  <2> TAKE k \in SettingKeys
  <2>1. tx.settings[k] = w.settings[k] /\ w.settings[k] # Absent
    BY <1>1, BundleAssumption DEF BundleAssumption, ImportDone
  <2>2. Defaults["tc_access_id"] = ""
    BY DEF Defaults
  <2> QED
    BY <1>2, <2>1, <2>2 DEF Normalized
<1>4. Content(tx).settings = [k \in SettingKeys |-> Normalized(k, tx.settings[k])]
  BY DEF Content
<1>5. \A k \in SettingKeys : Legal(k, tx.settings[k])
  BY <1>2 DEF ImportDone
<1> QED
  BY <1>1, <1>3, <1>4, <1>5

\* The targets a rule of the bundle names are those its row in the database names.
LEMMA ImportedRefs ==
  ASSUME NEW w, ImportDone(w), NEW i \in DOMAIN w.rules.Values
  PROVE  LET T == w.targets.Values
             refs == w.rules.Values[i].refs.Values
             named == Range(Remap(w, tx, refs))
         IN /\ named \subseteq TargetIDs(tx)
            /\ {Place(tx, x) : x \in named} =
                 {T[j].place : j \in {k \in DOMAIN T : T[k].export_id \in Range(refs)}}
<1> DEFINE T == w.targets.Values
           refs == w.rules.Values[i].refs.Values
           new == Remap(w, tx, refs)
<1>1. w \in Bundles /\ Accepts(w) /\ Database(tx) /\ Database(file)
  BY DEF ImportDone
<1>2. T \in Seq(WireTargets) /\ Len(T) \in Nat /\ DOMAIN T = 1..Len(T)
  BY <1>1, WireFacts
<1>3. file.targetSeq \in Nat /\ tx.targetSeq = file.targetSeq + Len(T)
  BY <1>1 DEF ImportDone, Database, Databases
<1>4. Len(T) <= tx.targetSeq /\ tx.targetSeq - Len(T) = file.targetSeq
  BY <1>2, <1>3
<1>5. /\ new \in Seq(Nat) /\ Len(new) = Len(refs)
      /\ \A k \in DOMAIN refs : \E j \in DOMAIN T :
           T[j].export_id = refs[k] /\ new[k] = (tx.targetSeq - Len(T)) + j
  BY <1>1, <1>4, RemapFacts DEF TargetList
<1>6. refs \in Seq(Nat)
  BY <1>1, WireFacts
<1>7. \A j, k \in DOMAIN T : T[j].export_id = T[k].export_id => j = k
  BY <1>1, AcceptsFacts
<1>8. tx.targets = {[id |-> file.targetSeq + j, place |-> T[j].place] : j \in DOMAIN T}
  BY DEF ImportDone, WireTargetRows
<1> HIDE DEF T, refs, new
<1>9. DOMAIN new = DOMAIN refs
  BY <1>5, <1>6
<1>10. \A k \in DOMAIN refs : \E j \in DOMAIN T :
         T[j].export_id = refs[k] /\ new[k] = file.targetSeq + j
  BY <1>4, <1>5
<1>11. \A j \in DOMAIN T : file.targetSeq + j \in TargetIDs(tx)
                           /\ Place(tx, file.targetSeq + j) = T[j].place
  <2> TAKE j \in DOMAIN T
  <2> DEFINE t == [id |-> file.targetSeq + j, place |-> T[j].place]
  <2>1. t \in tx.targets /\ t.id = file.targetSeq + j /\ t.place = T[j].place
    BY <1>8
  <2>2. \A u \in tx.targets : u.id = t.id => u = t
    BY <1>1, <2>1 DEF Database, Keyed
  <2> HIDE DEF t
  <2> DEFINE u == CHOOSE v \in tx.targets : v.id = file.targetSeq + j
  <2>3. u \in tx.targets /\ u.id = file.targetSeq + j
    BY <2>1
  <2>4. u = t
    BY <2>1, <2>2, <2>3
  <2> QED
    BY <2>1, <2>4 DEF TargetIDs, Place
<1>12. Range(new) \subseteq TargetIDs(tx)
  <2>1. \A k \in DOMAIN new : new[k] \in TargetIDs(tx)
    BY <1>9, <1>10, <1>11
  <2> QED
    BY <2>1 DEF Range
<1>13. ASSUME NEW x \in Range(new)
       PROVE  \E j \in DOMAIN T : T[j].export_id \in Range(refs) /\ Place(tx, x) = T[j].place
  <2>1. PICK k \in DOMAIN refs : x = new[k]
    BY <1>9, <1>13 DEF Range
  <2>2. refs[k] \in Range(refs)
    BY DEF Range
  <2> QED
    BY <1>10, <1>11, <2>1, <2>2
<1>14. ASSUME NEW j \in DOMAIN T, T[j].export_id \in Range(refs)
       PROVE  \E x \in Range(new) : Place(tx, x) = T[j].place
  <2>1. PICK k \in DOMAIN refs : T[j].export_id = refs[k]
    BY <1>14 DEF Range
  <2>2. new[k] = file.targetSeq + j
    BY <1>7, <1>10, <2>1
  <2>3. new[k] \in Range(new)
    BY <1>9, <2>1 DEF Range
  <2> QED
    BY <1>11, <2>2, <2>3
<1>15. {Place(tx, x) : x \in Range(new)} =
         {T[j].place : j \in {k \in DOMAIN T : T[k].export_id \in Range(refs)}}
  BY <1>13, <1>14
<1> QED
  BY <1>12, <1>15 DEF T, refs, new

LEMMA ImportedRules ==
  ASSUME NEW w, ImportDone(w)
  PROVE  /\ Loads(tx)
         /\ Cardinality(tx.rules) = Len(w.rules.Values)
         /\ \A i \in DOMAIN w.rules.Values :
              LET r == w.rules.Values[i]
                  targets == w.targets.Values
              IN [host |-> r.host,
                  targets |-> {targets[j].place :
                                 j \in {k \in DOMAIN targets :
                                          targets[k].export_id \in Range(r.refs.Values)}}]
                   \in Content(tx).rules
<1> DEFINE W == w.rules.Values
           T == w.targets.Values
           row(i) == [id |-> file.ruleSeq + i, host |-> W[i].host,
                      targets |-> Ids(Remap(w, tx, W[i].refs.Values))]
<1>1. tx.rules = {row(i) : i \in DOMAIN W}
  BY DEF ImportDone, WireRuleRows
<1>2. W \in Seq(WireRules) /\ Len(W) \in Nat /\ DOMAIN W = 1..Len(W) /\ file.ruleSeq \in Nat
  BY WireFacts DEF ImportDone, Database, Databases
<1>3. \A s : Parses(Ids(s)) /\ Refs(Ids(s)) = s
  BY DEF Parses, Refs, Ids
<1>4. \A i \in DOMAIN W : /\ row(i).id = file.ruleSeq + i /\ row(i).host = W[i].host
                          /\ row(i).targets = Ids(Remap(w, tx, W[i].refs.Values))
  OBVIOUS
<1>5. \A i \in DOMAIN W :
        /\ Range(Remap(w, tx, W[i].refs.Values)) \subseteq TargetIDs(tx)
        /\ {Place(tx, x) : x \in Range(Remap(w, tx, W[i].refs.Values))} =
             {T[j].place : j \in {k \in DOMAIN T : T[k].export_id \in Range(W[i].refs.Values)}}
  BY ImportedRefs
<1> HIDE DEF row, W, T
<1>6. \A i \in DOMAIN W : /\ Parses(row(i).targets)
                          /\ Refs(row(i).targets) = Remap(w, tx, W[i].refs.Values)
  BY <1>3, <1>4
<1>7. Loads(tx)
  <2>a. AcceptsRow("policy", Form(tx).policy) /\ AcceptsRow("push", Form(tx).push)
    BY Names DEF ImportDone, Accepts, AcceptsAlerts
  <2>b. Form(tx).policy \in Durations /\ Form(tx).push.interval \in Durations
    BY <2>a, LegalTexts DEF AcceptsRow, AcceptsPush
  <2>c. tx \in Databases
    BY DEF ImportDone, Database
  <2>d. "policy" \in tx.rows => tx.alerts.policy \in Durations \union {""}
    BY <2>b, <2>c, FormFacts
  <2>e. "push" \in tx.rows => tx.alerts.push.interval \in Durations \union {""}
    BY <2>b, <2>c, FormFacts
  <2>1. \A k \in SettingKeys : Legal(k, tx.settings[k])
    BY ImportedSettings
  <2>2. \A r \in tx.rules : Parses(r.targets) /\ Range(Refs(r.targets)) \subseteq TargetIDs(tx)
    BY <1>1, <1>5, <1>6
  <2> QED
    BY <2>1, <2>2, <2>d, <2>e DEF Loads
<1>8. Cardinality(tx.rules) = Len(W)
  <2> DEFINE f == [i \in 1..Len(W) |-> row(i)]
  <2>1. \A i, j \in 1..Len(W) : row(i) = row(j) => i = j
    <3>1. \A i \in 1..Len(W) : row(i).id = file.ruleSeq + i
      BY <1>2, <1>4
    <3> QED
      BY <1>2, <3>1
  <2>2. f \in [1..Len(W) -> tx.rules] /\ \A i \in 1..Len(W) : f[i] = row(i)
    BY <1>1, <1>2
  <2>3. \A r \in tx.rules : \E i \in 1..Len(W) : f[i] = r
    BY <1>1, <1>2
  <2> HIDE DEF f
  <2>4. f \in Bijection(1..Len(W), tx.rules)
    BY <2>1, <2>2, <2>3 DEF Bijection, Injection, Surjection, IsInjective
  <2>5. IsFiniteSet(1..Len(W)) /\ Cardinality(1..Len(W)) = Len(W)
    <3>1. \A n \in Nat : IsFiniteSet(1..n) /\ Cardinality(1..n) = IF 1 > n THEN 0 ELSE n - 1 + 1
      BY FS_Interval
    <3> QED
      BY <1>2, <3>1
  <2>6. ExistsBijection(1..Len(W), tx.rules)
    BY <2>4 DEF ExistsBijection
  <2> QED
    BY <2>5, <2>6, FS_Bijection
<1>9. ASSUME NEW i \in DOMAIN W
      PROVE  [host |-> W[i].host,
              targets |-> {T[j].place : j \in {k \in DOMAIN T : T[k].export_id \in Range(W[i].refs.Values)}}]
               \in Content(tx).rules
  <2> DEFINE seen(r) == IF Parses(r.targets) /\ Range(Refs(r.targets)) \subseteq TargetIDs(tx)
                        THEN {Place(tx, x) : x \in Range(Refs(r.targets))} ELSE {"broken"}
  <2>1. Content(tx).rules = {[host |-> r.host, targets |-> seen(r)] : r \in tx.rules}
    BY DEF Content
  <2>2. row(i) \in tx.rules
    BY <1>1
  <2>3. seen(row(i)) = {Place(tx, x) : x \in Range(Remap(w, tx, W[i].refs.Values))}
    BY <1>5, <1>6
  <2> HIDE DEF seen
  <2> QED
    BY <1>4, <1>5, <2>1, <2>2, <2>3
<1> QED
  BY <1>7, <1>8, <1>9 DEF W, T

\* Every target of the bundle is there, once, and no other is.
LEMMA ImportedTargets ==
  ASSUME NEW w, ImportDone(w), NEW p \in Places
  PROVE  Content(tx).places[p] =
           Cardinality({i \in DOMAIN w.targets.Values : w.targets.Values[i].place = p})
<1> DEFINE T == w.targets.Values
           I == {i \in DOMAIN T : T[i].place = p}
           R == {t \in tx.targets : t.place = p}
           row(i) == [id |-> file.targetSeq + i, place |-> T[i].place]
           f == [i \in I |-> row(i)]
<1>1. T \in Seq(WireTargets) /\ Len(T) \in Nat /\ DOMAIN T = 1..Len(T) /\ file.targetSeq \in Nat
  BY WireFacts DEF ImportDone, Database, Databases
<1>2. tx.targets = {row(i) : i \in DOMAIN T}
  BY DEF ImportDone, WireTargetRows
<1>3. \A i \in DOMAIN T : row(i).id = file.targetSeq + i /\ row(i).place = T[i].place
  OBVIOUS
<1>4. Content(tx).places[p] = Cardinality(R)
  BY DEF Content
<1> HIDE DEF row, T
<1>5. \A i \in I : f[i] = row(i) /\ row(i) \in R
  BY <1>2, <1>3
<1>6. \A i, j \in I : row(i) = row(j) => i = j
  <2>1. \A i, j \in DOMAIN T : file.targetSeq + i = file.targetSeq + j => i = j
    BY <1>1
  <2> QED
    BY <1>3, <2>1
<1>7. \A t \in R : \E i \in I : row(i) = t
  BY <1>2, <1>3
<1>8. f \in [I -> R]
  BY <1>5
<1>9. IsFiniteSet(I)
  <2>1. IsFiniteSet(DOMAIN T)
    BY <1>1, FS_Interval
  <2> QED
    BY <2>1, FS_Subset
<1> HIDE DEF f, I, R
<1>10. f \in Bijection(I, R)
  BY <1>5, <1>6, <1>7, <1>8 DEF Bijection, Injection, Surjection, IsInjective
<1>11. ExistsBijection(I, R)
  BY <1>10 DEF ExistsBijection
<1>12. Cardinality(R) = Cardinality(I)
  BY <1>9, <1>11, FS_Bijection
<1> QED
  BY <1>4, <1>12 DEF I, T

\* The conjuncts of ImportExact.
LEMMA ImportedExactly ==
  ASSUME BundleInv
  PROVE  ImportExact
<1> SUFFICES ASSUME op.kind = "import", todo = <<>>
             PROVE  /\ Loads(tx)
                    /\ Content(tx).settings = op.wire.settings /\ Content(tx).alerts = op.wire.alerts
                    /\ \A p \in Places :
                         Content(tx).places[p] =
                           Cardinality({i \in DOMAIN op.wire.targets.Values :
                                          op.wire.targets.Values[i].place = p})
                    /\ Len(Export(tx).rules.Values) = Len(op.wire.rules.Values)
                    /\ \A i \in DOMAIN op.wire.rules.Values :
                         LET r == op.wire.rules.Values[i]
                             targets == op.wire.targets.Values
                         IN [host |-> r.host,
                             targets |-> {targets[j].place :
                                            j \in {k \in DOMAIN targets :
                                                     targets[k].export_id \in Range(r.refs.Values)}}]
                              \in Content(tx).rules
  BY DEF ImportExact
<1>1. ImportDone(op.wire)
  BY ImportEnds
<1>2. Content(tx).settings = op.wire.settings
  BY <1>1, ImportedSettings
<1>3. Content(tx).alerts = op.wire.alerts
  <2>1. Content(tx).alerts = Form(tx)
    BY DEF Content
  <2> QED
    BY <1>1, <2>1 DEF ImportDone
<1>4. Len(Export(tx).rules.Values) = Len(op.wire.rules.Values)
  <2>1. Len(Export(tx).rules.Values) = Cardinality(tx.rules)
    BY <1>1, ExportedRules DEF ImportDone
  <2> QED
    BY <1>1, <2>1, ImportedRules
<1> QED
  BY <1>1, <1>2, <1>3, <1>4, ImportedRules, ImportedTargets

-----------------------------------------------------------------------------
(***************************************************************************)
(* The theorems.                                                           *)
(***************************************************************************)
LEMMA StepKeeps == BundleInv /\ [Next]_vars => BundleInv'
<1> SUFFICES ASSUME BundleInv, [Next]_vars PROVE BundleInv'
  OBVIOUS
<1>1. CASE Start
  BY <1>1, StartKeeps
<1>2. CASE Migrate
  BY <1>2, MigrateKeeps
<1>3. CASE MigrationCommits
  BY <1>3, MigrationCommitsKeeps
<1>4. CASE Load
  BY <1>4, LoadKeeps
<1>5. CASE PostRule
  BY <1>5, PostRuleKeeps
<1>6. CASE PutRule
  BY <1>6, PutRuleKeeps
<1>7. CASE RemoveRule
  BY <1>7, RemoveRuleKeeps
<1>8. CASE PostTarget
  BY <1>8, PostTargetKeeps
<1>9. CASE RemoveTarget
  BY <1>9, RemoveTargetKeeps
<1>10. CASE PutSettings
  BY <1>10, PutSettingsKeeps
<1>11. CASE PutAlerts
  BY <1>11, PutAlertsKeeps
<1>12. CASE Reset
  BY <1>12, ResetKeeps
<1>13. CASE Import
  BY <1>13, ImportKeeps
<1>14. CASE ConfigExport
  BY <1>14, ConfigExportKeeps
<1>15. CASE Statement
  BY <1>15, StatementKeeps
<1>16. CASE Commit
  BY <1>16, CommitKeeps
<1>17. CASE Fails \/ Dies
  BY <1>17, FaultKeeps
<1>18. CASE EditFile
  BY <1>18, EditFileKeeps
<1>19. CASE UNCHANGED vars
  <2>1. /\ file' = file /\ tx' = tx /\ op' = op /\ todo' = todo /\ added' = added /\ phase' = phase
        /\ exported' = exported /\ said' = said /\ saved' = saved /\ unchecked' = unchecked
    BY <1>19 DEF vars, history
  <2>2. \A k : Migrated(k)' = Migrated(k) /\ Written(k)' = Written(k)
    BY <2>1 DEF Migrated, EmailAt, WebhookAt, EmailOn, WebhookOn, Fresh, Done, Current, Written
  <2>3. \A w : WireTargetRows(w)' = WireTargetRows(w) /\ WireRuleRows(w)' = WireRuleRows(w)
    BY <2>1, RowsOfWire
  <2>4. \A k : Imported(k)' = Imported(k)
    BY <2>1, <2>2, <2>3 DEF Imported
  <2>5. Effect(op.kind, file)' = Effect(op.kind, file)
    BY <2>1 DEF Effect
  <2>6. Progress'
    BY <2>1, <2>2, <2>4, <2>5 DEF BundleInv, Progress, SameRules, SameTargets, SameAlerts
  <2> QED
    BY <2>1, <2>6 DEF BundleInv, Typed, Stages, Fit, WidelyMeant, Settled
<1> QED
  BY <1>1, <1>2, <1>3, <1>4, <1>5, <1>6, <1>7, <1>8, <1>9, <1>10, <1>11, <1>12, <1>13, <1>14, <1>15,
     <1>16, <1>17, <1>18, <1>19 DEF Next

LEMMA AlwaysBundleInv == Spec => []BundleInv
<1>1. Init => BundleInv
  BY InitKeeps
<1>2. BundleInv /\ [Next]_vars => BundleInv'
  BY StepKeeps
<1> QED
  BY <1>1, <1>2, PTL DEF Spec

\* Whatever the databases found at first, and whatever dies, fails or is edited,
\* the file and the transaction hold databases of the schema whose keys are
\* sound (store.go schemaSQL), and what was exported is a bundle.
THEOREM BundleTypeCorrect == Spec => []Typed
<1>1. BundleInv => Typed
  BY DEF BundleInv
<1> QED
  BY <1>1, AlwaysBundleInv, PTL

\* A rule of a running configuration applies to all targets only if it was last
\* given none: damage to its references refuses the load, an import remaps them
\* one by one, and a target in use is not removed (rules.go, bundle_v3.go).
THEOREM OnlyMeantRulesAreWide == Spec => []NeverWidened
<1>1. BundleInv => NeverWidened
  <2> SUFFICES ASSUME BundleInv, Loads(file), NEW r \in file.rules, Refs(r.targets) = <<>>
               PROVE  r.id \in said
    BY DEF NeverWidened
  <2>1. Parses(r.targets)
    BY DEF Loads
  <2> QED
    BY <2>1 DEF BundleInv, WidelyMeant, Wide
<1> QED
  BY <1>1, AlwaysBundleInv, PTL

\* A row the form shows can be sent back, and an import takes what is exported,
\* for databases of any age and whatever is migrated, imported, reset, damaged or
\* lost on the way, except for values that came from outside the program: those
\* of a version without the validators and of an edit of the file, which the
\* loaders take as they are (toBundleV3 in bundle_v3.go, handleGetAlerts).  It
\* rests on Keyed: no rule of the file names a target twice.
THEOREM OwnExportIsAccepted == Spec => []ExportAccepted
<1>1. BundleInv => ExportAccepted
  <2> SUFFICES ASSUME BundleInv, phase = "running", Loads(file)
               PROVE  /\ \A row \in SingleRows \ unchecked : AcceptsRow(row, Form(file)[row])
                      /\ unchecked = {} => Accepts(Export(file))
    BY DEF ExportAccepted
  <2>1. /\ Database(file) /\ file \in Databases /\ file.columns = EveryColumn /\ saved = Meant(file)
        /\ \A row \in SingleRows \ unchecked : AcceptsRow(row, saved.alerts[row])
    BY DEF BundleInv, Typed, Stages, Settled, Database
  <2>2. saved.alerts = Form(file)
    BY <2>1, NothingToRenew DEF Content
  <2>3. \A row \in SingleRows \ unchecked : AcceptsRow(row, Form(file)[row])
    BY <2>1, <2>2
  <2>4. ASSUME unchecked = {} PROVE Accepts(Export(file))
    <3>1. AcceptsAlerts(Form(file))
      BY <2>3, <2>4 DEF AcceptsAlerts
    <3> QED
      BY <2>1, <3>1, ExportFacts
  <2> QED
    BY <2>3, <2>4
<1> QED
  BY <1>1, AlwaysBundleInv, PTL

\* When its statements are done an import has replaced the configuration by the
\* one of the bundle, every rule with the targets it named there
\* (handleConfigImport in export.go).
THEOREM ImportIsExact == Spec => []ImportExact
<1>1. BundleInv => ImportExact
  BY ImportedExactly
<1> QED
  BY <1>1, AlwaysBundleInv, PTL

\* A running process has what was last committed: a crash, a failed statement,
\* a restart and the migration of an old database lose and change nothing
\* (initTables in store.go).
THEOREM RestartsKeepEverything == Spec => []RestartKeeps
<1>1. BundleInv => RestartKeeps
  <2> SUFFICES ASSUME BundleInv, phase = "running" PROVE Content(file) = saved
    BY DEF RestartKeeps
  <2>1. file \in Databases /\ file.columns = EveryColumn /\ saved = Meant(file)
    BY DEF BundleInv, Typed, Stages, Settled, Database
  <2> QED
    BY <2>1, NothingToRenew
<1> QED
  BY <1>1, AlwaysBundleInv, PTL
====
