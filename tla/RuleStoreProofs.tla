-------------------------- MODULE RuleStoreProofs --------------------------
(***************************************************************************)
(* Theorems about RuleStore, for every set of ids, rules and rates: types, *)
(* and what Match returns whatever order the Go map is iterated in.        *)
(***************************************************************************)
EXTENDS RuleStore, TLAPS

\* The rule sets are closed under the operations of the store.
LEMMA PutType ==
    ASSUME NEW rs \in RuleSets, NEW i \in Ids, NEW r \in RuleValues
    PROVE  Put(rs, i, r) \in RuleSets
<1>1. PICK S \in SUBSET Ids : rs \in [S -> RuleValues]
  BY DEF RuleSets
<1>2. Put(rs, i, r) \in [S \cup {i} -> RuleValues]
  BY <1>1 DEF Put
<1>3. S \cup {i} \in SUBSET Ids
  OBVIOUS
<1> QED
  BY <1>2, <1>3 DEF RuleSets

\* delete(s.rules, id) leaves a rule set.
LEMMA WithoutType ==
    ASSUME NEW rs \in RuleSets, NEW i
    PROVE  Without(rs, i) \in RuleSets
<1>1. PICK S \in SUBSET Ids : rs \in [S -> RuleValues]
  BY DEF RuleSets
<1>2. Without(rs, i) \in [S \ {i} -> RuleValues]
  BY <1>1 DEF Without, Restrict
<1>3. S \ {i} \in SUBSET Ids
  OBVIOUS
<1> QED
  BY <1>2, <1>3 DEF RuleSets

\* The empty map is a rule set.
LEMMA NoRulesType == NoRules \in RuleSets
<1>1. NoRules \in [{} -> RuleValues]
  BY DEF NoRules
<1> QED
  BY <1>1 DEF RuleSets

\* What a rule set maps to what.
LEMMA RuleSetElement ==
    ASSUME NEW rs \in RuleSets
    PROVE  /\ DOMAIN rs \subseteq Ids
           /\ \A i \in DOMAIN rs : rs[i] \in RuleValues
BY DEF RuleSets

\* A file that parses holds a rule set.
LEMMA CachedType ==
    ASSUME NEW d \in {NoFile, Garbage} \cup {File(rs) : rs \in RuleSets}
    PROVE  Cached(d) \in RuleSets
<1>1. CASE d \in {NoFile, Garbage}
  BY <1>1, NoRulesType DEF Cached, NoFile, Garbage
<1>2. CASE d \in {File(rs) : rs \in RuleSets}
  <2>1. PICK rs \in RuleSets : d = File(rs)
    BY <1>2
  <2> QED
    BY <2>1 DEF Cached, File
<1> QED
  BY <1>1, <1>2

-----------------------------------------------------------------------------
\* Type correctness of the store, its file and the state of Match
\* (store.go:15-164).
THEOREM TypeCorrect == Spec => []TypeOK
<1>1. Init => TypeOK
  BY NoRulesType DEF Init, TypeOK
<1>2. TypeOK /\ [Next]_vars => TypeOK'
  <2> SUFFICES ASSUME TypeOK, [Next]_vars PROVE TypeOK'
    OBVIOUS
  <2> USE DEF TypeOK, scan
  <2>1. ASSUME NEW rs \in RuleSets, StartFromServer(rs) PROVE TypeOK'
    BY <2>1, NoRulesType DEF StartFromServer
  <2>2. CASE StartFromCache
    <3>1. rules' \in RuleSets
      BY <2>2, CachedType DEF StartFromCache
    <3> QED
      BY <3>1, <2>2, NoRulesType DEF StartFromCache
  <2>3. ASSUME NEW i \in Ids, UpsertSilent(i) PROVE TypeOK'
    <3>1. todo[i] \in RuleValues
      BY <2>3, RuleSetElement DEF UpsertSilent
    <3>2. rules' \in RuleSets /\ todo' \in RuleSets
      BY <2>3, <3>1, PutType, WithoutType DEF UpsertSilent
    <3> QED
      BY <3>2, <2>3 DEF UpsertSilent
  <2>4. ASSUME NEW i \in Ids, NEW r \in RuleValues, Upsert(i, r) PROVE TypeOK'
    <3>1. rules' \in RuleSets
      BY <2>4, PutType DEF Upsert
    <3> QED
      BY <3>1, <2>4 DEF Upsert
  <2>5. ASSUME NEW i \in Ids, Delete(i) PROVE TypeOK'
    <3>1. rules' \in RuleSets
      BY <2>5, WithoutType DEF Delete
    <3> QED
      BY <3>1, <2>5 DEF Delete
  <2>6. CASE Clear
    BY <2>6, NoRulesType DEF Clear
  <2>7. CASE Truncate
    BY <2>7 DEF Truncate
  <2>8. CASE WriteFile
    BY <2>8 DEF WriteFile
  <2>9. CASE SaveFails
    BY <2>9 DEF SaveFails
  <2>10. ASSUME NEW q \in Rates, StartMatch(q) PROVE TypeOK'
    BY <2>10 DEF StartMatch
  <2>11. ASSUME NEW i \in Ids, Visit(i) PROVE TypeOK'
    BY <2>11 DEF Visit
  <2>12. CASE ReturnMatch
    BY <2>12 DEF ReturnMatch
  <2>13. CASE Crash
    BY <2>13, NoRulesType DEF Crash
  <2>14. CASE UNCHANGED vars
    BY <2>14 DEF vars
  <2> QED
    BY <2>1, <2>2, <2>3, <2>4, <2>5, <2>6, <2>7, <2>8, <2>9, <2>10, <2>11,
       <2>12, <2>13, <2>14 DEF Next
<1> QED
  BY <1>1, <1>2, PTL DEF Spec

-----------------------------------------------------------------------------
\* One iteration keeps the closed form: if best may win among the exceeded
\* rules E, the rule Beats chooses may win among E and the new rule.
LEMMA BeatsKeepsWinner ==
    ASSUME NEW rs \in RuleSets, NEW E \in SUBSET DOMAIN rs,
           NEW i \in DOMAIN rs \ E, NEW b \in E, MayWin(rs, E, b)
    PROVE  MayWin(rs, E \cup {i}, IF Beats(rs[i], rs[b]) THEN i ELSE b)
<1>1. \A j \in DOMAIN rs : rs[j].threshold \in Int
  BY RuleSetElement, RuleStoreAssumption
<1>2. CASE Beats(rs[i], rs[b])
  <2>1. CASE rs[i].action = "block"
    BY <1>2, <2>1 DEF MayWin
  <2>2. CASE rs[i].action = rs[b].action /\ rs[i].threshold > rs[b].threshold
    BY <1>1, <1>2, <2>2 DEF MayWin
  <2> QED
    BY <1>2, <2>1, <2>2 DEF Beats
<1>3. CASE ~Beats(rs[i], rs[b])
  BY <1>1, <1>3 DEF MayWin, Beats
<1> QED
  BY <1>2, <1>3

\* Whatever order the map is iterated in, the loop of Match keeps a rule that
\* Match may return for the rules visited so far (store.go:86-107).
THEOREM MatchIsSound == Spec => []MatchSound
<1>1. Init => MatchSound
  BY DEF Init, MatchSound
<1>2. TypeOK /\ MatchSound /\ [Next]_vars => MatchSound'
  <2> SUFFICES ASSUME TypeOK, MatchSound, [Next]_vars PROVE MatchSound'
    OBVIOUS
  <2>1. ASSUME NEW q \in Rates, StartMatch(q) PROVE MatchSound'
    BY <2>1 DEF StartMatch, MatchSound
  <2>2. ASSUME NEW i \in Ids, Visit(i) PROVE MatchSound'
    <3> DEFINE E == Exceeded(rules, rate) \cap visited
    <3>1. /\ op = "matching" /\ i \in DOMAIN rules \ visited
          /\ visited' = visited \cup {i}
          /\ rules' = rules /\ rate' = rate /\ op' = op
          /\ rules \in RuleSets
      BY <2>2 DEF Visit, TypeOK
    <3>2. IF E = {} THEN best = NoRule ELSE best \in E /\ MayWin(rules, E, best)
      BY <3>1 DEF MatchSound
    <3>3. E \in SUBSET DOMAIN rules /\ E \subseteq Ids
      BY <3>1, RuleSetElement DEF Exceeded
    <3>4. best = NoRule <=> E = {}
      BY <3>2, <3>3, RuleStoreAssumption
    <3>5. CASE i \notin Exceeded(rules, rate)
      <4>1. (Exceeded(rules, rate) \cap visited)' = E
        BY <3>1, <3>5
      <4>2. best' = best
        BY <2>2, <3>5 DEF Visit
      <4> QED
        BY <3>1, <3>2, <4>1, <4>2 DEF MatchSound
    <3>6. CASE i \in Exceeded(rules, rate)
      <4>1. (Exceeded(rules, rate) \cap visited)' = E \cup {i}
        BY <3>1, <3>6
      <4>2. CASE best = NoRule
        <5>1. best' = i
          BY <2>2, <3>6, <4>2 DEF Visit
        <5>2. \A j \in DOMAIN rules : rules[j].threshold \in Int
          BY <3>1, RuleSetElement, RuleStoreAssumption
        <5>3. MayWin(rules, {i}, i)
          BY <3>1, <5>2 DEF MayWin
        <5> QED
          BY <3>1, <3>4, <4>1, <4>2, <5>1, <5>3 DEF MatchSound
      <4>3. CASE best # NoRule
        <5>1. best' = IF Beats(rules[i], rules[best]) THEN i ELSE best
          BY <2>2, <3>6, <4>3 DEF Visit
        <5>2. best \in E /\ MayWin(rules, E, best)
          BY <3>2, <3>4, <4>3
        <5>3. MayWin(rules, E \cup {i}, best')
          BY <3>1, <3>3, <5>1, <5>2, BeatsKeepsWinner
        <5> QED
          BY <3>1, <4>1, <5>1, <5>2, <5>3 DEF MatchSound
      <4> QED
        BY <4>2, <4>3
    <3> QED
      BY <3>5, <3>6
  <2>3. CASE ReturnMatch
    BY <2>3 DEF ReturnMatch, MatchSound
  <2>4. CASE Crash
    BY <2>4 DEF Crash, MatchSound
  <2>5. ASSUME op' # "matching" PROVE MatchSound'
    BY <2>5 DEF MatchSound
  <2>6. CASE UNCHANGED vars
    BY <2>6 DEF vars, MatchSound
  <2> QED
    BY <2>1, <2>2, <2>3, <2>4, <2>5, <2>6 DEF Next, StartFromServer, StartFromCache,
       UpsertSilent, Upsert, Delete, Clear, Truncate, WriteFile, SaveFails, Ready
<1> QED
  BY <1>1, <1>2, TypeCorrect, PTL DEF Spec

\* The answer of Match is one of Winners for every rule set and rate
\* (store.go:79-110): the run loop's model may use Winners for Match.
THEOREM MatchReturnsAWinner == Spec => []MatchReturnsWinner
<1>1. TypeOK /\ MatchSound => MatchReturnsWinner
  <2> SUFFICES ASSUME TypeOK, MatchSound, Matched PROVE best \in Winners(rules, rate)
    BY DEF MatchReturnsWinner
  <2>1. Exceeded(rules, rate) \cap visited = Exceeded(rules, rate)
    BY DEF Matched, Exceeded
  <2> QED
    BY <2>1 DEF MatchSound, Matched, Winners
<1> QED
  BY <1>1, TypeCorrect, MatchIsSound, PTL

\* A block rule whose threshold is exceeded takes priority over every
\* rate_limit rule, and among rate_limit rules the highest threshold wins
\* (README.md:214-215, store.go:97-106).
THEOREM Priorities == Spec => [](BlockPriority /\ HighestRateLimitWins)
<1>1. TypeOK /\ MatchSound => BlockPriority /\ HighestRateLimitWins
  <2> SUFFICES ASSUME TypeOK, MatchSound, Matched, best # NoRule,
                      rules[best].action = "rate_limit",
                      NEW i \in Exceeded(rules, rate)
               PROVE  /\ rules[i].action # "block"
                      /\ rules[i].action = "rate_limit"
                            => rules[i].threshold <= rules[best].threshold
    BY DEF BlockPriority, HighestRateLimitWins
  <2>1. Exceeded(rules, rate) \cap visited = Exceeded(rules, rate)
    BY DEF Matched, Exceeded
  <2>2. MayWin(rules, Exceeded(rules, rate), best)
    BY <2>1 DEF MatchSound, Matched
  <2> QED
    BY <2>2 DEF MayWin
<1> QED
  BY <1>1, TypeCorrect, MatchIsSound, PTL

-----------------------------------------------------------------------------
\* The inductive invariant behind CacheExact says the same while Match runs and
\* while the fetched rules are upserted: whoever holds the lock without saving
\* finds the file up to date.
CacheCurrent ==
    op \in {"idle", "matching"} /\ ~failed /\ ~(origin = "server" /\ rules = NoRules)
        => Cached(disk) = rules

\* Whatever crashes, failing writes and operations came before, a restart from
\* the cache restores the rules in memory, unless the last write failed or the
\* server sent no rules at startup (store.go:30-62, 113-164).
THEOREM CacheAlwaysExact == Spec => []CacheExact
<1>1. Init => CacheCurrent
  BY DEF Init, CacheCurrent
<1>2. CacheCurrent /\ [Next]_vars => CacheCurrent'
  <2> SUFFICES ASSUME CacheCurrent, [Next]_vars PROVE CacheCurrent'
    OBVIOUS
  <2> USE DEF CacheCurrent, scan
  \* Nothing is saved of an empty list, and a file that parses is what is loaded.
  <2>1. ASSUME NEW rs \in RuleSets, StartFromServer(rs) PROVE CacheCurrent'
    BY <2>1 DEF StartFromServer
  <2>2. CASE StartFromCache
    BY <2>2 DEF StartFromCache
  \* A change leaves the lock to the save that follows.
  <2>3. ASSUME op' \in {"saving", "writing", "down"} PROVE CacheCurrent'
    BY <2>3
  <2>4. CASE Clear
    BY <2>4 DEF Clear, Cached, NoFile
  <2>5. CASE WriteFile
    BY <2>5 DEF WriteFile, Cached, File
  <2>6. CASE SaveFails
    BY <2>6 DEF SaveFails
  <2>7. ASSUME NEW q \in Rates, StartMatch(q) PROVE CacheCurrent'
    BY <2>7 DEF StartMatch, Ready
  <2>8. ASSUME NEW i \in Ids, Visit(i) PROVE CacheCurrent'
    BY <2>8 DEF Visit
  <2>9. CASE ReturnMatch
    BY <2>9 DEF ReturnMatch, Matched
  <2>10. CASE UNCHANGED vars
    BY <2>10 DEF vars
  <2> QED
    BY <2>1, <2>2, <2>3, <2>4, <2>5, <2>6, <2>7, <2>8, <2>9, <2>10
       DEF Next, UpsertSilent, Upsert, Delete, Truncate, Crash
<1>3. CacheCurrent => CacheExact
  BY DEF CacheCurrent, CacheExact, Ready
<1> QED
  BY <1>1, <1>2, <1>3, PTL DEF Spec
=============================================================================
