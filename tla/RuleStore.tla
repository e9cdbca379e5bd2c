----------------------------- MODULE RuleStore -----------------------------
(***************************************************************************)
(* The agent's rule store (internal/agent/config/store.go): the rules map, *)
(* its lock, Match, and the JSON cache file.                               *)
(*                                                                         *)
(* Every operation but LoadFromDisk holds s.mu, so at most one operation   *)
(* is in progress; op says which.  An operation that writes the cache does *)
(* it with os.WriteFile, which first truncates the file: a crash between   *)
(* the two steps leaves a file that does not parse.  Match visits the      *)
(* rules in an arbitrary order, one Visit per iteration.                   *)
(***************************************************************************)
EXTENDS Rules

CONSTANTS Ids,         \* rule ids
          RuleValues,  \* the rules the API can create (the id aside)
          Rates        \* requests per second Match is asked about

ASSUME RuleStoreAssumption ==
    /\ NoRule \notin Ids
    /\ \A r \in RuleValues : r.threshold \in Int
    /\ Rates \subseteq Int

VARIABLES
    rules,    \* s.rules
    disk,     \* the cache file
    op,       \* the operation in progress
    todo,     \* rules fetched at startup and not yet upserted
    origin,   \* ghost: where the rules in memory came from
    failed,   \* ghost: the last write of the cache failed
    rate,     \* Match's argument
    visited,  \* the rules Match has iterated over
    best      \* bestRule, NoRule for nil

vars == <<rules, disk, op, todo, origin, failed, rate, visited, best>>
scan == <<rate, visited, best>>

RuleSets == UNION {[S -> RuleValues] : S \in SUBSET Ids}

\* Nobody holds the lock and startup is over.
Ready == op = "idle" /\ todo = NoRules

NoFile  == [kind |-> "none"]
Garbage == [kind |-> "garbage"]
File(rs) == [kind |-> "rules", rules |-> rs]

\* What LoadFromDisk obtains: nothing when the file is missing or does not
\* parse.
Cached(d) == IF d.kind = "rules" THEN d.rules ELSE NoRules

TypeOK ==
    /\ rules \in RuleSets
    /\ disk \in {NoFile, Garbage} \cup {File(rs) : rs \in RuleSets}
    /\ op \in {"idle", "saving", "writing", "matching", "down"}
    /\ todo \in RuleSets
    /\ origin \in {"cache", "server", "edited"}
    /\ failed \in BOOLEAN
    /\ rate \in Rates \cup {0}
    /\ visited \subseteq Ids
    /\ best \in Ids \cup {NoRule}

Init ==
    /\ rules = NoRules /\ disk = NoFile /\ op = "down" /\ todo = NoRules
    /\ origin = "cache" /\ failed = FALSE
    /\ rate = 0 /\ visited = {} /\ best = NoRule

-----------------------------------------------------------------------------
\* connectToServer succeeded: the fetched rules rs are upserted one by one.
StartFromServer(rs) ==
    /\ op = "down"
    /\ rules' = NoRules /\ todo' = rs /\ op' = "idle" /\ origin' = "server"
    /\ UNCHANGED <<disk, failed, scan>>

\* connectToServer gave up: LoadFromDisk.
StartFromCache ==
    /\ op = "down"
    /\ rules' = Cached(disk) /\ todo' = NoRules /\ op' = "idle" /\ origin' = "cache"
    /\ UNCHANGED <<disk, failed, scan>>

UpsertSilent(i) ==
    /\ op = "idle" /\ i \in DOMAIN todo
    /\ rules' = Put(rules, i, todo[i])
    /\ todo' = Without(todo, i)
    /\ op' = "saving"
    /\ UNCHANGED <<disk, origin, failed, scan>>

\* A policy.update message.
Upsert(i, r) ==
    /\ Ready
    /\ rules' = Put(rules, i, r)
    /\ op' = "saving" /\ origin' = "edited"
    /\ UNCHANGED <<disk, todo, failed, scan>>

\* A policy.delete message; an unknown id changes nothing.
Delete_NoSave(i) ==
    /\ Ready /\ i \in DOMAIN rules
    /\ rules' = Without(rules, i)
    /\ origin' = "edited"
    /\ UNCHANGED <<disk, todo, op, failed, scan>>

Delete(i) ==
    /\ Ready /\ i \in DOMAIN rules
    /\ rules' = Without(rules, i)
    /\ op' = "saving" /\ origin' = "edited"
    /\ UNCHANGED <<disk, todo, failed, scan>>

\* watchServer found the server back.
Clear ==
    /\ Ready
    /\ rules' = NoRules /\ disk' = NoFile
    /\ origin' = "edited" /\ failed' = FALSE
    /\ UNCHANGED <<op, todo, scan>>

-----------------------------------------------------------------------------
\* saveToDisk: open with O_TRUNC, then write; either step can fail.
Truncate ==
    /\ op = "saving"
    /\ disk' = Garbage /\ op' = "writing"
    /\ UNCHANGED <<rules, todo, origin, failed, scan>>

WriteFile ==
    /\ op = "writing"
    /\ disk' = File(rules) /\ op' = "idle" /\ failed' = FALSE
    /\ UNCHANGED <<rules, todo, origin, scan>>

SaveFails ==
    /\ op \in {"saving", "writing"}
    /\ op' = "idle" /\ failed' = TRUE
    /\ UNCHANGED <<rules, disk, todo, origin, scan>>

-----------------------------------------------------------------------------
StartMatch(q) ==
    /\ Ready
    /\ op' = "matching" /\ rate' = q /\ visited' = {} /\ best' = NoRule
    /\ UNCHANGED <<rules, disk, todo, origin, failed>>

\* One iteration of the loop in Match.
Visit_FirstWins(i) ==
    /\ op = "matching" /\ i \in DOMAIN rules \ visited
    /\ visited' = visited \cup {i}
    /\ best' = IF i \in Exceeded(rules, rate) /\ best = NoRule THEN i ELSE best
    /\ UNCHANGED <<rules, disk, op, todo, origin, failed, rate>>

Visit_KeepsRule(i) ==
    /\ op = "matching" /\ i \in DOMAIN rules \ visited
    /\ visited' = visited \cup {i}
    /\ best' = IF i \in Exceeded(rules, rate) THEN rules[i] ELSE best
    /\ UNCHANGED <<rules, disk, op, todo, origin, failed, rate>>

Visit(i) ==
    /\ op = "matching" /\ i \in DOMAIN rules \ visited
    /\ visited' = visited \cup {i}
    /\ best' = IF /\ i \in Exceeded(rules, rate)
                  /\ best # NoRule => Beats(rules[i], rules[best])
               THEN i ELSE best
    /\ UNCHANGED <<rules, disk, op, todo, origin, failed, rate>>

\* Match has looked at every rule and best is what it returns.
Matched == op = "matching" /\ visited = DOMAIN rules

ReturnMatch ==
    /\ Matched
    /\ op' = "idle" /\ rate' = 0 /\ visited' = {} /\ best' = NoRule
    /\ UNCHANGED <<rules, disk, todo, origin, failed>>

\* The process dies; only the file survives.
Crash ==
    /\ op # "down"
    /\ op' = "down" /\ rules' = NoRules /\ todo' = NoRules
    /\ rate' = 0 /\ visited' = {} /\ best' = NoRule
    /\ UNCHANGED <<disk, origin, failed>>

Next ==
    \/ \E rs \in RuleSets : StartFromServer(rs)
    \/ StartFromCache
    \/ \E i \in Ids : UpsertSilent(i)
    \/ \E i \in Ids, r \in RuleValues : Upsert(i, r)
    \/ \E i \in Ids : Delete(i)
    \/ Clear
    \/ Truncate \/ WriteFile \/ SaveFails
    \/ \E q \in Rates : StartMatch(q)
    \/ \E i \in Ids : Visit(i)
    \/ ReturnMatch
    \/ Crash

Spec == Init /\ [][Next]_vars

-----------------------------------------------------------------------------
\* Whatever the iteration order, at every point of the loop of Match
\* (store.go:86-107) the best rule so far is one of the rules that Match may
\* return for the rules visited, and it is nil exactly when none of them is
\* exceeded.
MatchSound ==
    op = "matching" =>
        LET E == Exceeded(rules, rate) \cap visited
        IN  IF E = {} THEN best = NoRule
                      ELSE best \in E /\ MayWin(rules, E, best)

\* What Match returns is one of Winners (store.go:79-110), the operator the
\* model of the run loop uses in its place.
MatchReturnsWinner == Matched => best \in Winners(rules, rate)

\* "block always takes priority over rate_limit" (README.md:214): Match never
\* returns a rate_limit rule while the threshold of a block rule is exceeded.
BlockPriority ==
    Matched /\ best # NoRule /\ rules[best].action = "rate_limit" =>
        \A i \in Exceeded(rules, rate) : rules[i].action # "block"

\* Among rate_limit rules the highest exceeded threshold wins, whatever the
\* order (README.md:215, store.go:103-106).
HighestRateLimitWins ==
    Matched /\ best # NoRule /\ rules[best].action = "rate_limit" =>
        \A i \in Exceeded(rules, rate) :
            rules[i].action = "rate_limit" => rules[i].threshold <= rules[best].threshold

\* When no operation is in progress, a restart from the cache would restore
\* exactly the rules in memory, unless the last write failed or the server
\* sent no rules at startup (store.go:30-62, 113-164).
CacheExact ==
    Ready /\ ~failed /\ ~(origin = "server" /\ rules = NoRules) => Cached(disk) = rules
=============================================================================
