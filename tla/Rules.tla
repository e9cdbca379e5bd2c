------------------------------- MODULE Rules -------------------------------
(***************************************************************************)
(* Policy rules (internal/models/policy.go) and the decision the agent     *)
(* takes with them.  RuleStore.Match walks a Go map, whose iteration order *)
(* is random: Beats is the comparison one iteration makes, and Winners is  *)
(* the closed form of the answers some iteration order can produce.        *)
(*                                                                         *)
(* A rule set is a function from rule ids to records that have at least    *)
(* the fields threshold and action.                                        *)
(***************************************************************************)
EXTENDS Integers, Functions

CONSTANT NoRule  \* the nil result of Match: no rule applies

\* s.rules[rule.ID] = rule
Put(rs, i, r) == [j \in DOMAIN rs \cup {i} |-> IF j = i THEN r ELSE rs[j]]

\* delete(s.rules, id)
Without(rs, i) == Restrict(rs, DOMAIN rs \ {i})

NoRules == [i \in {} |-> i]

\* The ids whose threshold the rate exceeds.  The comparison is strict.
Exceeded(rs, rate) == {i \in DOMAIN rs : rate > rs[i].threshold}

\* One iteration of Match replaces the best rule so far (old) by new.
Beats_RateLimitFirst(new, old) ==
    \/ new.action = "rate_limit" /\ old.action # "ratelimit"
    \/ new.action = old.action /\ new.threshold > old.threshold

Beats_LowestWins(new, old) ==
    \/ new.action = "block" /\ old.action # "ratelimit"
    \/ new.action = old.action /\ new.threshold < old.threshold

Beats(new, old) ==
    \/ new.action = "block" /\ old.action # "ratelimit"
    \/ new.action = old.action /\ new.threshold > old.threshold

\* Among the exceeded rules E, rule i is what Match returns for some order:
\* any block rule, since each block visited later replaces the earlier one,
\* or the highest threshold of another action.  An action other than block
\* wins over an exceeded block only when it is spelled "ratelimit".
MayWin(rs, E, i) ==
    \/ rs[i].action = "block"
    \/ /\ \A j \in E : rs[j].action = rs[i].action
                          => rs[j].threshold <= rs[i].threshold
       /\ rs[i].action # "ratelimit"
             => \A j \in E : rs[j].action # "block"

Winners(rs, rate) ==
    LET E == Exceeded(rs, rate)
    IN  IF E = {} THEN {NoRule} ELSE {i \in E : MayWin(rs, E, i)}
=============================================================================
