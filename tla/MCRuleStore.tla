---------------------------- MODULE MCRuleStore ----------------------------
(* Instances of RuleStore: which rules exist and how they are spelled. *)
EXTENDS RuleStore, TLC

CONSTANTS i1, i2, i3

R(action, threshold) == [action |-> action, threshold |-> threshold]

\* Two thresholds of each action the agent acts upon.
TwoOfEach == {R("block", 1), R("block", 2), R("rate_limit", 1), R("rate_limit", 2)}

\* The API stores any action: also one the code spells differently.
AnySpelling == TwoOfEach \cup {R("ratelimit", 1)}

Symmetric == Permutations({i1, i2, i3})
=============================================================================
