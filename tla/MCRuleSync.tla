----------------------------- MODULE MCRuleSync -----------------------------
(* Instances of RuleSync.  Agents do not interact, so each has one: edge,
   which listens to topic prod, or lab, which listens to everything. *)
EXTENDS RuleSync, TLC

CONSTANTS edge, lab, prod, staging, v1, v2, h1, h2

OnlyEdge == (edge :> prod)
OnlyLab == (lab :> Global)

SameValues == Permutations({v1, v2})
Symmetric == Permutations({h1, h2}) \cup SameValues
=============================================================================
