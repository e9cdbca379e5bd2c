---------------------------- MODULE MCAgentLoop ----------------------------
(* Instances of AgentLoop: the rule sets the store goes through. *)
EXTENDS AgentLoop, TLC

CONSTANTS ip1, blk, lim, lim2

Block(threshold, duration) ==
    [action |-> "block", threshold |-> threshold, duration |-> duration]

Limit(threshold) == [action |-> "rate_limit", threshold |-> threshold, duration |-> 0]

\* No rule, a limit, a block shorter than a period, and two limits with a
\* block above them that is longer than a period.
Several == { NoRules,
             (lim :> Limit(1)),
             (blk :> Block(1, 1)),
             (lim :> Limit(1)) @@ (lim2 :> Limit(2)) @@ (blk :> Block(2, 3)) }
=============================================================================
