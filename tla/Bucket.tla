------------------------------- MODULE Bucket -------------------------------
(***************************************************************************)
(* The arithmetic of check_rate_limit (ebpf/policy.c:127-163) on unsigned  *)
(* integers of a fixed width: W is 2^64 in the code, and UNIT, the clock   *)
(* ticks in a second, is 10^9.                                             *)
(***************************************************************************)
EXTENDS Integers

CONSTANTS UNIT, W

ASSUME WidthAssumption == UNIT \in Nat \ {0} /\ W \in Nat \ {0}

Burst(rate) == (2 * rate) % W

\* The bucket made for the packet that finds none, that packet paid for.
Fresh_Unpaid(rate, t) == [tokens |-> Burst(rate), last |-> t]

Fresh(rate, t) == [tokens |-> (Burst(rate) - 1) % W, last |-> t]

\* Tokens earned since last; the subtraction wraps when t is before last.
NewTokens_Signed(rate, t, last) == ((t - last) * rate) \div UNIT

NewTokens(rate, t, last) == ((((t - last) % W) * rate) % W) \div UNIT

\* tokens + new, at most the burst.
Topped_NoCap(tokens, new, rate) == (tokens + new) % W

Capped(tokens, rate) == IF tokens > Burst(rate) THEN Burst(rate) ELSE tokens

Topped(tokens, new, rate) == Capped((tokens + new) % W, rate)

\* The time of the last refill moves only when the refill earned a token.
Refilled_AlwaysStamp(b, rate, t) ==
    [tokens |-> Topped(b.tokens, NewTokens(rate, t, b.last), rate), last |-> t]

Refilled(b, rate, t) ==
    LET new == NewTokens(rate, t, b.last)
    IN  IF new = 0 THEN b
        ELSE [tokens |-> Topped(b.tokens, new, rate), last |-> t]

Spent_Unguarded(b) == [b EXCEPT !.tokens = @ - 1]

Spent(b) == IF b.tokens > 0 THEN [b EXCEPT !.tokens = @ - 1] ELSE b
=============================================================================
