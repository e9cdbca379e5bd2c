---------------------------- MODULE TokenBudget ----------------------------
(***************************************************************************)
(* TokenBucketAtomic with history variables that account for the tokens of *)
(* the current bucket: when it was made, how many packets it has let pass  *)
(* and how many tokens its refills have added before the cap at the burst. *)
(***************************************************************************)
EXTENDS TokenBucketAtomic

\* Time spans times rates, and a burst on top of them, fit the register: at
\* 10^6 tokens per second 2^64 allows an address to be idle for five hours.
ASSUME NoWrapAssumption == (MaxTime + 2) * MaxRate < W

VARIABLES since, passed, added

history == <<since, passed, added>>
allVars == <<vars, history>>

HInit == Init /\ since = 0 /\ passed = 0 /\ added = 0

\* A new account is opened with a new bucket.
Open(t) == since' = t /\ passed' = 1 /\ added' = 0

Account(t) ==
    /\ since' = since
    /\ passed' = passed + (IF verdict' = "PASS" THEN 1 ELSE 0)
    /\ added' = added + NewTokens(cfg, t, bucket.last)

HPacket(t) ==
    /\ Packet(t)
    /\ IF bucket = None THEN Open(t) ELSE Account(t)

HTick == Tick /\ UNCHANGED history
HSetRate(r) == SetRate(r) /\ UNCHANGED history
HRemoveConfig == RemoveConfig /\ UNCHANGED history
HRemoveBucket == RemoveBucket /\ since' = 0 /\ passed' = 0 /\ added' = 0
HPassUnlimited == PassUnlimited /\ UNCHANGED history

HNext ==
    \/ HTick
    \/ \E r \in Rates : HSetRate(r)
    \/ HRemoveConfig \/ HRemoveBucket
    \/ HPassUnlimited
    \/ \E t \in 0 .. now : HPacket(t)

HSpec == HInit /\ [][HNext]_allVars

-----------------------------------------------------------------------------
HTypeOK ==
    /\ TypeOK
    /\ since \in Nat /\ passed \in Nat /\ added \in Nat

\* A bucket never holds more than the burst of the largest rate, and the
\* decrement never wraps below zero (policy.c:147-160; README.md:240).
TokensWithinBurst == bucket # None => bucket.tokens <= 2 * MaxRate

\* The packets a bucket has let pass, with the tokens it still holds, are
\* within the burst plus the refill rate times the age of the bucket
\* (policy.c:12-19, 133-160; README.md:239-240).
RateBound ==
    bucket # None =>
        /\ since <= bucket.last
        /\ (passed + bucket.tokens) * UNIT
               <= 2 * MaxRate * UNIT + MaxRate * (bucket.last - since)

\* Each refill drops the fraction of a token it could not add and restarts
\* the clock (policy.c:147-155).  The loss is bounded: the refills have added
\* at least half of what the smallest rate earns over the time accounted for.
HalfRateAtLeast ==
    bucket # None => 2 * added * UNIT >= MinRate * (bucket.last - since)

\* A dropped packet found a bucket that had not earned a token since its last
\* refill: a sender that keeps to the smallest rate, one packet per UNIT /
\* MinRate ticks, is never dropped (policy.c:147-162).
DropOnlyAboveRate ==
    [][\A t \in 0 .. now :
          HPacket(t) /\ verdict' = "DROP" => (t - bucket.last) * MinRate < UNIT]_allVars
=============================================================================
