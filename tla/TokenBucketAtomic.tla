------------------------- MODULE TokenBucketAtomic -------------------------
(***************************************************************************)
(* What the kernel's rate limiter does to the packets of one source        *)
(* address when they are processed one at a time: each packet is a single  *)
(* step.  The agent sets, changes and removes the rate.  A packet carries  *)
(* the time t at which policy_filter read the clock, which may lie before  *)
(* the current time.                                                       *)
(***************************************************************************)
EXTENDS Bucket

CONSTANTS Rates,             \* tokens per second the agent may configure
          MinRate, MaxRate,  \* bounds of Rates
          MaxTime,           \* bound on the clock
          None               \* no entry in a map

ASSUME RatesAssumption ==
    /\ MinRate \in Nat /\ MaxRate \in Nat /\ MaxTime \in Nat
    /\ Rates \subseteq MinRate .. MaxRate
    /\ 2 * MaxRate < W
    /\ None \notin Rates /\ None \notin [tokens : Nat, last : Nat]

VARIABLES
    now,       \* bpf_ktime_get_ns
    cfg,       \* rate_limit_config_map's entry, or None
    bucket,    \* rate_limit_map's entry, or None
    removing,  \* RemoveRateLimit has deleted the first of the two entries
    verdict    \* what the last packet got

vars == <<now, cfg, bucket, removing, verdict>>

TypeOK ==
    /\ now \in 0 .. MaxTime
    /\ cfg \in Rates \cup {None}
    /\ bucket \in [tokens : 0 .. W - 1, last : 0 .. now] \cup {None}
    /\ removing \in BOOLEAN
    /\ verdict \in {"PASS", "DROP"}

Init ==
    /\ now = 0 /\ cfg = None /\ bucket = None
    /\ removing = FALSE /\ verdict = "PASS"

Tick ==
    /\ now < MaxTime
    /\ now' = now + 1
    /\ UNCHANGED <<cfg, bucket, removing, verdict>>

\* SetRateLimit, which also changes a rate in place.
SetRate(r) ==
    /\ ~removing
    /\ cfg' = r
    /\ UNCHANGED <<now, bucket, removing, verdict>>

\* RemoveRateLimit deletes the configuration, then the bucket.
RemoveConfig ==
    /\ ~removing
    /\ cfg' = None /\ removing' = TRUE
    /\ UNCHANGED <<now, bucket, verdict>>

RemoveBucket ==
    /\ removing
    /\ bucket' = None /\ removing' = FALSE
    /\ UNCHANGED <<now, cfg, verdict>>

\* The bucket and the verdict of a packet that reads rate r at time t.
After(b, r, t) == IF b = None THEN Fresh(r, t) ELSE Spent(Refilled(b, r, t))

Verdict_KeepsLast(b, r, t) ==
    IF b # None /\ Refilled(b, r, t).tokens <= 1 THEN "DROP" ELSE "PASS"

Verdict(b, r, t) ==
    IF b # None /\ Refilled(b, r, t).tokens = 0 THEN "DROP" ELSE "PASS"

\* The packet of an address without a configured rate.
PassUnlimited ==
    /\ cfg = None
    /\ verdict' = "PASS"
    /\ UNCHANGED <<now, cfg, bucket, removing>>

\* check_rate_limit for a packet whose clock reading t is in order.
Packet(t) ==
    /\ cfg # None
    /\ bucket # None => t >= bucket.last
    /\ bucket' = After(bucket, cfg, t)
    /\ verdict' = Verdict(bucket, cfg, t)
    /\ UNCHANGED <<now, cfg, removing>>

Next ==
    \/ Tick
    \/ \E r \in Rates : SetRate(r)
    \/ RemoveConfig \/ RemoveBucket
    \/ PassUnlimited
    \/ \E t \in 0 .. now : Packet(t)

Spec == Init /\ [][Next]_vars
=============================================================================
