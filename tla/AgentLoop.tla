----------------------------- MODULE AgentLoop -----------------------------
(***************************************************************************)
(* The agent's evaluation loop (internal/agent/agent.go:106-193) and the   *)
(* kernel maps it reads and writes (ebpf/policy.c:258-277,                 *)
(* internal/agent/ebpf/loader.go).                                         *)
(*                                                                         *)
(* Time passes in ticks of a second.  Every POLL ticks the loop takes a    *)
(* snapshot of the packet counters and then treats the addresses of the    *)
(* snapshot one by one, in any order, while packets keep arriving, blocks  *)
(* keep expiring and the rules keep changing.  Store.Match is the relation *)
(* Winners, which RuleStore shows to be what Match returns.  The loop      *)
(* ignores what its calls into the kernel return: each may fail.  The row  *)
(* that each pass hands to the reporter is not part of this module.        *)
(***************************************************************************)
EXTENDS Rules, FiniteSets

CONSTANTS Ips,
          RuleSets,      \* the contents the rule store may have
          Batches,       \* sizes of the batches in which packets arrive
          POLL,          \* seconds between two evaluations: 10
          Evictable,     \* the LRU maps that may evict an entry
          None,          \* no entry in a map
          MaxCount,      \* bound on the packets counted for an address
          MaxFailures,   \* bound on the failing reads of the counters
          MaxErrors,     \* bound on the passes in which a call fails
          MaxEvictions   \* bound on the evictions

ASSUME AgentLoopAssumption ==
    /\ POLL \in Nat \ {0}
    /\ Batches \subseteq Nat \ {0}
    /\ Evictable \subseteq {"count", "config", "block"}
    /\ None \notin Int
    /\ {MaxCount, MaxFailures, MaxErrors, MaxEvictions} \subseteq Nat
    /\ \A rs \in RuleSets : \A i \in DOMAIN rs :
          /\ i # NoRule
          /\ rs[i].threshold \in Nat /\ rs[i].duration \in Nat
          /\ rs[i].action \in {"block", "rate_limit"}

VARIABLES
    count,       \* request_count: packets counted, 0 for no entry
    left,        \* block_list: seconds until the block expires, 0 if none
    cfg,         \* rate_limit_config_map: the rate, or None
    rules,       \* the agent's rule store
    snap,        \* stats: the snapshot of count
    todo,        \* the addresses of the snapshot not yet treated
    prev,        \* prevCounts
    wasBlocked,  \* prevBlocked
    active,      \* activeRateLimits, 0 for no entry
    clock,       \* seconds since the last evaluation was due
    failures, errors, evictions,  \* counters for the bounds
    stale,       \* ghost: addresses whose entry in cfg is not the last one
                 \* written, because the write failed or the entry was evicted
    arrived,     \* ghost: packets that arrived since the last evaluation
    dropped,     \* ghost: those of them that a block dropped
    closed       \* ghost: arrived and dropped at the last evaluation

kernel == <<count, left, cfg>>
agent == <<snap, todo, prev, wasBlocked, active>>
bounds == <<failures, errors, evictions>>
ghosts == <<arrived, dropped, closed>>
vars == <<kernel, rules, agent, clock, bounds, stale, ghosts>>

PerIp(S) == [Ips -> S]

TypeOK ==
    /\ count \in PerIp(Nat) /\ left \in PerIp(Nat)
    /\ cfg \in PerIp(Nat \cup {None})
    /\ rules \in RuleSets
    /\ snap \in PerIp(Nat) /\ todo \subseteq Ips /\ prev \in PerIp(Nat)
    /\ wasBlocked \in PerIp(BOOLEAN) /\ active \in PerIp(Nat)
    /\ clock \in 0 .. POLL
    /\ failures \in 0 .. MaxFailures /\ errors \in 0 .. MaxErrors
    /\ evictions \in 0 .. MaxEvictions /\ stale \subseteq Ips
    /\ arrived \in PerIp(Nat) /\ dropped \in PerIp(Nat)
    /\ closed \in PerIp([arrived : Nat, dropped : Nat])

Init ==
    /\ count = [ip \in Ips |-> 0] /\ left = [ip \in Ips |-> 0]
    /\ cfg = [ip \in Ips |-> None]
    /\ rules \in RuleSets
    /\ snap = [ip \in Ips |-> 0] /\ todo = {} /\ prev = [ip \in Ips |-> 0]
    /\ wasBlocked = [ip \in Ips |-> FALSE] /\ active = [ip \in Ips |-> 0]
    /\ clock = 0 /\ failures = 0 /\ errors = 0 /\ evictions = 0 /\ stale = {}
    /\ arrived = [ip \in Ips |-> 0] /\ dropped = [ip \in Ips |-> 0]
    /\ closed = [ip \in Ips |-> [arrived |-> 0, dropped |-> 0]]

-----------------------------------------------------------------------------
\* n packets of ip reach policy_filter: those of a blocked address are
\* dropped before they are counted.
Packets(ip, n) ==
    /\ arrived[ip] + n <= MaxCount /\ count[ip] + n <= MaxCount
    /\ arrived' = [arrived EXCEPT ![ip] = @ + n]
    /\ IF left[ip] > 0
       THEN /\ dropped' = [dropped EXCEPT ![ip] = @ + n]
            /\ UNCHANGED count
       ELSE /\ count' = [count EXCEPT ![ip] = @ + n]
            /\ UNCHANGED dropped
    /\ UNCHANGED <<left, cfg, rules, agent, clock, bounds, stale, closed>>

\* A second passes; blocks run out by themselves.
Tick_NoExpiry ==
    /\ clock < POLL
    /\ clock' = clock + 1
    /\ left' = [ip \in Ips |-> left[ip] - 1]
    /\ UNCHANGED <<count, cfg, rules, agent, bounds, stale, ghosts>>

Tick ==
    /\ clock < POLL
    /\ clock' = clock + 1
    /\ left' = [ip \in Ips |-> IF left[ip] > 0 THEN left[ip] - 1 ELSE 0]
    /\ UNCHANGED <<count, cfg, rules, agent, bounds, stale, ghosts>>

\* The listener or watchServer changes the store.
ChangeRules(rs) ==
    /\ rs # rules
    /\ rules' = rs
    /\ UNCHANGED <<kernel, agent, clock, bounds, stale, ghosts>>

\* A full LRU map gives up an entry to make room for other addresses.
Evict(map, ip) ==
    /\ map \in Evictable /\ evictions < MaxEvictions
    /\ evictions' = evictions + 1
    /\ \/ map = "count"  /\ count' = [count EXCEPT ![ip] = 0] /\ UNCHANGED <<left, cfg>>
       \/ map = "config" /\ cfg' = [cfg EXCEPT ![ip] = None] /\ UNCHANGED <<count, left>>
       \/ map = "block"  /\ left' = [left EXCEPT ![ip] = 0] /\ UNCHANGED <<count, cfg>>
    /\ stale' = IF map = "config" THEN stale \cup {ip} ELSE stale
    /\ UNCHANGED <<rules, agent, clock, failures, errors, ghosts>>

-----------------------------------------------------------------------------
\* A window ends, whether its counters could be read or not.
CloseWindow ==
    /\ clock = POLL /\ todo = {}
    /\ clock' = 0
    /\ closed' = [ip \in Ips |-> [arrived |-> arrived[ip], dropped |-> dropped[ip]]]
    /\ arrived' = [ip \in Ips |-> 0] /\ dropped' = [ip \in Ips |-> 0]

\* GetAllStats succeeds.
Poll ==
    /\ CloseWindow
    /\ snap' = count
    /\ todo' = {ip \in Ips : count[ip] > 0}
    /\ UNCHANGED <<kernel, rules, prev, wasBlocked, active, bounds, stale>>

\* GetAllStats fails and the evaluation is skipped.
PollFails ==
    /\ CloseWindow
    /\ failures < MaxFailures
    /\ failures' = failures + 1
    /\ UNCHANGED <<kernel, rules, agent, errors, evictions, stale>>

\* int(diff) / 10, which rounds towards zero; the difference of the unsigned
\* counters becomes negative in the conversion when a counter was reset.
ReqPerSec(now, before) ==
    LET diff == now - before
    IN  IF diff >= 0 THEN diff \div POLL ELSE -((-diff) \div POLL)

\* Each call ends with or without effect (ok); the agent's own record is the
\* same either way.
BlockIP(ip, rule, ok) ==
    /\ left' = IF ok THEN [left EXCEPT ![ip] = rule.duration] ELSE left
    /\ UNCHANGED <<cfg, active, stale>>

\* Put or delete the entry of ip in cfg.
WriteLimit(ip, entry, ok) ==
    /\ cfg' = IF ok THEN [cfg EXCEPT ![ip] = entry] ELSE cfg
    /\ stale' = IF ok THEN stale \ {ip} ELSE stale \cup {ip}
    /\ UNCHANGED left

SetRateLimit(ip, rate, ok) ==
    /\ WriteLimit(ip, rate, ok)
    /\ active' = [active EXCEPT ![ip] = rate]

RemoveRateLimit_KeepEntry(ip, ok) ==
    /\ WriteLimit(ip, None, ok)
    /\ UNCHANGED active

RemoveRateLimit(ip, ok) ==
    /\ WriteLimit(ip, None, ok)
    /\ active' = [active EXCEPT ![ip] = 0]

LeaveAlone(ok) == ok /\ UNCHANGED <<left, cfg, active, stale>>

\* What the loop does with the rule w that Match returned for ip.
\* The three branches on a block rule (still blocked, block just expired,
\* new) all call BlockIP; without one, a blocked or just expired address is
\* left alone.
Enforce_SkipExpired(ip, w, blocked, ok) ==
    IF w # NoRule /\ rules[w].action = "block" /\ ~wasBlocked[ip]
    THEN BlockIP(ip, rules[w], ok)
    ELSE LeaveAlone(ok)

Enforce(ip, w, blocked, ok) ==
    IF w # NoRule /\ rules[w].action = "block"
    THEN BlockIP(ip, rules[w], ok)
    ELSE IF blocked \/ wasBlocked[ip]
    THEN LeaveAlone(ok)
    ELSE IF w # NoRule /\ active[ip] # rules[w].threshold
    THEN SetRateLimit(ip, rules[w].threshold, ok)
    ELSE IF w = NoRule /\ active[ip] # 0
    THEN RemoveRateLimit(ip, ok)
    ELSE LeaveAlone(ok)

\* The count that the next window is compared with.
Advance_SkipBlocked(ip) ==
    prev' = IF left[ip] > 0 THEN prev ELSE [prev EXCEPT ![ip] = snap[ip]]

Advance_LiveCount(ip) == prev' = [prev EXCEPT ![ip] = count[ip]]

Advance(ip) == prev' = [prev EXCEPT ![ip] = snap[ip]]

Remember_StaysBlocked(ip, blocked) ==
    wasBlocked' = [wasBlocked EXCEPT ![ip] = @ \/ blocked]

Remember(ip, blocked) == wasBlocked' = [wasBlocked EXCEPT ![ip] = blocked]

\* The body of the loop for one address of the snapshot.  IsBlocked answers
\* FALSE when it fails.
Process(ip) ==
    /\ ip \in todo
    /\ todo' = todo \ {ip}
    /\ Advance(ip)
    /\ \E blocked \in {left[ip] > 0, FALSE}, ok \in BOOLEAN,
          w \in Winners(rules, ReqPerSec(snap[ip], prev[ip])) :
          /\ Remember(ip, blocked)
          /\ Enforce(ip, w, blocked, ok)
          /\ errors' = IF ok /\ blocked = (left[ip] > 0) THEN errors ELSE errors + 1
    /\ errors' <= MaxErrors
    /\ UNCHANGED <<count, rules, snap, clock, failures, evictions, ghosts>>

Next ==
    \/ \E ip \in Ips, n \in Batches : Packets(ip, n)
    \/ Tick
    \/ \E rs \in RuleSets : ChangeRules(rs)
    \/ \E map \in Evictable, ip \in Ips : Evict(map, ip)
    \/ Poll \/ PollFails
    \/ \E ip \in Ips : Process(ip)

Spec == Init /\ [][Next]_vars

\* The ticker keeps ticking and the loop treats every address of a snapshot.
Fairness == WF_vars(Tick) /\ WF_vars(Poll) /\ \A ip \in Ips : WF_vars(Process(ip))

FairSpec == Spec /\ Fairness

-----------------------------------------------------------------------------
\* What the sender really did in the window the last evaluation closed: the
\* rate at which it sent, and the rate of what was not dropped by a block.
SentRate(ip) == closed[ip].arrived \div POLL
CountedRate(ip) == (closed[ip].arrived - closed[ip].dropped) \div POLL

ExceedsBlock(i, rate) == rules[i].action = "block" /\ rate > rules[i].threshold

\* No false positive: a block is started or prolonged only for an address
\* that really sent, in the window just closed, faster than the threshold of
\* a block rule in force (agent.go:133-163), even when counters are evicted
\* and start again from zero, as long as no read of the counters failed.
BlockJustified ==
    [][\A ip \in Ips :
          failures = 0 /\ left'[ip] > left[ip] =>
              \E i \in DOMAIN rules : ExceedsBlock(i, SentRate(ip))]_vars

\* No false negative: an address that exceeded the threshold of a block rule
\* throughout a window in which no packet of it was dropped is blocked when
\* the loop gets to it, unless that very call fails, for the duration of a
\* block rule it exceeded: by its rate in this window, or since the last window
\* that could be read (agent.go:133-163).
BlockPrompt ==
    [][\A ip \in Ips :
          /\ Process(ip) /\ errors' = errors /\ evictions = 0 /\ closed[ip].dropped = 0
          /\ \E i \in DOMAIN rules : ExceedsBlock(i, SentRate(ip))
          => \E i \in DOMAIN rules :
                /\ left'[ip] = rules[i].duration
                /\ ExceedsBlock(i, ReqPerSec(snap[ip], prev[ip]))
                /\ failures = 0 => ExceedsBlock(i, SentRate(ip))]_vars

\* A rate limit is lifted only when what the address sent past the blocks
\* exceeds no rule (agent.go:164-174, README.md:216).
UnlimitJustified ==
    [][\A ip \in Ips :
          /\ evictions' = 0 /\ cfg[ip] # None /\ cfg'[ip] = None
          => \A i \in DOMAIN rules : CountedRate(ip) <= rules[i].threshold]_vars

\* The rate limits the kernel enforces are those the agent believes it has
\* set, through blocks, changing rules and failing calls, except for an address
\* whose last write failed or was evicted: the agent does not write the same
\* rate again, but its next change puts that right (agent.go:164-174).  No rule
\* may have threshold 0.
LimitsAgree ==
    \A ip \in Ips \ stale : cfg[ip] = IF active[ip] = 0 THEN None ELSE active[ip]

Quiet(ip) == arrived[ip] = 0 /\ closed[ip].arrived = 0

\* "existing rate limits are removed" when no threshold is exceeded
\* (README.md:216): the limit of an address that goes quiet for good is
\* removed for good, also when its counter was evicted and has started again,
\* provided the address still has a counter, the writes of its limit did not
\* fail and no rule has threshold 0.
LimitRemoved ==
    \A ip \in Ips : <>[](Quiet(ip) /\ count[ip] > 0 /\ ip \notin stale) => <>[](cfg[ip] = None)
=============================================================================
