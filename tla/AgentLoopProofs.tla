-------------------------- MODULE AgentLoopProofs --------------------------
(***************************************************************************)
(* Theorems about AgentLoop, for every set of addresses, rules, batches    *)
(* and bounds.                                                             *)
(***************************************************************************)
EXTENDS AgentLoop, TLAPS

\* Match returns nothing or a rule of the store.
LEMMA WinnerType ==
    ASSUME NEW rs \in RuleSets, NEW q \in Int, NEW w \in Winners(rs, q)
    PROVE  /\ w = NoRule \/ w \in DOMAIN rs
           /\ w # NoRule =>
                 /\ rs[w].threshold \in Nat /\ rs[w].duration \in Nat
                 /\ rs[w].action \in {"block", "rate_limit"}
                 /\ q > rs[w].threshold
BY AgentLoopAssumption DEF Winners, Exceeded

\* The rate the loop computes is an integer, possibly negative.
LEMMA RateType ==
    ASSUME NEW a \in Nat, NEW b \in Nat
    PROVE  ReqPerSec(a, b) \in Int
BY AgentLoopAssumption DEF ReqPerSec

\* One pass of the loop: the answers the kernel gave and the rule it applied.
LEMMA ProcessCall ==
    ASSUME NEW ip, Process(ip)
    PROVE  \E blocked \in BOOLEAN, ok \in BOOLEAN,
              w \in Winners(rules, ReqPerSec(snap[ip], prev[ip])) :
              /\ Remember(ip, blocked) /\ Enforce(ip, w, blocked, ok)
              /\ errors' \in {errors, errors + 1}
<1>1. PICK blocked \in {left[ip] > 0, FALSE}, ok \in BOOLEAN,
           w \in Winners(rules, ReqPerSec(snap[ip], prev[ip])) :
         /\ Remember(ip, blocked) /\ Enforce(ip, w, blocked, ok)
         /\ errors' = IF ok /\ blocked = (left[ip] > 0) THEN errors ELSE errors + 1
  BY Zenon DEF Process
<1>2. blocked \in BOOLEAN
  <2>1. (left[ip] > 0) \in BOOLEAN
    OBVIOUS
  <2> QED
    BY <2>1, Zenon
<1>3. errors' \in {errors, errors + 1}
  BY <1>1
<1> QED
  BY <1>1, <1>2, <1>3, Zenon

\* What the loop may do with a rule: block, write the limit, remove it, or
\* nothing.
LEMMA EnforceCases ==
    ASSUME NEW ip, NEW w, NEW blocked \in BOOLEAN, NEW ok \in BOOLEAN,
           Enforce(ip, w, blocked, ok)
    PROVE  \/ w # NoRule /\ rules[w].action = "block" /\ BlockIP(ip, rules[w], ok)
           \/ /\ w # NoRule /\ rules[w].action # "block"
              /\ SetRateLimit(ip, rules[w].threshold, ok)
           \/ w = NoRule /\ RemoveRateLimit(ip, ok)
           \/ UNCHANGED <<left, cfg, active, stale>>
BY Zenon DEF Enforce, LeaveAlone

\* The maps and the bookkeeping of the loop keep their types: counters and
\* remaining times stay natural numbers (agent.go:106-193).
THEOREM TypeCorrect == Spec => []TypeOK
<1>1. Init => TypeOK
  BY AgentLoopAssumption DEF Init, TypeOK, PerIp
<1>2. TypeOK /\ [Next]_vars => TypeOK'
  <2> SUFFICES ASSUME TypeOK, [Next]_vars PROVE TypeOK'
    OBVIOUS
  <2> USE DEF TypeOK, PerIp, kernel, agent, bounds, ghosts
  <2>1. ASSUME NEW ip \in Ips, NEW n \in Batches, Packets(ip, n) PROVE TypeOK'
    <3>1. n \in Nat
      BY AgentLoopAssumption
    <3>2. arrived' \in [Ips -> Nat]
      BY <2>1, <3>1 DEF Packets
    <3>3. dropped' \in [Ips -> Nat] /\ count' \in [Ips -> Nat]
      <4>1. CASE left[ip] > 0
        BY <2>1, <3>1, <4>1 DEF Packets
      <4>2. CASE ~(left[ip] > 0)
        <5>1. dropped' = dropped /\ count' = [count EXCEPT ![ip] = count[ip] + n]
          BY <2>1, <4>2 DEF Packets
        <5> QED
          BY <3>1, <5>1
      <4> QED
        BY <4>1, <4>2
    <3> QED
      BY <2>1, <3>2, <3>3 DEF Packets
  <2>2. CASE Tick
    BY <2>2, AgentLoopAssumption DEF Tick
  <2>3. ASSUME NEW rs \in RuleSets, ChangeRules(rs) PROVE TypeOK'
    BY <2>3 DEF ChangeRules
  <2>4. ASSUME NEW map \in Evictable, NEW ip \in Ips, Evict(map, ip) PROVE TypeOK'
    <3>1. stale' \subseteq Ips
      BY <2>4 DEF Evict
    <3>2. count' \in [Ips -> Nat] /\ left' \in [Ips -> Nat] /\ cfg' \in [Ips -> Nat \cup {None}]
      BY <2>4 DEF Evict
    <3>3. evictions' \in 0 .. MaxEvictions
      BY <2>4, AgentLoopAssumption DEF Evict
    <3> QED
      BY <2>4, <3>1, <3>2, <3>3 DEF Evict
  <2>5. CASE Poll
    BY <2>5, AgentLoopAssumption DEF Poll, CloseWindow
  <2>6. CASE PollFails
    BY <2>6, AgentLoopAssumption DEF PollFails, CloseWindow
  <2>7. ASSUME NEW ip \in Ips, Process(ip) PROVE TypeOK'
    <3>1. PICK blocked \in BOOLEAN, ok \in BOOLEAN,
               w \in Winners(rules, ReqPerSec(snap[ip], prev[ip])) :
             Remember(ip, blocked) /\ Enforce(ip, w, blocked, ok) /\ errors' \in {errors, errors + 1}
      BY <2>7, ProcessCall
    <3>2. ReqPerSec(snap[ip], prev[ip]) \in Int
      BY RateType
    <3>3. w # NoRule => rules[w].threshold \in Nat /\ rules[w].duration \in Nat
      BY <3>2, WinnerType
    <3>4. /\ left' \in [Ips -> Nat] /\ cfg' \in [Ips -> Nat \cup {None}]
          /\ active' \in [Ips -> Nat] /\ stale' \subseteq Ips
      <4>1. CASE w # NoRule /\ BlockIP(ip, rules[w], ok)
        BY <3>3, <4>1 DEF BlockIP
      <4>2. CASE w # NoRule /\ SetRateLimit(ip, rules[w].threshold, ok)
        BY <3>3, <4>2 DEF SetRateLimit, WriteLimit
      <4>3. CASE RemoveRateLimit(ip, ok)
        BY <4>3 DEF RemoveRateLimit, WriteLimit
      <4>4. CASE UNCHANGED <<left, cfg, active, stale>>
        BY <4>4
      <4> QED
        BY <3>1, <4>1, <4>2, <4>3, <4>4, EnforceCases
    <3>7. wasBlocked' \in [Ips -> BOOLEAN]
      <4> HIDE DEF kernel, agent, bounds, ghosts
      <4> QED
        BY <3>1, Zenon DEF Remember
    <3>8. prev' \in [Ips -> Nat] /\ todo' \subseteq Ips
      BY <2>7 DEF Process, Advance
    <3>9. errors' \in 0 .. MaxErrors
      BY <2>7, <3>1, AgentLoopAssumption DEF Process
    <3> QED
      BY <2>7, <3>4, <3>7, <3>8, <3>9 DEF Process
  <2>8. CASE UNCHANGED vars
    BY <2>8 DEF vars
  <2> QED
    BY <2>1, <2>2, <2>3, <2>4, <2>5, <2>6, <2>7, <2>8 DEF Next
<1> QED
  BY <1>1, <1>2, PTL DEF Spec

-----------------------------------------------------------------------------
PositiveLimits ==
    \A rs \in RuleSets : \A i \in DOMAIN rs :
        rs[i].action = "rate_limit" => rs[i].threshold # 0

\* The kernel limits exactly the addresses, and to the rates, that the agent
\* has recorded (agent.go:164-174), if no rate_limit rule has threshold 0, but
\* for an address whose last write failed or was evicted.
THEOREM LimitsAgreeAlways == ASSUME PositiveLimits PROVE Spec => []LimitsAgree
<1>1. Init => LimitsAgree
  BY DEF Init, LimitsAgree
<1>2. TypeOK /\ LimitsAgree /\ [Next]_vars => LimitsAgree'
  <2> SUFFICES ASSUME TypeOK, LimitsAgree, [Next]_vars PROVE LimitsAgree'
    OBVIOUS
  <2>0. cfg \in [Ips -> Nat \cup {None}] /\ active \in [Ips -> Nat] /\ rules \in RuleSets
    BY DEF TypeOK, PerIp
  <2>1. ASSUME NEW ip \in Ips, Process(ip) PROVE LimitsAgree'
    <3>1. PICK blocked \in BOOLEAN, ok \in BOOLEAN,
               w \in Winners(rules, ReqPerSec(snap[ip], prev[ip])) : Enforce(ip, w, blocked, ok)
      BY <2>1, ProcessCall
    <3>2. ReqPerSec(snap[ip], prev[ip]) \in Int
      BY RateType DEF TypeOK, PerIp
    <3>3. w # NoRule /\ rules[w].action # "block" =>
             rules[w].threshold # 0 /\ rules[w].threshold \in Nat
      BY <2>0, <3>2, WinnerType, PositiveLimits DEF PositiveLimits
    <3>4. CASE UNCHANGED <<cfg, active, stale>>
      BY <3>4 DEF LimitsAgree
    <3>5. CASE /\ SetRateLimit(ip, rules[w].threshold, ok)
               /\ w # NoRule /\ rules[w].action # "block"
      <4>1. CASE ok
        BY <2>0, <3>3, <3>5, <4>1 DEF SetRateLimit, WriteLimit, LimitsAgree
      <4>2. CASE ~ok
        BY <2>0, <3>5, <4>2 DEF SetRateLimit, WriteLimit, LimitsAgree
      <4> QED
        BY <4>1, <4>2
    <3>6. CASE RemoveRateLimit(ip, ok)
      <4>1. CASE ok
        BY <2>0, <3>6, <4>1 DEF RemoveRateLimit, WriteLimit, LimitsAgree
      <4>2. CASE ~ok
        BY <2>0, <3>6, <4>2 DEF RemoveRateLimit, WriteLimit, LimitsAgree
      <4> QED
        BY <4>1, <4>2
    <3> QED
      BY <3>1, <3>4, <3>5, <3>6, EnforceCases DEF BlockIP
  <2>2. ASSUME NEW map \in Evictable, NEW ip \in Ips, Evict(map, ip) PROVE LimitsAgree'
    <3>1. active' = active
      BY <2>2 DEF Evict, agent
    <3>2. CASE map = "config"
      BY <2>0, <2>2, <3>1, <3>2 DEF Evict, LimitsAgree
    <3>3. CASE map # "config"
      BY <2>2, <3>1, <3>3 DEF Evict, LimitsAgree
    <3> QED
      BY <3>2, <3>3
  <2>3. CASE UNCHANGED <<cfg, active, stale>>
    BY <2>3 DEF LimitsAgree
  <2> QED
    BY <2>1, <2>2, <2>3 DEF Next, Packets, Tick, ChangeRules, Poll, PollFails,
       CloseWindow, vars, kernel, agent
<1> QED
  BY <1>1, <1>2, TypeCorrect, PTL DEF Spec

-----------------------------------------------------------------------------
\* The counters never run ahead of the traffic.  BlockJustified is about one
\* step and holds because of this: while no read has failed, what a counter
\* has gained since the snapshot arrived in the open window, and what the
\* snapshot has gained since prev arrived in the window it closed.  A counter
\* that was evicted only falls behind.
CountsArrived ==
    failures = 0 =>
        \A ip \in Ips :
            /\ ip \in todo => /\ snap[ip] - prev[ip] <= closed[ip].arrived
                            /\ count[ip] - snap[ip] <= arrived[ip]
            /\ ip \notin todo => count[ip] - prev[ip] <= arrived[ip]

\* CountsArrived holds throughout (agent.go:106-137): a counter starts at zero,
\* grows with packets that are counted as arrived too, and is copied to prev.
THEOREM CountsArrivedAlways == Spec => []CountsArrived
<1>1. Init => CountsArrived
  BY DEF Init, CountsArrived
<1>2. TypeOK /\ CountsArrived /\ [Next]_vars => CountsArrived'
  <2> SUFFICES ASSUME TypeOK, CountsArrived, [Next]_vars PROVE CountsArrived'
    OBVIOUS
  <2>0. /\ \A j \in Ips : /\ count[j] \in Nat /\ snap[j] \in Nat /\ prev[j] \in Nat
                         /\ arrived[j] \in Nat /\ closed[j].arrived \in Nat
        /\ failures \in Nat
    BY AgentLoopAssumption DEF TypeOK, PerIp
  <2>1. ASSUME NEW ip \in Ips, NEW n \in Batches, Packets(ip, n) PROVE CountsArrived'
    <3>1. n \in Nat
      BY AgentLoopAssumption
    <3>2. /\ failures' = failures /\ todo' = todo /\ snap' = snap /\ prev' = prev /\ closed' = closed
          /\ \A j \in Ips : \/ arrived'[j] = arrived[j] /\ count'[j] = count[j]
                            \/ arrived'[j] = arrived[j] + n /\ count'[j] \in {count[j], count[j] + n}
      BY <2>1 DEF Packets, agent, bounds, TypeOK, PerIp
    <3> QED
      BY <2>0, <3>1, <3>2 DEF CountsArrived
  <2>2. ASSUME NEW map \in Evictable, NEW ip \in Ips, Evict(map, ip) PROVE CountsArrived'
    <3>1. /\ failures' = failures /\ todo' = todo /\ snap' = snap /\ prev' = prev
          /\ closed' = closed /\ arrived' = arrived
          /\ \A j \in Ips : count'[j] \in {0, count[j]}
      BY <2>2 DEF Evict, agent, bounds, ghosts, TypeOK, PerIp
    <3> QED
      BY <2>0, <3>1 DEF CountsArrived
  <2>3. CASE Poll
    <3>1. /\ failures' = failures /\ snap' = count /\ prev' = prev /\ count' = count /\ todo = {}
          /\ \A j \in Ips : closed'[j].arrived = arrived[j] /\ arrived'[j] = 0
          /\ \A j \in Ips : j \notin todo' => count[j] = 0
      BY <2>0, <2>3 DEF Poll, CloseWindow, kernel, bounds
    <3> QED
      BY <2>0, <3>1 DEF CountsArrived
  <2>4. CASE PollFails
    <3>1. failures' # 0
      BY <2>0, <2>4 DEF PollFails
    <3> QED
      BY <3>1 DEF CountsArrived
  <2>5. ASSUME NEW ip \in Ips, Process(ip) PROVE CountsArrived'
    <3>1. /\ failures' = failures /\ snap' = snap /\ count' = count
          /\ closed' = closed /\ arrived' = arrived
          /\ ip \in todo /\ todo' = todo \ {ip}
          /\ \A j \in Ips : prev'[j] = IF j = ip THEN snap[j] ELSE prev[j]
      BY <2>5 DEF Process, Advance, ghosts, TypeOK, PerIp
    <3> QED
      BY <2>0, <3>1 DEF CountsArrived
  <2>6. CASE UNCHANGED <<failures, todo, snap, prev, count, closed, arrived>>
    BY <2>6 DEF CountsArrived
  <2> QED
    BY <2>1, <2>2, <2>3, <2>4, <2>5, <2>6 DEF Next, Tick, ChangeRules, vars,
       kernel, agent, bounds, ghosts
<1> QED
  BY <1>1, <1>2, TypeCorrect, PTL DEF Spec

\* Dividing a smaller number of packets by the period gives a smaller rate.
LEMMA DivMonotone ==
    ASSUME NEW a \in Nat, NEW b \in Nat, NEW p \in Nat \ {0}, a <= b
    PROVE  a \div p <= b \div p
<1> DEFINE x == a \div p
           y == b \div p
<1>1. x \in Nat /\ y \in Nat /\ x * p <= a /\ b < y * p + p
  OBVIOUS
<1> HIDE DEF x, y
<1>2. ASSUME x > y PROVE FALSE
  <2>1. (y + 1) * p <= x * p
    BY <1>1, <1>2
  <2>2. (y + 1) * p = y * p + p
    BY <1>1
  <2>3. x * p \in Nat /\ y * p \in Nat
    BY <1>1
  <2> QED
    BY <1>1, <2>1, <2>2, <2>3
<1> QED
  BY <1>1, <1>2 DEF x, y

\* A counter that gained at most sent packets yields a rate of at most sent / POLL.
LEMMA RateMonotone ==
    ASSUME NEW now \in Nat, NEW before \in Nat, NEW sent \in Nat, now - before <= sent
    PROVE  ReqPerSec(now, before) <= sent \div POLL
<1>1. sent \div POLL \in Nat
  BY AgentLoopAssumption
<1>2. CASE now - before >= 0
  BY <1>2, DivMonotone, AgentLoopAssumption DEF ReqPerSec
<1>3. CASE ~(now - before >= 0)
  <2>1. (-(now - before)) \div POLL \in Nat
    <3>1. -(now - before) \in Nat
      BY <1>3
    <3> QED
      BY <3>1, AgentLoopAssumption
  <2>2. ReqPerSec(now, before) = -((-(now - before)) \div POLL)
    BY <1>3 DEF ReqPerSec
  <2> QED
    BY <1>1, <2>1, <2>2
<1> QED
  BY <1>2, <1>3

\* No address is blocked that did not exceed the threshold of a block rule in
\* the last window (agent.go:133-163), as long as every read succeeded.
THEOREM OnlyJustifiedBlocks == Spec => BlockJustified
<1> DEFINE Step == \A ip \in Ips :
                      failures = 0 /\ left'[ip] > left[ip] =>
                          \E i \in DOMAIN rules : ExceedsBlock(i, SentRate(ip))
<1>1. TypeOK /\ CountsArrived /\ [Next]_vars => [Step]_vars
  <2> SUFFICES ASSUME TypeOK, CountsArrived, Next,
                      NEW j \in Ips, failures = 0, left'[j] > left[j]
               PROVE  \E i \in DOMAIN rules : ExceedsBlock(i, SentRate(j))
    OBVIOUS
  <2>0. left \in [Ips -> Nat]
    BY DEF TypeOK, PerIp
  <2>1. ASSUME NEW ip \in Ips, Process(ip)
        PROVE  \E i \in DOMAIN rules : ExceedsBlock(i, SentRate(j))
    <3>1. PICK blocked \in BOOLEAN, ok \in BOOLEAN,
               w \in Winners(rules, ReqPerSec(snap[ip], prev[ip])) : Enforce(ip, w, blocked, ok)
      BY <2>1, ProcessCall
    <3>2. w # NoRule /\ rules[w].action = "block" /\ ip = j
      <4>1. CASE w # NoRule /\ rules[w].action = "block" /\ BlockIP(ip, rules[w], ok)
        <5>1. left' # left
          BY <2>0
        <5>2. left' = [left EXCEPT ![ip] = rules[w].duration]
          BY <4>1, <5>1 DEF BlockIP
        <5>3. ip = j
          BY <2>0, <5>2
        <5> QED
          BY <4>1, <5>3
      <4>2. ASSUME left' = left PROVE FALSE
        BY <2>0, <4>2
      <4> QED
        BY <3>1, <4>1, <4>2, EnforceCases DEF SetRateLimit, RemoveRateLimit, WriteLimit
    <3>3. /\ snap[j] \in Nat /\ prev[j] \in Nat /\ closed[j].arrived \in Nat /\ rules \in RuleSets
          /\ snap[j] - prev[j] <= closed[j].arrived
      BY <2>1, <3>2 DEF Process, CountsArrived, TypeOK, PerIp
    <3>4. /\ ReqPerSec(snap[j], prev[j]) \in Int
          /\ ReqPerSec(snap[j], prev[j]) <= SentRate(j) /\ SentRate(j) \in Int
      BY <3>3, RateType, RateMonotone, AgentLoopAssumption DEF SentRate
    <3>5. /\ w \in DOMAIN rules /\ rules[w].threshold \in Nat
          /\ ReqPerSec(snap[j], prev[j]) > rules[w].threshold
      BY <3>1, <3>2, <3>3, <3>4, WinnerType
    <3> QED
      BY <3>2, <3>4, <3>5 DEF ExceedsBlock
  <2>2. CASE Tick
    BY <2>0, <2>2 DEF Tick
  <2>3. ASSUME NEW map \in Evictable, NEW ip \in Ips, Evict(map, ip) PROVE FALSE
    BY <2>0, <2>3 DEF Evict
  <2>4. CASE left' = left
    BY <2>0, <2>4
  <2> QED
    BY <2>1, <2>2, <2>3, <2>4 DEF Next, Packets, ChangeRules, Poll, PollFails, kernel
<1> QED
  BY <1>1, TypeCorrect, CountsArrivedAlways, PTL DEF Spec, BlockJustified

-----------------------------------------------------------------------------
\* The counters never fall behind the traffic that no block dropped: what a
\* counter has gained since the snapshot includes what arrived in the open
\* window, what the snapshot has gained since prev what arrived in the window it
\* closed.  A window whose counters could not be read adds to the next one; only
\* an eviction loses packets.
CountsKept ==
    /\ \A ip \in Ips : dropped[ip] <= arrived[ip] /\ closed[ip].dropped <= closed[ip].arrived
    /\ evictions = 0 =>
          \A ip \in Ips :
              /\ ip \in todo => /\ snap[ip] - prev[ip] >= closed[ip].arrived - closed[ip].dropped
                                /\ count[ip] - snap[ip] >= arrived[ip] - dropped[ip]
              /\ ip \notin todo => count[ip] - prev[ip] >= arrived[ip] - dropped[ip]

\* CountsKept holds throughout (agent.go:106-137): until an entry is evicted, no
\* packet that was counted is missing from the rates the loop computes.
THEOREM CountsKeptAlways == Spec => []CountsKept
<1>1. Init => CountsKept
  BY DEF Init, CountsKept
<1>2. TypeOK /\ CountsKept /\ [Next]_vars => CountsKept'
  <2> SUFFICES ASSUME TypeOK, CountsKept, [Next]_vars PROVE CountsKept'
    OBVIOUS
  <2>0. /\ \A j \in Ips : /\ count[j] \in Nat /\ snap[j] \in Nat /\ prev[j] \in Nat
                         /\ arrived[j] \in Nat /\ closed[j].arrived \in Nat
                         /\ dropped[j] \in Nat /\ closed[j].dropped \in Nat
        /\ evictions \in Nat
    BY AgentLoopAssumption DEF TypeOK, PerIp
  <2>1. ASSUME NEW ip \in Ips, NEW n \in Batches, Packets(ip, n) PROVE CountsKept'
    <3>1. n \in Nat
      BY AgentLoopAssumption
    <3>2. /\ evictions' = evictions /\ todo' = todo /\ snap' = snap /\ prev' = prev /\ closed' = closed
          /\ \A j \in Ips :
                \/ arrived'[j] = arrived[j] /\ dropped'[j] = dropped[j] /\ count'[j] = count[j]
                \/ arrived'[j] = arrived[j] + n /\ dropped'[j] = dropped[j] + n /\ count'[j] = count[j]
                \/ arrived'[j] = arrived[j] + n /\ dropped'[j] = dropped[j] /\ count'[j] = count[j] + n
      BY <2>1 DEF Packets, agent, bounds, TypeOK, PerIp
    <3> QED
      BY <2>0, <3>1, <3>2 DEF CountsKept
  <2>2. ASSUME NEW map \in Evictable, NEW ip \in Ips, Evict(map, ip) PROVE CountsKept'
    <3>1. evictions' # 0 /\ UNCHANGED ghosts
      BY <2>0, <2>2 DEF Evict
    <3> QED
      BY <3>1 DEF CountsKept, ghosts
  <2>3. CASE Poll
    <3>1. /\ evictions' = evictions /\ snap' = count /\ prev' = prev /\ count' = count /\ todo = {}
          /\ \A j \in Ips : /\ closed'[j].arrived = arrived[j] /\ closed'[j].dropped = dropped[j]
                           /\ arrived'[j] = 0 /\ dropped'[j] = 0
      BY <2>3 DEF Poll, CloseWindow, kernel, bounds
    <3> QED
      BY <2>0, <3>1 DEF CountsKept
  <2>4. CASE PollFails
    <3>1. /\ evictions' = evictions /\ snap' = snap /\ prev' = prev /\ count' = count
          /\ todo = {} /\ todo' = {}
          /\ \A j \in Ips : /\ closed'[j].arrived = arrived[j] /\ closed'[j].dropped = dropped[j]
                           /\ arrived'[j] = 0 /\ dropped'[j] = 0
      BY <2>4 DEF PollFails, CloseWindow, kernel, agent
    <3> QED
      BY <2>0, <3>1 DEF CountsKept
  <2>5. ASSUME NEW ip \in Ips, Process(ip) PROVE CountsKept'
    <3>1. /\ evictions' = evictions /\ snap' = snap /\ count' = count
          /\ closed' = closed /\ arrived' = arrived /\ dropped' = dropped
          /\ ip \in todo /\ todo' = todo \ {ip}
          /\ \A j \in Ips : prev'[j] = IF j = ip THEN snap[j] ELSE prev[j]
      BY <2>5 DEF Process, Advance, ghosts, TypeOK, PerIp
    <3> QED
      BY <2>0, <3>1 DEF CountsKept
  <2>6. CASE UNCHANGED <<evictions, todo, snap, prev, count, closed, arrived, dropped>>
    BY <2>6 DEF CountsKept
  <2> QED
    BY <2>1, <2>2, <2>3, <2>4, <2>5, <2>6 DEF Next, Tick, ChangeRules, vars,
       kernel, agent, bounds, ghosts
<1> QED
  BY <1>1, <1>2, TypeCorrect, PTL DEF Spec

\* While no entry was evicted, the rate the loop computes is at least that of
\* the packets counted in the window just closed.
LEMMA RateKept ==
    ASSUME TypeOK, CountsKept, evictions = 0, NEW ip \in todo
    PROVE  /\ ReqPerSec(snap[ip], prev[ip]) \in Int /\ CountedRate(ip) \in Int
           /\ ReqPerSec(snap[ip], prev[ip]) >= CountedRate(ip)
<1> DEFINE counted == closed[ip].arrived - closed[ip].dropped
           gained == snap[ip] - prev[ip]
<1>1. /\ ip \in Ips /\ snap[ip] \in Nat /\ prev[ip] \in Nat
      /\ closed[ip].arrived \in Nat /\ closed[ip].dropped \in Nat
  BY DEF TypeOK, PerIp
<1>2. counted \in Nat /\ gained \in Nat /\ counted <= gained
  BY <1>1 DEF CountsKept
<1>3. CountedRate(ip) = counted \div POLL
  BY DEF CountedRate
<1>4. ReqPerSec(snap[ip], prev[ip]) = gained \div POLL
  BY <1>2 DEF ReqPerSec
<1> HIDE DEF counted, gained
<1>5. counted \div POLL <= gained \div POLL /\ counted \div POLL \in Int /\ gained \div POLL \in Int
  BY <1>2, DivMonotone, AgentLoopAssumption
<1> QED
  BY <1>3, <1>4, <1>5

\* When a block rule is exceeded, Match returns a block rule.
LEMMA BlockWins ==
    ASSUME NEW rs \in RuleSets, NEW q \in Int, NEW w \in Winners(rs, q),
           NEW i \in DOMAIN rs, rs[i].action = "block", q > rs[i].threshold
    PROVE  w \in DOMAIN rs /\ rs[w].action = "block"
<1>1. i \in Exceeded(rs, q)
  BY DEF Exceeded
<1>2. w \in Exceeded(rs, q) /\ MayWin(rs, Exceeded(rs, q), w)
  BY <1>1 DEF Winners
<1>3. w \in DOMAIN rs /\ rs[w].action \in {"block", "rate_limit"}
  BY <1>2, AgentLoopAssumption DEF Exceeded
<1> QED
  BY <1>1, <1>2, <1>3 DEF MayWin

\* An address that exceeded a block rule throughout a window without a dropped
\* packet is blocked when the loop gets to it, unless that call fails, for the
\* duration of a rule it exceeded, also when reads of the counters have failed
\* before (agent.go:133-163).
THEOREM BlocksArePrompt == Spec => BlockPrompt
<1> DEFINE Prompt(ip) == \E i \in DOMAIN rules :
                            /\ left'[ip] = rules[i].duration
                            /\ ExceedsBlock(i, ReqPerSec(snap[ip], prev[ip]))
                            /\ failures = 0 => ExceedsBlock(i, SentRate(ip))
           Step == \A ip \in Ips :
                      /\ Process(ip) /\ errors' = errors /\ evictions = 0 /\ closed[ip].dropped = 0
                      /\ \E i \in DOMAIN rules : ExceedsBlock(i, SentRate(ip))
                      => Prompt(ip)
<1>1. TypeOK /\ CountsKept /\ CountsArrived /\ [Next]_vars => [Step]_vars
  <2> SUFFICES ASSUME TypeOK, CountsKept, CountsArrived, NEW ip \in Ips,
                      Process(ip), errors' = errors, evictions = 0, closed[ip].dropped = 0,
                      NEW i \in DOMAIN rules, ExceedsBlock(i, SentRate(ip))
               PROVE  Prompt(ip)
    OBVIOUS
  <2> DEFINE rate == ReqPerSec(snap[ip], prev[ip])
  <2>0. errors \in Nat
    BY AgentLoopAssumption DEF TypeOK
  <2>1. PICK w \in Winners(rules, rate) : \E blocked \in BOOLEAN : Enforce(ip, w, blocked, TRUE)
    <3>1. PICK b \in {left[ip] > 0, FALSE}, ok \in BOOLEAN, w \in Winners(rules, rate) :
             /\ Enforce(ip, w, b, ok)
             /\ errors' = IF ok /\ b = (left[ip] > 0) THEN errors ELSE errors + 1
      BY Zenon DEF Process
    <3>2. ok = TRUE
      <4>1. errors + 1 # errors
        BY <2>0
      <4> QED
        BY <3>1, <4>1, Zenon
    <3>3. b \in BOOLEAN
      <4>1. (left[ip] > 0) \in BOOLEAN
        OBVIOUS
      <4> QED
        BY <3>1, <4>1, Zenon
    <3> QED
      BY <3>1, <3>2, <3>3
  <2>2. /\ ip \in todo /\ left \in [Ips -> Nat] /\ rules \in RuleSets
        /\ snap[ip] \in Nat /\ prev[ip] \in Nat
        /\ closed[ip].arrived \in Nat /\ rules[i].threshold \in Nat
    BY AgentLoopAssumption DEF Process, TypeOK, PerIp
  <2>3. rate \in Int /\ SentRate(ip) \in Int /\ rate >= SentRate(ip)
    <3>1. CountedRate(ip) = SentRate(ip)
      BY <2>2 DEF CountedRate, SentRate
    <3> QED
      BY <2>2, <3>1, RateKept
  <2>4. ASSUME failures = 0 PROVE rate <= SentRate(ip)
    <3>1. snap[ip] - prev[ip] <= closed[ip].arrived
      BY <2>2, <2>4 DEF CountsArrived
    <3> QED
      BY <2>2, <3>1, RateMonotone DEF SentRate
  <2> HIDE DEF rate
  <2>5. rules[i].action = "block" /\ rate > rules[i].threshold
    BY <2>2, <2>3 DEF ExceedsBlock
  <2>6. w \in DOMAIN rules /\ rules[w].action = "block"
    BY <2>1, <2>2, <2>3, <2>5, BlockWins
  <2>7. w # NoRule /\ rules[w].threshold \in Nat /\ rate > rules[w].threshold
    BY <2>1, <2>2, <2>3, <2>6, WinnerType, AgentLoopAssumption
  <2>8. left'[ip] = rules[w].duration
    BY <2>1, <2>2, <2>6, <2>7 DEF Enforce, BlockIP
  <2>9. ExceedsBlock(w, rate) /\ (failures = 0 => ExceedsBlock(w, SentRate(ip)))
    BY <2>3, <2>4, <2>6, <2>7 DEF ExceedsBlock
  <2> QED
    BY <2>6, <2>8, <2>9 DEF rate
<1> QED
  BY <1>1, TypeCorrect, CountsKeptAlways, CountsArrivedAlways, PTL DEF Spec, BlockPrompt

\* A rate limit is lifted only from an address whose counted packets exceed no
\* rule, until the kernel evicts an entry (agent.go:164-174, README.md:216).
THEOREM LiftedOnlyBelow == Spec => UnlimitJustified
<1> DEFINE Step == \A ip \in Ips :
                      /\ evictions' = 0 /\ cfg[ip] # None /\ cfg'[ip] = None
                      => \A i \in DOMAIN rules : CountedRate(ip) <= rules[i].threshold
<1>1. TypeOK /\ CountsKept /\ [Next]_vars => [Step]_vars
  <2> SUFFICES ASSUME TypeOK, CountsKept, Next, NEW j \in Ips,
                      evictions' = 0, cfg[j] # None, cfg'[j] = None, NEW i \in DOMAIN rules
               PROVE  CountedRate(j) <= rules[i].threshold
    OBVIOUS
  <2>0. cfg \in [Ips -> Nat \cup {None}] /\ rules \in RuleSets /\ evictions \in Nat
    BY AgentLoopAssumption DEF TypeOK, PerIp
  <2>1. ASSUME NEW ip \in Ips, Process(ip) PROVE CountedRate(j) <= rules[i].threshold
    <3>1. PICK blocked \in BOOLEAN, ok \in BOOLEAN,
               w \in Winners(rules, ReqPerSec(snap[ip], prev[ip])) : Enforce(ip, w, blocked, ok)
      BY <2>1, ProcessCall
    <3>2. ip \in todo /\ evictions = 0 /\ snap[ip] \in Nat /\ prev[ip] \in Nat
      BY <2>1 DEF Process, TypeOK, PerIp
    <3>3. ReqPerSec(snap[ip], prev[ip]) \in Int
      BY <3>2, RateType
    <3>4. w # NoRule => rules[w].threshold # None
      BY <2>0, <3>3, WinnerType, AgentLoopAssumption
    <3>5. w = NoRule /\ ip = j
      BY <2>0, <3>1, <3>4, EnforceCases DEF BlockIP, SetRateLimit, RemoveRateLimit, WriteLimit
    <3>6. ~(ReqPerSec(snap[ip], prev[ip]) > rules[i].threshold)
      BY <2>0, <3>1, <3>5, AgentLoopAssumption DEF Winners, Exceeded
    <3>7. rules[i].threshold \in Nat
      BY <2>0, AgentLoopAssumption
    <3> QED
      BY <3>2, <3>3, <3>5, <3>6, <3>7, RateKept
  <2>2. ASSUME NEW map \in Evictable, NEW ip \in Ips, Evict(map, ip) PROVE FALSE
    BY <2>0, <2>2 DEF Evict
  <2>3. CASE cfg' = cfg
    BY <2>3
  <2> QED
    BY <2>1, <2>2, <2>3 DEF Next, Packets, Tick, ChangeRules, Poll, PollFails, kernel
<1> QED
  BY <1>1, TypeCorrect, CountsKeptAlways, PTL DEF Spec, UnlimitJustified
=============================================================================
