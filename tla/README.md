# Specifications of ebpf-policy

TLA+ models of the rate limiting and blocking system in this repository, the TLC
configurations that check them on small instances, and theorems about them that TLAPS
checks for every value of the constants.

Run TLC on an `MC...` module with one of its configurations, e.g.
`tlc -config AgentLoop.cfg MCAgentLoop`, and `tlapm AgentLoopProofs.tla` for the proofs.
Source paths below are relative to the repository.

## 1. The system

A policy server keeps rules in a database and serves a REST API. Agents on edge nodes hold a
copy of the rules, count packets per source address in the kernel, and block or rate-limit
addresses that exceed a rule. Server and agents talk over core NATS; agents also look at the
server's HTTP port. The server adds rules of its own: one per agent from the load scaler, and
per address from the classifier.

| Component | Source | State | Operations | Interacts with | Correct when |
|---|---|---|---|---|---|
| Rule store | `internal/agent/config/store.go` | rules map, lock, cache file | Upsert, UpsertSilent, Delete, Clear, LoadFromDisk, Match | called by listener, watch, evaluation loop | Match's answer does not depend on what the documented priorities leave no room for; the cache equals the memory |
| Evaluation loop | `internal/agent/agent.go:106-193` | previous counts, previous blocks, active limits | every 10 s: read counters, decide, block, limit, unlimit | kernel maps, rule store, reporter | no block without cause, none missed, limits in the kernel are those recorded, limits go when traffic goes |
| Packet filter | `ebpf/policy.c` | LRU maps: block list, bypass list, counters, rates, buckets, latencies | one run per packet, on any CPU | loader writes the maps | blocked packets drop, limited addresses keep within the bucket |
| Loader | `internal/agent/ebpf/loader.go` | map handles | BlockIP, IsBlocked, SetRateLimit, RemoveRateLimit, bypass, stats | the loop, the whitelist | the two maps of a limit stay together |
| Rule distribution | `agent.go:22-104, 195-291`, `listener.go`, `fetcher.go` | serverAvailable, subscriptions | fetch or cache at startup, subscribe, handle updates and deletions, watch and reload | publisher, REST API, store | agents hold the rules in force for them and no others |
| REST handlers | `internal/server/api/handlers.go` | table `policy_rules` | list, create, update, delete | database, publisher | what is committed is published |
| Publisher | `internal/server/policy/publisher.go` | none | PublishUpdate, PublishDelete, answer fetches | NATS | the right subject |
| NATS | `internal/messaging/nats.go` | connection | publish, subscribe, request | all | (external: at most once, ordered per subscription) |
| Load scaler | `internal/server/metrics/adaptive_scaler.go` | per agent: level, counters, last index | one call per system report | NATS (rule -1), database | no escalation on a spike, full load capped, recovery |
| Classifier | `internal/server/classifier/classifier.go` | table `ip_classifications` | cycle over addresses, publish whitelist changes, limits, blocks; answer whitelist fetches | NATS, agents' bypass lists | trust only what was found trusted; lists differ from the table for known reasons only |
| Whitelist | `agent.go:53-81, 303-325`, `listener.go:91-107` | bypass list | fetch at startup, add, remove | classifier, kernel | as above, on the agent's side |
| Traffic reporter, collector | `internal/agent/reporter/reporter.go`, `internal/server/metrics/collector.go` | slice of rows, table `client_stats` | AddStat, send, insert | loop, NATS, classifier | each row is stored once or dropped for a reason |
| System monitor, collector | `internal/agent/system`, `internal/server/metrics/system_collector.go` | last samples, table `system_metrics` | sample, publish, insert | scaler | stored numbers are those of the host |
| Read-only APIs, schema, configuration, certificates, web UI | `internal/server/api`, `internal/server/db`, `internal/config`, `internal/cert`, `web`, `cmd` | none or start-up only | | | `IsHostname` classifies names as the ACME code needs |

What makes it hard: unlocked packet processing on several CPUs against an agent that deletes
map entries; LRU maps that forget; a loop that treats addresses one by one from a snapshot
while everything else moves; fetching and subscribing as separate steps; commit and
publication as separate steps; NATS that keeps nothing; reloads that run alongside messages;
a classifier that stores a verdict before it announces it; a slice two goroutines share; a
restart at any point; and a scaler whose counters interact over many reports.
`PROJECT.json` lists each of these under "hazards" with its line and the properties aimed at it.

## 2. Modules

| Module | Models | Remarks |
|---|---|---|
| `Rules` | one comparison of `Match`, and `Winners`, the closed form of all answers a random map order allows | used by all modules with rules |
| `RuleStore` | `store.go`: the map, `Match` iteration by iteration, the cache file | `MatchSound` is the loop invariant of `Match` |
| `RuleStoreProofs` | theorems about `RuleStore` | |
| `Bucket` | the arithmetic of `check_rate_limit` on W-valued unsigned integers | W = 2^64 and UNIT = 10^9 in the code |
| `TokenBucketAtomic` | abstract bucket: one packet, one step | the abstract specification of the next |
| `TokenBucket` | `check_rate_limit` access by access on several CPUs, with pointers to entries that are gone | refinement mapping `Settled`, `Decided` |
| `TokenBucketProofs` | theorems about `TokenBucket`, among them the refinement | |
| `TokenBudget` | `TokenBucketAtomic` with an account of tokens earned and packets passed | history variables only |
| `TokenBudgetProofs` | theorems about `TokenBudget` | |
| `AgentLoop` | `runLoop` and the kernel maps it reads and writes, with packets, expiry, evictions, failed reads, failed calls and changing rules | `Match` is the relation `Winners` |
| `AgentLoopProofs` | theorems about `AgentLoop` | |
| `RuleSync` | REST handlers, publisher, NATS, agent startup, listener, fetcher, watch | the store is a map saved in one step |
| `RuleSyncProofs` | theorems about `RuleSync` | |
| `AdaptiveScaler` | `ProcessAdaptive`, the announcements on their way to one agent and what that agent holds of them | reports are handled in order, announcements only within a subscription |
| `Classifier` | the classifier's cycle with each query, write and publication as a step, and the agents' whitelist fetch and subscription | histories of traffic stand for the database's statistics |
| `ClassifierProofs` | theorems about `Classifier` | |
| `PacketFilter` | `policy_filter` and `update_latency` access by access on several CPUs, and the agent's writes to the maps | one address, one port; the limiter's verdict is any |
| `PacketFilterProofs` | theorems about `PacketFilter` | |
| `Telemetry` | traffic rows from `AddStat` to `client_stats`, CPU and network samples from `/proc` to `system_metrics` | two subsystems that share the connection |
| `MetricsProofs` | theorems about `Telemetry` and `AdaptiveScaler`, and about sums over finite sets | extends both, which is why the scaler's `ScalerInit`, `ScalerNext`, `ScalerSpec` and `ScalerTypeOK` carry its name |
| `MC...` | the instances TLC checks | |

`RuleStore` justifies `AgentLoop`: `MatchReturnsWinner` says that what `Match` returns is in
`Winners`, and `AgentLoop` takes any member of `Winners`. In the same way `TokenBucket`
implements `TokenBucketAtomic`, on which `TokenBudget` does its accounting.

State and actions carry the names of the code where TLA+ allows it. Some correspondences that
are not by name:

- `RuleStore`: `op` is who holds `s.mu`; `todo` are the fetched rules still to be upserted at
  startup; saving is `Truncate` then `WriteFile` (what `os.WriteFile` does), or `SaveFails`.
- `TokenBucket`: `heap` is every bucket ever allocated, `cur` the one the map refers to; `pc`
  and `reg` are a CPU's position in `check_rate_limit` and what it has read. Where the source names
  `state->tokens` again, the model follows it and also allows what a compiler may make of it: `Cap`
  and `Spend` test the value just stored or the one in memory, `Take` decrements the value tested or
  one read anew (`policy.c:157-158`), and the sum is in memory before the cap is
  (`policy.c:151-153`), where another CPU may take from it.
- `AgentLoop`: `left` is the remaining time of a block; `cfg` is `rate_limit_config_map`;
  `active` is `activeRateLimits`; `stale` (ghost) are the addresses of whose limit the last write
  failed or was evicted; `snap`/`todo` are the map `GetAllStats` returned and what the
  loop over it has left; `CloseWindow` is the tick of the 10-second ticker.
- `RuleSync`: `request` is what a REST request has still to do; `queue` holds one sequence per
  subscription, as the NATS client has a goroutine for each; `watch` and `fetched` are the
  position of `watchServer` inside a reload.
- `AdaptiveScaler`: `deviations` is capped one above SHIFT, where more makes no difference;
  `held` is what the agent's store has of the scaler's rule and of its own; `announced` is what is
  on its way about rule -1, in the order published, of which `HandleUpdate` and `HandleDelete` take
  the first of their subscription; `restoring` counts the batches of the agent's own rules on
  their way. `astray` (ghost) says that the last announcement was lost, not made in full, overtaken
  by an older one or undone.
- `Classifier`: `row` is `ip_classifications`, `seen` what `client_stats` says of 24 hours, `todo`
  the rest of a cycle, and `work` how far `classifyIP` has got with what it publishes. Rates are
  integers and z-scores are compared by cross-multiplication (`ZAtLeast(b, 30)` is z >= 3), so
  the thresholds are met exactly. `parses` is whether `net.ParseIP` accepts what the database
  renders of an address; it is chosen once.
- `PacketFilter`: `counts` and `lat` are every entry ever made, `live` and `stats` the one the map
  refers to; `pc` and `reg` are a CPU's position and what it has read. A read and the write that
  follows it are two steps, except for the atomic addition to the counter.
- `Telemetry`: `adding` is the row of an `AddStat` that has begun, `sending` what `send` has
  marshalled. A data race makes the slice and the message undefined, which the model takes to
  be any number of rows added before (`Old`).

Variables marked *ghost* record history for the properties; no guard reads them.

## 3. What is checked

Passing runs:

| Run | Question | Bounds and why they are enough |
|---|---|---|
| `RuleStore` | Whatever the order: does `Match` return a winner, respect its priorities, and does the cache equal the memory outside a write? | 3 rules (the third is what distinguishes the orders), 5 kinds (two thresholds of each action and the misspelled `ratelimit`), rates below, between and above; ids are symmetric |
| `TokenBudget` | Are burst, rate and rounding loss bounded, and is a conforming sender left alone? | 4 ticks to the second and rates 2, 3, 5, so that rates divide and do not divide the second and one is above a token per tick; 14 ticks fill and drain a bucket several times |
| `TokenBucket_one_cpu` | Does the sequence of accesses implement one step per packet, while the agent sets and changes rates? | 6 packets, 5 ticks, 2 rates; no removal, as a removal in mid-packet has no one-step counterpart |
| `TokenBucket_two_cpus` | Once races, removals or wrapped clock differences have pushed a bucket past the burst or below zero, does the next refill by a packet alone with it end that? | 2 CPUs (symmetric), 4 packets so that each CPU meets a bucket made, refilled and deleted by the other, 2 rates, 1 removal |
| `AgentLoop` | Blocks justified and prompt, limits in agreement, lifted only with cause and lifted in the end? | 1 address (addresses share only the bounds), 4 rule sets including blocks shorter and longer than a period, a period of 2, up to 8 packets in batches of 2 and 4 against thresholds of 2 and 4 per period, 1 failed read, 1 failed call into the kernel, 1 eviction from any of three maps |
| `RuleSync` | Only own rules; exact after a quiet load; everything safely sent arrives? | 1 agent (agents do not interact), 2 concurrent requests, 3 topics (own, other, the agent's id), 1 rule with 2 values and 2 updates (operations on different ids commute), 1 crash, 1 outage, 1 lost connection |
| `RuleSync_settles` | Does every agent end up running and in contact? | an agent without a topic, 2 rules, a crash, an outage of either kind, a lost connection |
| `AdaptiveScaler` | Does the agent end up with what was announced last; is escalation confirmed, full load capped, does mild load return? | indices on both sides of each threshold and more or less than 10 apart, SHIFT 2 in place of 10, 2 announcements on their way (enough for one to overtake the other and for a third to repair it), 1 restart, reload, failed query or lost connection |
| `Classifier` | Does an agent bypass only what was trusted, and do lists and table differ only for the reasons named? | 1 address (addresses share only the order of a cycle), 2 agents so that one may be told and the other not, one history for each branch of the decision and at its thresholds, 1 message under way to each agent, 1 fault (failed query, among them the one of the previous class, whose failure is ignored, failed write or publication, lost message, restart of the server); restarts of agents and sightings are not bounded |
| `PacketFilter` | Does a packet get the verdict of one moment, is it counted once, do latencies stay in order? | 2 CPUs (symmetric), 3 packets so that a CPU meets entries made and replaced by the other, 1 tick, so that a block expires and a latency is not 0, 2 map changes, the second of which goes beyond what `AsIfAtOnce` promises |
| `Telemetry` | Is a row stored once when no operations overlap, and is a stored sample true? | 3 rows, one of them idle; 2 interfaces (symmetric) so that one counter may hide another's wrap; words of 32 values in place of 2^64; 1 report under way, 6 events of any kind (rows, failures, changes of the connection or of counters) |

`RuleSync`, `Classifier`, `PacketFilter` and `Telemetry` end when their bounded budgets are used
up, so their runs do not look for deadlock; all other runs do.

A run with an expected counterexample, a disagreement of code and documents ("findings" in
`PROJECT.json`):

- `AdaptiveScaler_stuck`: after level 3, reports with index 0 leave the level at 2 for ever,
  because each step down to a level above 0 is "less than 10 from the last index"
  (`adaptive_scaler.go:271`).

Fairness. `AgentLoop`: the ticker ticks, `Poll` happens once due, and each address of a
snapshot is treated (a Go loop without blocking calls). `RuleSync`: requests finish, the
service manager restarts agents, and each goroutine of a running agent makes progress; nothing
is assumed to end an outage or restore a connection, so `Settles` is conditional on outages
ending. `AdaptiveScaler`: reports keep coming (every 30 seconds, `system/reporter.go`), and the
goroutines of the subscriptions handle what has arrived.
All of it is weak fairness; safety properties use none.

Preconditions in the properties name what the code does not promise: `BlockJustified` no failed
read (what one does is described below); `LimitsAgree` and `LimitRemoved` leave out an address whose
last write failed or was evicted, `BlockPrompt` the call that itself fails; `BlockPrompt` and
`UnlimitJustified` no eviction; `LimitRemoved` an address that still has a counter;
`LoneRefillRepairs` nothing about a bucket at which packets have met since the last refill by a packet
that had it to itself;
`RulesArrive` a change "safely sent" (agent running, connected, not
reloading, no second change of the rule under way, no move to another topic);
`LoadExact` a quiet server at the load; `Settles` says nothing of which rules an agent holds;
`AgentFollows` a last announcement that did not go astray, and `MildLoadReturns` the same in the
long run and a level that stays at 2 or below;
`StaleBypassExplained` and `MissingBypassExplained` the reasons their comments list, each a path
of the code on which a change is not passed on; `AsIfAtOnce` one map change during the packet;
`CountsEveryPacket` an entry no CPU is replacing; `AverageWithin` updates that have not overlapped, and
in the middle of one the average may be off by what that update has not yet counted;
`RowsStoredOnce` rows added after the last overlap of `AddStat` and `send`; `StoredMetricsTrue` an
exact row only if no counter restarted.

Further behaviour of the code the models contain, and that departs from a document although no
run is devoted to it:

- Among exceeded block rules the last one visited wins, not the one with the highest threshold
  (`store.go:98` against its comment at 76-77 and README.md:215), so the duration is random.
- After a failed read the next delta spans two periods and is divided by one
  (`agent.go:121-137` against README.md:211): an address that never exceeded the threshold in any
  period may be blocked.
- A rule published after an agent's fetch and before its subscriptions never arrives while the
  server stays up (`agent.go:43` and `:71` against README.md:117-118).
- A rate equal to a threshold does not exceed it (`store.go:89` against README.md:213 "≥").
- A fetch that returns no rules leaves the old cache file (`agent.go:237-245`, README.md:253).
- Tokens earned as fractions are dropped at each refill (`policy.c:148-154`, README.md:239);
  `HalfRateAtLeast` bounds the loss.
- A rate of 0 makes the first bucket wrap: burst 0, minus the packet that made it
  (`policy.c:143`). The proofs assume positive rates and so do the runs.
- Two packets that meet at a bucket may take the last token twice, so that the count wraps below
  zero and the address has no limit (`policy.c:157-158`); it ends with the next refill by a packet
  alone with the bucket, which the cap cuts to the burst (`LoneRefillRepairs`).
- `BlockIP`, `SetRateLimit` and `RemoveRateLimit` may fail (`loader.go:90-99, 130-143`), and the loop
  ignores it (`agent.go:149-172`): a limit is recorded that the kernel does not have, and an address
  is not blocked until a later window exceeds the rule again.
- The fetch handler answers a database error with an empty list (`publisher.go:60-100`), so an agent
  that starts then has no rules, and takes no notice when the database is back before its next look at
  the server. Nor does it notice a lost NATS connection (`nats.go:30-46`, `agent.go:208`): what was
  published meanwhile is lost to it until the next fetch.
- `DeleteRule` reads the topic before it deletes (`handlers.go:150-175`): after a move of the rule in
  between, the deletion goes to the old topic and the agents of the new one keep the rule.
- A packet in flight may recreate a bucket after `RemoveRateLimit`, so that a limit added later
  finds it (`loader.go:135-143`), and two CPUs may create a bucket each, passing more than a
  burst (`policy.c:136-145`).
- A blocked address that keeps sending is not counted, so its block is not extended
  (`policy.c:260-265`, README.md:223).
- An evicted rate is not set again while the agent records it (`agent.go:165`), and the limit of
  an address whose counter is evicted is never lifted (`agent.go:133, 170`).
- An update and a deletion use different subscriptions and may be handled in the other order, so
  a deleted rule can come back (`listener.go:61-86`); an agent keeps a rule that moves to a topic
  it does not listen to (`handlers.go:122-138`); an agent without a topic keeps only global
  rules of a fetch (`agent.go:283-291`, README.md:358).
- A restart of the server forgets the levels and leaves rule -1 on the agents
  (`adaptive_scaler.go:50`) until the level changes again; the deletion of rule -1 may overtake the
  update before it, which then stays (`adaptive_scaler.go:284`, `listener.go:61-89`); an adaptive rule below a manual one does not tighten anything, as the
  highest exceeded threshold wins (`store.go:103`, README.md:5).
- PostgreSQL renders `inet::text` with the mask, `192.0.2.1/32`, which `net.ParseIP` rejects: then
  neither the fetch nor a message puts an address in a bypass list (`classifier.go:116, 147`;
  `agent.go:54, 316`). `Classifier` has both cases, so that the rest is checked either way.
- `classifyIP` ignores that the previous class could not be read (`classifier.go:185-187`): a row that
  leaves the whitelist then is written without a removal being published, and agents go on
  bypassing the address.
- A severe anomaly of a whitelisted address publishes a block and no removal: the table no longer
  has it, the agents go on bypassing it, and the block has no effect on them
  (`classifier.go:236-239, 220`; `policy.c:248-258`).
- The class changes before it is announced, and only a change is announced
  (`classifier.go:193-202`): what is lost is not repeated, an address whose z-score rises from 3
  to 5 is not blocked, and one demoted as suspicious is not rate limited.
- A rate below the mean counts like one above it (`classifier.go:480`): an address that goes quiet
  reaches z = 10 and is "blocked". The tight cap is 0.8 of the mean in the code and its reason,
  0.5 in the comment (`classifier.go:248` against `:14`).
- The classifier publishes its rules on `policy.update.<address>` with the shared id -2
  (`classifier.go:434-463`): no agent with a topic listens there, and one without a topic, which
  listens to everything, applies the block rule with threshold 0 to every address.
- Two map changes during one packet may give it a verdict no moment would have given
  (`policy.c:248-279`); the first packets of an address on several CPUs may lose counts
  (`policy.c:269-276`); latencies are averaged over lost additions (`policy.c:180-181`).
- A counter that restarts makes the difference wrap (`monitor.go:199`). The driver refuses the
  value, so the sample is lost as a whole, unless another interface's traffic or a second wrap
  brings the sum below 2^63, when the row shows less than there was.

## 4. What is proved

All theorems are `Spec => ...`, for every value of the constants that meets the named
assumptions of the modules (TLC evaluates those assumptions in each run) and the hypotheses
named here. Where an inductive invariant is a strengthening, TLC has checked it on an instance
before it was proved.

- `RuleStoreProofs`: `TypeCorrect`; `MatchIsSound`; `MatchReturnsAWinner` and `Priorities` as its
  consequences; `CacheAlwaysExact`. `MatchSound` is inductive together with `TypeOK`: the lemma
  `BeatsKeepsWinner` shows that one comparison keeps the best rule among those that may win when
  the set of visited rules grows by one. The result alone (`MatchReturnsWinner`) is about the last
  iteration and says nothing of the ones before, which is why the strengthening is over the rules
  visited. `CacheExact` is about an idle store; `CacheCurrent` says the same while `Match` runs, so that
  whoever takes the lock to change the rules finds the file up to date.
- `TokenBudgetProofs`: for any clock resolution, word size and rates with at least one token per
  second (`MinRate > 0`) that do not overflow the word, `HTypeCorrect`, `BudgetKept`, `RateBounded`, `HalfRateKept`
  and `ConformingNeverDropped`. The inductive invariant is `Accounted`: packets passed plus
  tokens held are at most the burst plus what the refills added, and what they added lies between
  half the smallest and the whole of the largest rate over the account's age. `RateBound` mixes
  the two and is not inductive alone, as it forgets how much was added. `AccountStep` is the
  arithmetic of a refill.
- `TokenBucketProofs`: `BucketTypeCorrect` and, if `MinRate > 0`, `LoneRefillsRepair`, both for any number
  of CPUs and removals; `SerialIsAtomic`, the refinement of `TokenBucketAtomic`, for one CPU
  (`Cpus = {c}`) and no removal (`MaxRemovals = 0`). The hypotheses are the code's limits: a bucket
  made at rate 0 wraps (section 3), and with two CPUs or a removal in mid-packet no single step has the
  effect of the accesses. `TypeInv` adds to the types where each CPU is and what it has read by
  then (`Prepared`), and that no more buckets and packets in flight exist than packets arrived
  (`Accounted`). `LoneRefillRepairs` needs `MeetInv`: whoever has met another packet at its bucket knows
  the bucket as torn (`Met`); whoever has not finds in its registers what the bucket still
  holds (`Faithful`), because nobody else has written there; and a bucket that is not torn is within
  the burst but between the addition and the cap (`Within`). For the refinement, `SerialInv` says that what the only CPU has read is still in the
  bucket and its clock reading is not before the last refill; `MappingValues` gives what the
  refinement mapping takes at each access: the effect of the whole packet is visible as soon as the
  rate is read, which is the one access that maps to the abstract step; all others stutter.
- `AgentLoopProofs`: `TypeCorrect`; `LimitsAgreeAlways`, if no `rate_limit` rule has threshold 0, about every address but those whose
  last write failed or was evicted, which the invariant follows through the call that puts it right
  (`ProcessCall`, `EnforceCases`);
  `CountsArrivedAlways` and from it `OnlyJustifiedBlocks`; `CountsKeptAlways` and from it
  `BlocksArePrompt` and `LiftedOnlyBelow`. The three properties are about one step, and hold because
  of what the counters have gained since the previous snapshot. At most what arrived in the window
  (`CountsArrived`), as long as no read failed: evictions only make a counter fall behind, so no
  assumption about them is needed. At least what arrived and was not dropped (`CountsKept`), as long as
  nothing was evicted: here failed reads do no harm, as their packets are in the next difference.
  `BlockWins` is what `Match` promises of an exceeded block rule.
- `RuleSyncProofs`: `SyncTypeCorrect`, `ForeignRulesNeverHeld`, `LoadsExactly` and `SentRulesArrive`, for
  any agents, topics, rules and numbers of requests, crashes, outages and lost connections.
  `OwnRulesOnly` needs `Routed`: a message is in a queue of its kind that its topic matches.
  `LoadExact` needs `Calm`: as long as nothing has changed since the fetch, what the agent has
  upserted and what it has still to upsert make up the visible rules. `RulesArrive` is about agents
  with empty queues; its invariant says of every agent that missed nothing (`InStep`) that the
  current version of each visible rule is under way (`Underway`): a request is about to publish it, the newest
  message about the rule in its queue carries it, it is among the fetched rules still to be
  upserted, or the store has it and nothing on its way says otherwise. `Deletions` adds that a
  deletion on its way is of a rule that is gone for good, ids being serial.
- `ClassifierProofs`: `TypeCorrect`, with `WorkOK` (of the work in hand, only changes of the
  whitelist go to agents one by one); `OnlyTrustedBypassed`, `StaleIsExplained` and
  `MissingIsExplained`. `BypassTrusted` speaks of bypass
  lists, which change long after the decision; the inductive invariant `Earned` follows trust on
  its way: whoever is in the table as whitelisted, in an addition about to be sent or under way,
  in a fetched list or in a bypass list was once found trusted. `DecideSound` ties an addition to
  the class. The two explanations of why lists and table may differ speak of quiet moments only.
  Their invariant, `Consistent`, speaks of every moment, through the last word on its way about an
  address: unless one of the reasons applies, either the classifier is about to tell the agent what
  the table says or the last message about the address does (`Due`), or no message is on its way
  and the agent's lists agree already (`StaleFits`, `MissedFits`). It needs that the table is written
  before the change is published (`WorkFits`), that flag and class of a row agree, so that a change of
  the flag is a change of class and is published (`RowsFit`), and that an agent that is down has
  nothing (`AgentsFit`).
- `PacketFilterProofs`: `TypeCorrect`, `LatencyAlwaysOrdered`, `CountsExact`, `VerdictAsIfAtOnce` and
  `AverageBetweenExtremes`, for any number of
  CPUs. The inductive invariant `FInv` adds to the types that a packet began in the past (else a
  latency would be negative) and `Pending`: a CPU that has compared and is about to write a
  smallest latency has one not above the entry's first, which nobody changes; the same for the
  largest. The values compared may be stale by then, the first latency is not. `CountsExact` is an
  action property: `CountStep` shows it of every step from a state of the invariant. For
  `AsIfAtOnce`, `Possible` follows each packet that has lived through at most one map change: what the
  present maps, with the lookups made so far, decide for it is among the verdicts it could have
  had at one moment (`Fits`), and before any change the lookups made have found what the maps
  still say. For `AverageWithin`, `SumsFit` says that without overlap at most one
  CPU updates an entry, and gives the relation of sum, count and extremes at each of its
  accesses (`Halfway`), from which `HalfwayAverage` derives what a read at that access sees;
  `Products` is the arithmetic.
- `MetricsProofs`, about `AdaptiveScaler`: `ScalerTypeCorrect`, `AgentAlwaysFollows` and
  `EscalationAlwaysConfirmed`, for any load indices between 0 and 100 and any number of faults. The
  property speaks of moments when nothing is on its way. Its invariant speaks of all: unless it went
  astray, the last announcement is still to come, as the last on its way, if not all of these are
  overtaken, and has been handled if they are (`Ordered`); at level 0 the agent's own rules are there
  or on their way (`Restored`). `HandleKeeps` is the step that takes an announcement out of the middle.
  `Confirming` says that the counter of escalations never exceeds the number of reports in a row that
  asked for more.
- `MetricsProofs`, about `Telemetry`: `TelemetryTypeCorrect`, `RowsAlwaysStoredOnce` and
  `StoredMetricsAlwaysTrue`, for any finite set of interfaces and any number of rows, reports and
  events. `RowsStoredOnce` says what has become of a row that is no longer under way; its invariant
  (`OnePlace`) says of every row added since the last overlap where it is: being added or in the
  slice, in exactly one report, in the table once, or skipped or dropped. What `send` has marshalled
  is not a place of its own, as long as it is still what the slice holds (`Overlaps`): a report that
  cannot be published leaves its rows where they were. `StoredMetricsTrue` is about a sample that was
  taken before; its invariant ties each counter to what was last read of it and the bytes since
  (`CountersFit`), bounds all bytes together by half the word (`TrafficBounded`: each event adds at most its
  share, by the assumption that counters stay below 2^63), and orders the times of the processor
  (`TimesFit`). From that `DeltaTrue` shows what the wrapped sum of differences is: the true
  difference of all counters if it is not negative, and otherwise a value of at least half the word,
  which the database refuses. `PercentTrue` is the same for the two differences of the CPU's share.
  The sums over interfaces are folds over sets, defined recursively in the library. That they
  exist, may be taken in any order, and are monotone and linear (`SumExists` to `SumTerm`) is
  proved without an induction theorem: a set for which a claim fails would have a part, minimal
  among the subsets for which it fails (`MinimalSubset`).

Only model-checked: all liveness (`LimitRemoved`, `Settles`, `FullLoadCapped`, `MildLoadReturns`), which
is beyond TLAPS here: fairness and ENABLED are not supported.

## 5. Abstractions

- A rule is its threshold, action and duration (its topic in `RuleSync`); names, creation times,
  messages' encoding and logging are left out. Ids and topics are model values.
- Time is in ticks: a second in `AgentLoop`, a fraction of a second in the bucket. There is one
  clock; the code compares a deadline taken from `/proc/uptime` with `bpf_ktime_get_ns`, which
  differ by a constant while the host is not suspended.
- Kernel maps are exact per address; what an LRU map forgets is the action `Evict`.
- The database does what it is told or does not answer. An outage of the server takes its
  unfinished requests with it.
- In `RuleSync` and `Classifier` NATS delivers to a subscription's queue at once or never; in
  `AdaptiveScaler` what is published is on its way until it is handled. Redelivery does not exist in core NATS.
- In `Classifier` the statistics of an address are any of a few histories, chosen anew in each
  cycle; the audit log, latencies and reasons are left out. The rules it publishes for addresses
  have no further effect in the model.
- In `PacketFilter` no entry is evicted (`AgentLoop` has evictions), and headers are left out: the
  program passes what it cannot parse. The agent reads an entry of `latency_map` at one moment, which
  may be in the middle of an update; the kernel copies its four words one after another.
- In `Telemetry` one of the two byte counters of an interface is modelled; they are treated alike.
  Memory and disk usage are left out: they keep nothing between samples.
- In `AdaptiveScaler` the load index is an integer from a set; the z-scores behind it are not
  computed. The agent's topic differs from its id: else it would handle each announcement
  twice. The order of the agent's own rules among the updates of rule -1 is left open, as they are
  different entries of the store. `serverAvailable` is read and written atomically; it has one writer after startup.

Bounds (`Max...` constants) appear in guards only, and each is named in its module.

## 6. Not modelled, and plan

Not modelled:

- Read-only REST APIs (`internal/server/api/metrics.go`, `system.go`, `scaling.go`,
  `classification.go`): each is one SQL query rendered as JSON; nothing changes.
- Database schema (`internal/server/db`): DDL and retention policies, run once.
- Configuration (`internal/config`, `internal/agent/config/config.go`): files parsed once at startup.
- Certificates (`internal/cert/autocert.go`): `IsHostname` is a function of a string, the rest sets up
  a library.
- Web server, pages and process start (`web`, `cmd`).

Next:

1. `Hostname`: `IsHostname` against a reference definition on bounded inputs.
2. A composition of `Classifier`, `RuleSync` and `AgentLoop` for the rules with id -2.
