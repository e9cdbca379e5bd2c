----------------------------- MODULE Classifier -----------------------------
(***************************************************************************)
(* The IP classifier of the policy server (internal/server/classifier) and *)
(* the bypass lists it feeds: every minute it derives a class for each     *)
(* active address from the traffic of 24 hours, stores it, and on a change *)
(* of class tells the agents that have seen the address to add it to, or   *)
(* remove it from, the list of addresses the XDP program does not filter.  *)
(* An agent that starts asks for the list (whitelist.fetch) after it has   *)
(* subscribed to the changes (agent.go:75-81).                             *)
(*                                                                         *)
(* The traffic itself is not modelled: each classification may find any    *)
(* of Baselines.  A fault is a failed query or publication, a lost message *)
(* or a restart of the server; MaxFaults bounds them, and queries that     *)
(* fail in the same classification count as one.                           *)
(***************************************************************************)
EXTENDS Integers, Sequences

CONSTANTS
    Agents, IPs,
    Baselines,   \* the histories an address may have: see Baseline
    MaxQueue,    \* bound on the messages on their way to an agent
    MaxFaults    \* bound on the faults

Baseline == [samples : Nat, mean : Nat, sd : Nat, current : Nat]

ASSUME ClassifierAssumption ==
    /\ Baselines \subseteq Baseline
    /\ MaxQueue \in Nat /\ MaxFaults \in Nat

VARIABLES
    parses,  \* net.ParseIP accepts an address as the database renders it
    row,     \* ip_classifications: the class and the whitelisted flag
    seen,    \* per agent: the addresses in its client_stats of 24 hours
    todo,    \* the addresses the running cycle has yet to classify
    work,    \* what classifyIP still has to publish
    phase, bypass,  \* per agent
    chan,    \* per agent: whitelist.update messages on their way to it
    reply,   \* per agent: fetched addresses not yet added
    \* Ghosts: the addresses ever classified as trusted, those whose row a
    \* failed write left behind, and why lists and table may differ.
    trusted, torn, stale, missed, faults

server == <<row, todo, work>>
agents == <<phase, bypass, chan, reply>>
excuses == <<stale, missed>>
vars == <<parses, server, seen, agents, trusted, torn, excuses, faults>>

Classes == {"unknown", "normal", "trusted", "suspicious"}
NoRow == [class |-> "", wl |-> FALSE]
Idle == [step |-> "idle"]
Updates == {"whitelist_add", "whitelist_remove"}
Message == [ip : IPs, action : Updates]

TypeOK ==
    /\ parses \in BOOLEAN
    /\ row \in [IPs -> [class : Classes, wl : BOOLEAN] \cup {NoRow}]
    /\ seen \in [Agents -> SUBSET IPs]
    /\ todo \subseteq IPs
    /\ work \in {Idle}
          \cup [step : {"publish", "send", "flag"}, ip : IPs,
                action : Updates \cup {"rate_limit", "block"}, limit : Nat, to : SUBSET Agents]
    /\ work # Idle => (work.action = "rate_limit" => work.limit > 0)
    /\ phase \in [Agents -> {"down", "fetching", "adding", "up"}]
    /\ bypass \in [Agents -> SUBSET IPs]
    /\ chan \in [Agents -> Seq(Message)]
    /\ reply \in [Agents -> SUBSET IPs]
    /\ trusted \subseteq IPs /\ torn \subseteq IPs
    /\ stale \subseteq Agents \X IPs /\ missed \subseteq Agents \X IPs
    /\ faults \in 0 .. MaxFaults

\* PostgreSQL renders inet::text with the mask (192.0.2.1/32), which ParseIP
\* rejects; other databases may leave it out.
Init ==
    /\ parses \in BOOLEAN
    /\ row = [i \in IPs |-> NoRow]
    /\ seen = [a \in Agents |-> {}]
    /\ todo = {} /\ work = Idle
    /\ phase = [a \in Agents |-> "down"]
    /\ bypass = [a \in Agents |-> {}] /\ chan = [a \in Agents |-> <<>>]
    /\ reply = [a \in Agents |-> {}]
    /\ trusted = {} /\ torn = {} /\ stale = {} /\ missed = {} /\ faults = 0

Fault == faults < MaxFaults /\ faults' = faults + 1

-----------------------------------------------------------------------------
(* The decision. *)

MinBaseSamples == 18
MinTrustedSamples == 360

Distance(x, y) == IF x > y THEN x - y ELSE y - x
Larger(x, y) == IF x > y THEN x ELSE y

\* zScore(b) >= t/10, the standard deviation counting for at least a tenth of
\* the mean.  A current rate below the mean counts as much as one above.
ZAtLeast(b, t) ==
    b.mean # 0 /\ 100 * Distance(b.current, b.mean) >= t * Larger(10 * b.sd, b.mean)

ZAtMost15(b) ==
    b.mean = 0 \/ 100 * Distance(b.current, b.mean) <= 15 * Larger(10 * b.sd, b.mean)

Steady(b) == b.mean = 0 \/ 2 * b.sd <= b.mean     \* cv(b) <= MaxCV

\* max1(ceil(mean * 1.5)) and max1(ceil(mean * 0.8)).
Cap_Truncated(b) == IF ZAtLeast(b, 40) THEN (b.mean * 4) \div 5 ELSE (b.mean * 3) \div 2

Cap(b) ==
    Larger(1, IF ZAtLeast(b, 40) THEN (b.mean * 4 + 4) \div 5 ELSE (b.mean * 3 + 1) \div 2)

Verdict(c, a, l) == [class |-> c, action |-> a, limit |-> l]

Severe(b) == b.samples >= MinBaseSamples /\ ZAtLeast(b, 50)
Anomalous(b) == b.samples >= MinBaseSamples /\ ZAtLeast(b, 30) /\ ~ZAtLeast(b, 50)
Predictable(b) == b.samples >= MinTrustedSamples /\ ZAtMost15(b) /\ Steady(b)

\* What happens to an address that is neither suspicious nor trusted.
Demotion_None(wl) == "no_change"

Demotion(wl) == IF wl THEN "whitelist_remove" ELSE "no_change"

Decide(b, wl) ==
    CASE b.samples < MinBaseSamples -> Verdict("unknown", "no_change", 0)
      [] Severe(b) -> Verdict("suspicious", "block", 0)
      [] Anomalous(b) ->
            Verdict("suspicious", IF wl THEN "whitelist_remove" ELSE "rate_limit", Cap(b))
      [] Predictable(b) -> Verdict("trusted", IF wl THEN "no_change" ELSE "whitelist_add", 0)
      [] OTHER -> Verdict("normal", Demotion(wl), 0)

-----------------------------------------------------------------------------
(* The classifier's goroutine. *)

\* runCycle: the addresses active in the last 24 hours.
StartCycle ==
    /\ todo = {} /\ work = Idle
    /\ todo' = UNION {seen[a] : a \in Agents}
    /\ UNCHANGED <<row, work, seen, agents, trusted, torn, excuses, faults>>

\* The action is taken only when the class differs from the previous one.
Publication(i, d, prev) ==
    IF d.class = prev.class \/ d.action = "no_change" THEN Idle
    ELSE [step |-> "publish", ip |-> i, action |-> d.action, to |-> {},
          limit |-> IF d.action = "rate_limit" THEN d.limit ELSE 0]

Flag(d, wl) == IF d.class = "unknown" THEN wl ELSE d.class = "trusted"

\* What the SELECT of the previous class finds: the row, or nothing when it
\* fails, which is ignored.
Previous(i) == {row[i], NoRow}

\* classifyIP up to and including the upsert; nobody else writes the row.  A
\* severe anomaly publishes the block rule in place of the removal, and an
\* address whose row could not be read loses the flag without one.
Classify(i, b, prev) ==
    LET d == Decide(b, prev.wl) IN
    /\ i \in todo /\ work = Idle
    /\ IF prev = row[i] THEN UNCHANGED faults ELSE Fault
    /\ todo' = todo \ {i}
    /\ row' = [row EXCEPT ![i] = [class |-> d.class, wl |-> Flag(d, prev.wl)]]
    /\ work' = Publication(i, d, prev)
    /\ trusted' = IF d.class = "trusted" THEN trusted \cup {i} ELSE trusted
    /\ stale' = IF row[i].wl /\ d.class # "trusted" /\ (d.action = "block" \/ prev # row[i])
                THEN stale \cup (Agents \X {i}) ELSE stale
    /\ UNCHANGED <<seen, agents, torn, missed>>

\* The upsert fails and is only logged.
ClassifyUnsaved(i, b, prev) ==
    LET d == Decide(b, prev.wl) IN
    /\ i \in todo /\ work = Idle /\ Fault
    /\ todo' = todo \ {i}
    /\ work' = Publication(i, d, prev)
    /\ trusted' = IF d.class = "trusted" THEN trusted \cup {i} ELSE trusted
    /\ torn' = torn \cup {i}
    /\ UNCHANGED <<row, seen, agents, excuses>>

\* The baseline query fails: the address keeps its class.
ClassifySkipped(i) ==
    /\ i \in todo /\ work = Idle /\ Fault
    /\ todo' = todo \ {i}
    /\ UNCHANGED <<row, work, seen, agents, trusted, torn, excuses>>

\* publishEnforcementRule, publishBlockRule: the rules are RuleSync's subject.
PublishRule ==
    /\ work.step = "publish" /\ work.action \in {"rate_limit", "block"}
    /\ work' = Idle
    /\ UNCHANGED <<row, todo, seen, agents, trusted, torn, excuses, faults>>

Mentions(q, i) == \E n \in DOMAIN q : q[n].ip = i

\* The agents in as are not told of the change of address i.
NotTold(as, i, action) ==
    /\ stale'  = IF action = "whitelist_remove" THEN stale \cup (as \X {i}) ELSE stale
    /\ missed' = IF action = "whitelist_add" THEN missed \cup (as \X {i}) ELSE missed

\* agentsForIP: only the agents that have seen the address.
LookupAgents ==
    /\ work.step = "publish" /\ work.action \in Updates
    /\ LET to == {a \in Agents : work.ip \in seen[a]}
       IN  /\ work' = [work EXCEPT !.step = "send", !.to = to]
           /\ NotTold(Agents \ to, work.ip, work.action)
    /\ UNCHANGED <<row, todo, seen, agents, trusted, torn, faults>>

LookupFails ==
    /\ work.step = "publish" /\ work.action \in Updates /\ Fault
    /\ work' = [work EXCEPT !.step = "flag"]
    /\ NotTold(Agents, work.ip, work.action)
    /\ UNCHANGED <<row, todo, seen, agents, trusted, torn>>

Subscribed_AfterFetch(a) == phase[a] = "up"

Subscribed(a) == phase[a] # "down"

\* One publication.  A message nobody is subscribed to is gone.
Send(a) ==
    /\ work.step = "send" /\ a \in work.to /\ Len(chan[a]) < MaxQueue
    /\ work' = [work EXCEPT !.to = @ \ {a}]
    /\ chan' = IF Subscribed(a)
               THEN [chan EXCEPT ![a] = Append(@, [ip |-> work.ip, action |-> work.action])]
               ELSE chan
    /\ UNCHANGED <<row, todo, seen, phase, bypass, reply, trusted, torn, excuses, faults>>

\* It fails, or the agent's connection is down.
SendLost(a) ==
    /\ work.step = "send" /\ a \in work.to /\ Fault
    /\ work' = [work EXCEPT !.to = @ \ {a}]
    /\ NotTold({a}, work.ip, work.action)
    /\ UNCHANGED <<row, todo, seen, agents, trusted, torn>>

Sent == work.step = "flag" \/ (work.step = "send" /\ work.to = {})

\* updateWhitelistedFlag, which changes nothing when there is no row.
SetFlag ==
    /\ Sent
    /\ row' = IF row[work.ip] = NoRow THEN row
              ELSE [row EXCEPT ![work.ip].wl = (work.action = "whitelist_add")]
    /\ work' = Idle
    /\ UNCHANGED <<todo, seen, agents, trusted, torn, excuses, faults>>

SetFlagFails ==
    /\ Sent /\ Fault
    /\ work' = Idle
    /\ UNCHANGED <<row, todo, seen, agents, trusted, torn, excuses>>

\* The server stops and starts again: what was still to publish is lost.
RestartServer ==
    /\ Fault
    /\ todo' = {} /\ work' = Idle
    /\ IF work = Idle THEN UNCHANGED excuses
       ELSE NotTold(IF work.step = "publish" THEN Agents ELSE work.to, work.ip, work.action)
    /\ UNCHANGED <<row, seen, agents, trusted, torn>>

-----------------------------------------------------------------------------
(* The agents. *)

\* A report of the agent with traffic of the address is stored; 24 hours pass
\* without one.
See(a, i) ==
    /\ phase[a] = "up" /\ i \notin seen[a]
    /\ seen' = [seen EXCEPT ![a] = @ \cup {i}]
    /\ missed' = IF row[i].wl THEN missed \cup {<<a, i>>} ELSE missed
    /\ UNCHANGED <<server, agents, trusted, torn, stale, faults>>

Forget(a, i) ==
    /\ i \in seen[a]
    /\ seen' = [seen EXCEPT ![a] = @ \ {i}]
    /\ UNCHANGED <<server, agents, trusted, torn, excuses, faults>>

\* The maps are created and the subscriptions made.
Start(a) ==
    /\ phase[a] = "down"
    /\ phase' = [phase EXCEPT ![a] = "fetching"]
    /\ stale' = stale \ ({a} \X IPs)
    /\ UNCHANGED <<server, seen, bypass, chan, reply, trusted, torn, missed, faults>>

\* handleFetchRequest, in a goroutine of its own.
Whitelist_OfEveryone(a) == {i \in IPs : i \in seen[a]}

Whitelist(a) == {i \in IPs : row[i].wl /\ i \in seen[a]}

Fetch(a) ==
    /\ phase[a] = "fetching"
    /\ phase' = [phase EXCEPT ![a] = "adding"]
    /\ reply' = [reply EXCEPT ![a] = Whitelist(a)]
    /\ missed' = missed \ {<<a, i>> : i \in {j \in IPs : ~Mentions(chan[a], j)}}
    /\ UNCHANGED <<server, seen, bypass, chan, trusted, torn, stale, faults>>

\* The query fails, or no answer comes within 5 seconds.
FetchFails(a) ==
    /\ phase[a] = "fetching" /\ Fault
    /\ phase' = [phase EXCEPT ![a] = "up"]
    /\ missed' = missed \cup ({a} \X IPs)
    /\ UNCHANGED <<server, seen, bypass, chan, reply, trusted, torn, stale>>

\* AddToBypassList, with the messages q still to come.  It fails when the map
\* is full or the uptime cannot be read.  An address that does not parse is
\* passed over.
Add(a, i, q) ==
    /\ bypass' = IF parses THEN [bypass EXCEPT ![a] = @ \cup {i}] ELSE bypass
    /\ missed' = IF Mentions(q, i) THEN missed ELSE missed \ {<<a, i>>}
    /\ UNCHANGED faults

AddFails(a, i) ==
    /\ parses /\ Fault
    /\ missed' = IF i \in bypass[a] THEN missed ELSE missed \cup {<<a, i>>}
    /\ UNCHANGED bypass

AddFetched(a, i) ==
    /\ phase[a] = "adding" /\ i \in reply[a]
    /\ Add(a, i, chan[a]) \/ AddFails(a, i)
    /\ reply' = [reply EXCEPT ![a] = @ \ {i}]
    /\ UNCHANGED <<server, seen, phase, chan, trusted, torn, stale>>

FetchDone(a) ==
    /\ phase[a] = "adding" /\ reply[a] = {}
    /\ phase' = [phase EXCEPT ![a] = "up"]
    /\ UNCHANGED <<server, seen, bypass, chan, reply, trusted, torn, excuses, faults>>

\* The whitelist handler, in the subscription's goroutine.
HandleAdd(a) ==
    /\ chan[a] # <<>> /\ Head(chan[a]).action = "whitelist_add"
    /\ LET i == Head(chan[a]).ip
       IN  /\ Add(a, i, Tail(chan[a])) \/ AddFails(a, i)
           /\ chan' = [chan EXCEPT ![a] = Tail(@)]
    /\ UNCHANGED <<server, seen, phase, reply, trusted, torn, stale>>

\* An address still among those fetched is added again afterwards.
HandleRemove(a) ==
    /\ chan[a] # <<>> /\ Head(chan[a]).action = "whitelist_remove"
    /\ LET i == Head(chan[a]).ip
       IN  /\ bypass' = IF parses THEN [bypass EXCEPT ![a] = @ \ {i}] ELSE bypass
           /\ stale' = IF i \in reply[a] THEN stale \cup {<<a, i>>}
                       ELSE IF Mentions(Tail(chan[a]), i) THEN stale ELSE stale \ {<<a, i>>}
    /\ chan' = [chan EXCEPT ![a] = Tail(@)]
    /\ UNCHANGED <<server, seen, phase, reply, trusted, torn, missed, faults>>

\* The agent ends; its maps go with it.
Stop(a) ==
    /\ phase[a] # "down"
    /\ phase' = [phase EXCEPT ![a] = "down"]
    /\ bypass' = [bypass EXCEPT ![a] = {}]
    /\ chan' = [chan EXCEPT ![a] = <<>>] /\ reply' = [reply EXCEPT ![a] = {}]
    /\ UNCHANGED <<server, seen, trusted, torn, excuses, faults>>

Next ==
    /\ UNCHANGED parses
    /\ \/ StartCycle
       \/ \E i \in IPs :
             \/ \E b \in Baselines, prev \in Previous(i) :
                   Classify(i, b, prev) \/ ClassifyUnsaved(i, b, prev)
             \/ ClassifySkipped(i)
       \/ PublishRule \/ LookupAgents \/ LookupFails \/ SetFlag \/ SetFlagFails
       \/ RestartServer
       \/ \E a \in Agents :
             \/ Send(a) \/ SendLost(a)
             \/ \E i \in IPs : See(a, i) \/ Forget(a, i) \/ AddFetched(a, i)
             \/ Start(a) \/ Fetch(a) \/ FetchFails(a) \/ FetchDone(a)
             \/ HandleAdd(a) \/ HandleRemove(a) \/ Stop(a)

Spec == Init /\ [][Next]_vars

-----------------------------------------------------------------------------
\* Nothing about address i is on its way to the running agent a, and the
\* classifier is not publishing.
Settled(a, i) ==
    /\ phase[a] = "up" /\ work = Idle
    /\ ~Mentions(chan[a], i)

\* Whatever is lost, fails, restarts or is fetched while it changes, an agent
\* stops filtering an address only if the classifier has found it trusted
\* (classifier.go:3-11, 125-142, 205-207; agent.go:59-64, 303-325).
BypassTrusted == \A a \in Agents : bypass[a] \subseteq trusted

\* An agent goes on bypassing an address that is no longer whitelisted only if
\* a write of its row has failed or: a z-score of 5 took the trust away, which
\* publishes a block instead of the removal; its row could not be read when it
\* lost the trust, so that none was published; the agent had not seen it for
\* 24 hours; the removal was lost; or it arrived while the agent was adding
\* what it had fetched (classifier.go:182-223, 391-409; agent.go:65-71,
\* 315-323).
StaleBypassExplained ==
    \A a \in Agents, i \in IPs :
        Settled(a, i) /\ i \in bypass[a] /\ ~row[i].wl => i \in torn \/ <<a, i>> \in stale

\* An agent that sees a whitelisted address filters it only if the address does
\* not parse, a write of its row has failed or: it saw the address first after
\* the promotion; its fetch failed; the addition was lost or could not be made
\* (classifier.go:107-142, 391-430; agent.go:59-64, 81, 303-325).
MissingBypassExplained ==
    \A a \in Agents, i \in IPs :
        Settled(a, i) /\ i \in seen[a] /\ row[i].wl /\ i \notin bypass[a]
            => ~parses \/ i \in torn \/ <<a, i>> \in missed

=============================================================================
