------------------------------ MODULE RuleSync ------------------------------
(***************************************************************************)
(* How rules travel from the policy server's database to the agents: the   *)
(* REST handlers (internal/server/api/handlers.go), the publisher and the  *)
(* fetch handler (internal/server/policy/publisher.go), NATS, the agent's  *)
(* startup and its server watch (internal/agent/agent.go), its listener    *)
(* and its fetcher (internal/agent/config).                                *)
(*                                                                         *)
(* Each REST request runs in a goroutine of its own; committing a change   *)
(* and publishing it are two steps.  Core NATS delivers a message to the   *)
(* agents that are subscribed and connected when it is published, and to   *)
(* nobody later.  Every subscription of an agent has its own queue and its *)
(* own goroutine, so only messages of one subscription keep their order.   *)
(*                                                                         *)
(* The rule store of an agent is the one of module RuleStore with saving   *)
(* taken as one step.                                                      *)
(***************************************************************************)
EXTENDS Rules, Sequences

CONSTANTS Agents,      \* the agents, named by their agent id
          TopicOf,     \* the topic each agent is configured with
          Topics,      \* the topics rules are tagged with
          Global,      \* the empty topic
          Everything,  \* the subscription policy.update.> or policy.delete.>
          Values,      \* a rule's threshold, action and duration
          Handlers,    \* REST requests that may be in progress at once
          Ops,         \* what the administrators do
          MaxIds,      \* bound on the rules created
          MaxUpdates,  \* bound on the updates
          MaxCrashes,  \* bound on the crashes of agents
          MaxOutages,  \* bound on the outages of the server and the database
          MaxDrops     \* bound on the lost connections to NATS

ASSUME RuleSyncAssumption ==
    /\ DOMAIN TopicOf = Agents
    /\ Everything \notin Topics \cup Agents \cup Range(TopicOf) \cup {Global}
    /\ Ops \subseteq {"create", "update", "retag", "delete"}
    /\ {MaxIds, MaxUpdates, MaxCrashes, MaxOutages, MaxDrops} \subseteq Nat

VARIABLES
    db,       \* table policy_rules
    serial,   \* the last id the table gave out
    request,  \* what each request in progress still has to do
    outage,   \* "none", or the process that is down
    phase,    \* per agent: "down", "loaded" (rules fetched) or "running"
    store,    \* per agent: the rule store
    disk,     \* per agent: the cache file's rules
    avail,    \* per agent: serverAvailable
    watch,    \* per agent: where watchServer is
    fetched,  \* per agent: what watchServer has still to upsert
    link,     \* per agent: connected to NATS
    queue,    \* per agent and subscription: the messages to handle
    budget,   \* what remains of the bounds
    missed,   \* ghost, per agent: a change since its last fetch was not sent to
              \* it, or not safely (see Overlaps, Publish and WatchFetches)
    calm      \* ghost, per agent: nothing changed since its last fetch

server == <<db, serial, request, outage>>
agent == <<phase, store, disk, avail, watch, fetched>>
nats == <<link, queue>>
ghosts == <<missed, calm>>
vars == <<server, agent, nats, budget, ghosts>>

Rule == [topic : Topics, value : Values]
Change == [kind : {"update", "delete"}, id : 1 .. MaxIds, rule : Rule]
Idle == [step |-> "idle"]

\* The subscriptions the listener makes.
Subjects_All(a) == {Global, Everything}

Subjects(a) == IF TopicOf[a] = Global THEN {Global, Everything}
               ELSE {Global, TopicOf[a], a}
Channels(a) == {"update", "delete"} \X Subjects(a)

\* A message on the subject of topic t reaches subscription s.
Matches(s, t) == s = t \/ (s = Everything /\ t # Global)

NoMessages(a) == [ch \in Channels(a) |-> <<>>]

\* The rows the server answers a fetch by agent a with: an agent without a
\* topic is sent all of them.
Served(a) ==
    IF TopicOf[a] = Global THEN db
    ELSE Restrict(db, {i \in DOMAIN db : db[i].topic \in {Global, TopicOf[a]}})

\* What filterRules leaves of them.
Visible(a) ==
    Restrict(Served(a), {i \in DOMAIN Served(a) : db[i].topic \in {Global, TopicOf[a]}})

RuleSets == UNION {[S -> Rule] : S \in SUBSET (1 .. MaxIds)}

TypeOK ==
    /\ db \in RuleSets /\ serial \in 0 .. MaxIds /\ DOMAIN db \subseteq 1 .. serial
    /\ \A h \in Handlers :
          request[h] = Idle \/ request[h] \in [step : {"delete", "publish"}, change : Change]
    /\ outage \in {"none", "server", "database"}
    /\ phase \in [Agents -> {"down", "loaded", "running"}]
    /\ store \in [Agents -> RuleSets] /\ disk \in [Agents -> RuleSets]
    /\ avail \in [Agents -> BOOLEAN] /\ link \in [Agents -> BOOLEAN]
    /\ watch \in [Agents -> {"idle", "clear", "upsert"}]
    /\ fetched \in [Agents -> RuleSets]
    /\ \A a \in Agents : queue[a] \in [Channels(a) -> Seq(Change)]
    /\ missed \in [Agents -> BOOLEAN] /\ calm \in [Agents -> BOOLEAN]

Init ==
    /\ db = NoRules /\ serial = 0 /\ request = [h \in Handlers |-> Idle]
    /\ outage = "none"
    /\ phase = [a \in Agents |-> "down"]
    /\ store = [a \in Agents |-> NoRules] /\ disk = [a \in Agents |-> NoRules]
    /\ avail = [a \in Agents |-> TRUE] /\ watch = [a \in Agents |-> "idle"]
    /\ fetched = [a \in Agents |-> NoRules]
    /\ link = [a \in Agents |-> TRUE] /\ queue = [a \in Agents |-> NoMessages(a)]
    /\ budget = [updates |-> MaxUpdates, crashes |-> MaxCrashes,
                 outages |-> MaxOutages, drops |-> MaxDrops]
    /\ missed = [a \in Agents |-> TRUE] /\ calm = [a \in Agents |-> FALSE]

Use(b) == budget[b] > 0 /\ budget' = [budget EXCEPT ![b] = @ - 1]

-----------------------------------------------------------------------------
(* The REST handlers. *)

\* Another request has yet to publish a change to rule i, or the rule moves to
\* another topic: the messages may arrive in either order.
Overlaps(i, r) ==
    \/ \E h \in Handlers : request[h].step = "publish" /\ request[h].change.id = i
    \/ i \in DOMAIN db /\ db[i].topic # r.topic

\* The table becomes rows, and the request will publish the change.
Commit(h, rows, kind, i, r) ==
    /\ db' = rows
    /\ request' = [request EXCEPT ![h] =
           [step |-> "publish", change |-> [kind |-> kind, id |-> i, rule |-> r]]]
    /\ calm' = [a \in Agents |-> FALSE]
    /\ missed' = [a \in Agents |-> missed[a] \/ Overlaps(i, r)]
    /\ UNCHANGED <<outage, agent, nats>>

CreateRule_NoId(h, r) ==
    /\ "create" \in Ops /\ outage = "none" /\ request[h] = Idle /\ serial < MaxIds
    /\ serial' = serial + 1
    /\ Commit(h, Put(db, serial', r), "update", 0, r)
    /\ UNCHANGED budget

CreateRule(h, r) ==
    /\ "create" \in Ops /\ outage = "none" /\ request[h] = Idle /\ serial < MaxIds
    /\ serial' = serial + 1
    /\ Commit(h, Put(db, serial', r), "update", serial', r)
    /\ UNCHANGED budget

\* The row must exist; only "retag" changes its topic.
UpdateRule_OldRow(h, i, r) ==
    /\ outage = "none" /\ request[h] = Idle /\ i \in DOMAIN db
    /\ (IF r.topic = db[i].topic THEN "update" ELSE "retag") \in Ops
    /\ Use("updates")
    /\ Commit(h, Put(db, i, r), "update", i, db[i])
    /\ UNCHANGED serial

UpdateRule(h, i, r) ==
    /\ outage = "none" /\ request[h] = Idle /\ i \in DOMAIN db
    /\ (IF r.topic = db[i].topic THEN "update" ELSE "retag") \in Ops
    /\ Use("updates")
    /\ Commit(h, Put(db, i, r), "update", i, r)
    /\ UNCHANGED serial

\* DeleteRule reads the row first, to know the topic to publish on.
ReadForDelete(h, i) ==
    /\ "delete" \in Ops /\ outage = "none" /\ request[h] = Idle /\ i \in DOMAIN db
    /\ request' = [request EXCEPT ![h] =
           [step |-> "delete", change |-> [kind |-> "delete", id |-> i, rule |-> db[i]]]]
    /\ UNCHANGED <<db, serial, outage, agent, nats, budget, ghosts>>

DeleteRow(h) ==
    /\ outage = "none" /\ request[h].step = "delete"
    /\ LET c == request[h].change
       IN  /\ c.id \in DOMAIN db
           /\ Commit(h, Without(db, c.id), "delete", c.id, c.rule)
    /\ UNCHANGED <<serial, budget>>

\* The row is gone, or the database does not answer: nothing is published.
DeleteNothing(h) ==
    /\ request[h].step = "delete"
    /\ outage = "database" \/ request[h].change.id \notin DOMAIN db
    /\ request' = [request EXCEPT ![h] = Idle]
    /\ UNCHANGED <<db, serial, outage, agent, nats, budget, ghosts>>

Listening(a) == phase[a] = "running" /\ link[a]

\* PublishUpdate or PublishDelete, and the delivery by NATS.
Publish(h) ==
    /\ request[h].step = "publish"
    /\ LET c == request[h].change
           hears(a, ch) == Listening(a) /\ ch[1] = c.kind /\ Matches(ch[2], c.rule.topic)
       IN  queue' = [a \in Agents |-> [ch \in Channels(a) |->
               IF hears(a, ch) THEN Append(queue[a][ch], c) ELSE queue[a][ch]]]
    /\ request' = [request EXCEPT ![h] = Idle]
    /\ missed' = [a \in Agents |-> missed[a] \/ ~Listening(a) \/ watch[a] # "idle"]
    /\ UNCHANGED <<db, serial, outage, agent, link, budget, calm>>

-----------------------------------------------------------------------------
(* The environment. *)

\* The server dies with its requests, or the database stops answering.
Fail(o) ==
    /\ outage = "none" /\ o \in {"server", "database"}
    /\ Use("outages")
    /\ outage' = o
    /\ IF o = "server"
       THEN /\ request' = [h \in Handlers |-> Idle]
            /\ missed' = [a \in Agents |-> missed[a] \/ request # request']
       ELSE UNCHANGED <<request, missed>>
    /\ UNCHANGED <<db, serial, agent, nats, calm>>

Repair ==
    /\ outage # "none"
    /\ outage' = "none"
    /\ UNCHANGED <<db, serial, request, agent, nats, budget, ghosts>>

Disconnect(a) ==
    /\ link[a] /\ Use("drops")
    /\ link' = [link EXCEPT ![a] = FALSE]
    /\ UNCHANGED <<server, agent, queue, ghosts>>

Reconnect(a) ==
    /\ ~link[a]
    /\ link' = [link EXCEPT ![a] = TRUE]
    /\ UNCHANGED <<server, agent, queue, budget, ghosts>>

\* The agent dies; the cache file survives.
Crash(a) ==
    /\ phase[a] # "down" /\ Use("crashes")
    /\ phase' = [phase EXCEPT ![a] = "down"]
    /\ store' = [store EXCEPT ![a] = NoRules]
    /\ watch' = [watch EXCEPT ![a] = "idle"]
    /\ fetched' = [fetched EXCEPT ![a] = NoRules]
    /\ link' = [link EXCEPT ![a] = TRUE]
    /\ queue' = [queue EXCEPT ![a] = NoMessages(a)]
    /\ missed' = [missed EXCEPT ![a] = TRUE] /\ calm' = [calm EXCEPT ![a] = FALSE]
    /\ UNCHANGED <<server, disk, avail>>

-----------------------------------------------------------------------------
(* The agent's startup. *)

\* connectToServer ends with rules rs in the store.
Loaded(a, rs, reached) ==
    /\ phase[a] = "down"
    /\ phase' = [phase EXCEPT ![a] = "loaded"]
    /\ store' = [store EXCEPT ![a] = rs]
    /\ avail' = [avail EXCEPT ![a] = reached]
    /\ UNCHANGED <<server, watch, fetched, nats, budget>>

\* A request has yet to publish a version of a rule that is not the current one.
Outdated(h) ==
    /\ request[h].step = "publish"
    /\ LET c == request[h].change IN c.id \in DOMAIN db /\ db[c.id] # c.rule

\* What the ghosts say after a fetch by agent a.
Fetched(a) ==
    /\ missed' = [missed EXCEPT ![a] =
           queue[a] # NoMessages(a) \/ \E h \in Handlers : Outdated(h)]
    /\ calm' = [calm EXCEPT ![a] =
           /\ \A h \in Handlers : request[h] = Idle
           /\ queue[a] = NoMessages(a)]

\* Each rule fetched is upserted and saved: without one nothing is saved.
StartFetched(a) ==
    /\ outage = "none"
    /\ Loaded(a, Visible(a), TRUE)
    /\ disk' = [disk EXCEPT ![a] = IF Visible(a) = NoRules THEN disk[a] ELSE Visible(a)]
    /\ Fetched(a)

\* The fetch handler answers a database error with an empty list.
StartEmpty(a) ==
    /\ outage = "database"
    /\ Loaded(a, NoRules, TRUE)
    /\ UNCHANGED <<disk, ghosts>>

\* LoadFromDisk, after five attempts.
StartCached(a) ==
    /\ outage = "server"
    /\ Loaded(a, disk[a], FALSE)
    /\ UNCHANGED <<disk, ghosts>>

\* Listener.Start, and the goroutines.
Subscribe(a) ==
    /\ phase[a] = "loaded"
    /\ phase' = [phase EXCEPT ![a] = "running"]
    /\ UNCHANGED <<server, store, disk, avail, watch, fetched, nats, budget, ghosts>>

-----------------------------------------------------------------------------
(* The running agent. *)

Save(a, rs) ==
    /\ store' = [store EXCEPT ![a] = rs]
    /\ disk' = [disk EXCEPT ![a] = rs]

\* The goroutine of one subscription handles its next message.
HandleUpdate(a, s) ==
    LET ch == <<"update", s>> IN
    /\ phase[a] = "running" /\ queue[a][ch] # <<>>
    /\ Save(a, Put(store[a], Head(queue[a][ch]).id, Head(queue[a][ch]).rule))
    /\ queue' = [queue EXCEPT ![a][ch] = Tail(@)]
    /\ UNCHANGED <<server, phase, avail, watch, fetched, link, budget, ghosts>>

HandleDelete(a, s) ==
    LET ch == <<"delete", s>> IN
    /\ phase[a] = "running" /\ queue[a][ch] # <<>>
    /\ IF Head(queue[a][ch]).id \in DOMAIN store[a]
       THEN Save(a, Without(store[a], Head(queue[a][ch]).id))
       ELSE UNCHANGED <<store, disk>>
    /\ queue' = [queue EXCEPT ![a][ch] = Tail(@)]
    /\ UNCHANGED <<server, phase, avail, watch, fetched, link, budget, ghosts>>

Watching(a, w) == phase[a] = "running" /\ watch[a] = w

\* /api/rules does not answer, or answers with an error.
WatchFails(a) ==
    /\ Watching(a, "idle") /\ outage # "none" /\ avail[a]
    /\ avail' = [avail EXCEPT ![a] = FALSE]
    /\ UNCHANGED <<server, phase, store, disk, watch, fetched, nats, budget, ghosts>>

\* The server is back.
WatchFetches(a) ==
    /\ Watching(a, "idle") /\ outage = "none" /\ ~avail[a]
    /\ watch' = [watch EXCEPT ![a] = "clear"]
    /\ fetched' = [fetched EXCEPT ![a] = Visible(a)]
    /\ Fetched(a)
    /\ UNCHANGED <<server, phase, store, disk, avail, nats, budget>>

WatchClears_Keep(a) ==
    /\ Watching(a, "clear")
    /\ watch' = [watch EXCEPT ![a] = "upsert"]
    /\ UNCHANGED <<server, phase, store, disk, avail, fetched, nats, budget, ghosts>>

WatchClears(a) ==
    /\ Watching(a, "clear")
    /\ Save(a, NoRules)
    /\ watch' = [watch EXCEPT ![a] = "upsert"]
    /\ UNCHANGED <<server, phase, avail, fetched, nats, budget, ghosts>>

WatchUpserts(a, i) ==
    /\ Watching(a, "upsert") /\ i \in DOMAIN fetched[a]
    /\ Save(a, Put(store[a], i, fetched[a][i]))
    /\ fetched' = [fetched EXCEPT ![a] = Without(@, i)]
    /\ UNCHANGED <<server, phase, avail, watch, nats, budget, ghosts>>

WatchDone_StillDown(a) ==
    /\ Watching(a, "upsert") /\ fetched[a] = NoRules
    /\ watch' = [watch EXCEPT ![a] = "idle"]
    /\ UNCHANGED <<server, phase, store, disk, avail, fetched, nats, budget, ghosts>>

WatchDone(a) ==
    /\ Watching(a, "upsert") /\ fetched[a] = NoRules
    /\ watch' = [watch EXCEPT ![a] = "idle"]
    /\ avail' = [avail EXCEPT ![a] = TRUE]
    /\ UNCHANGED <<server, phase, store, disk, fetched, nats, budget, ghosts>>

Next ==
    \/ \E h \in Handlers :
          \/ \E r \in Rule : CreateRule(h, r)
          \/ \E i \in 1 .. MaxIds, r \in Rule : UpdateRule(h, i, r)
          \/ \E i \in 1 .. MaxIds : ReadForDelete(h, i)
          \/ DeleteRow(h) \/ DeleteNothing(h) \/ Publish(h)
    \/ \E o \in {"server", "database"} : Fail(o)
    \/ Repair
    \/ \E a \in Agents :
          \/ Disconnect(a) \/ Reconnect(a) \/ Crash(a)
          \/ StartFetched(a) \/ StartEmpty(a) \/ StartCached(a) \/ Subscribe(a)
          \/ \E s \in Subjects(a) : HandleUpdate(a, s) \/ HandleDelete(a, s)
          \/ WatchFails(a) \/ WatchFetches(a) \/ WatchClears(a) \/ WatchDone(a)
          \/ \E i \in 1 .. MaxIds : WatchUpserts(a, i)

Spec == Init /\ [][Next]_vars

\* Requests finish, agents that are down are started again, and each goroutine
\* of a running agent keeps running.  Nothing makes an outage end.
Fairness ==
    /\ \A h \in Handlers : WF_vars(DeleteRow(h) \/ DeleteNothing(h) \/ Publish(h))
    /\ \A a \in Agents :
          /\ WF_vars(StartFetched(a) \/ StartEmpty(a) \/ StartCached(a))
          /\ WF_vars(Subscribe(a))
          /\ \A s \in Subjects(a) : WF_vars(HandleUpdate(a, s)) /\ WF_vars(HandleDelete(a, s))
          /\ WF_vars(\/ WatchFails(a) \/ WatchFetches(a) \/ WatchClears(a)
                     \/ (\E i \in 1 .. MaxIds : WatchUpserts(a, i)) \/ WatchDone(a))

FairSpec == Spec /\ Fairness

-----------------------------------------------------------------------------
\* Nothing is on its way to agent a.
Quiescent(a) ==
    /\ phase[a] = "running" /\ watch[a] = "idle" /\ queue[a] = NoMessages(a)
    /\ \A h \in Handlers : request[h] = Idle

\* An agent that was sent every change since its last fetch holds, once it has
\* handled them, the current version of each rule in force for it, whatever
\* crashes, outages and lost connections came before (publisher.go:21-40,
\* listener.go:50-110, agent.go:195-271).  Sent means: to a running, connected
\* agent that was not reloading, no second change to the rule being on its way.
RulesArrive ==
    \A a \in Agents : Quiescent(a) /\ ~missed[a] =>
        \A i \in DOMAIN Visible(a) : i \in DOMAIN store[a] /\ store[a][i] = db[i]

\* An agent with a topic holds, in memory and in its cache, no rule tagged for
\* anybody else (agent.go:283-291, listener.go:50-59), whatever requests race.
OwnRulesOnly ==
    \A a \in Agents : TopicOf[a] # Global =>
        \A rs \in {store[a], disk[a], fetched[a]} : \A i \in DOMAIN rs :
            rs[i].topic \in {Global, TopicOf[a], a}

\* If nothing was on its way at the last fetch and nothing has changed since,
\* the agent holds exactly the rules in force for it, whatever it held before
\* the outage (agent.go:195-271).
LoadExact ==
    \A a \in Agents : calm[a] /\ watch[a] = "idle" => store[a] = Visible(a)

\* Once no outage is left, every agent ends up running, in contact with the
\* server and with nothing left to handle: "starts without rules, keeps
\* retrying" (README.md:249) and watchServer (agent.go:195-234) get there.
Settles ==
    <>[](outage = "none") => <>[](\A a \in Agents : Quiescent(a) /\ avail[a])
=============================================================================
