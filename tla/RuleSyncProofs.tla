--------------------------- MODULE RuleSyncProofs ---------------------------
(***************************************************************************)
(* Theorems about RuleSync, for any agents, topics, requests and bounds:   *)
(* the types, and what the agents hold whatever requests race, messages    *)
(* are lost, and processes crash.                                          *)
(***************************************************************************)
EXTENDS RuleSync, SequenceTheorems, TLAPS

-----------------------------------------------------------------------------
(* Rule sets and sequences of messages. *)

Ids == 1 .. MaxIds

\* What a rule set maps to what.
LEMMA RuleSetElement ==
    ASSUME NEW rs \in RuleSets
    PROVE  /\ DOMAIN rs \subseteq Ids /\ \A i \in DOMAIN rs : rs[i] \in Rule
           /\ rs = [i \in DOMAIN rs |-> rs[i]]
BY DEF RuleSets, Ids

\* A function from some of the ids to rules is a rule set.
LEMMA RuleSetIntro ==
    ASSUME NEW S \in SUBSET Ids, NEW rs \in [S -> Rule]
    PROVE  rs \in RuleSets
BY DEF RuleSets, Ids

\* s.rules[rule.ID] = rule
LEMMA PutIs ==
    ASSUME NEW rs \in RuleSets, NEW i \in Ids, NEW r \in Rule
    PROVE  /\ Put(rs, i, r) \in RuleSets
           /\ DOMAIN Put(rs, i, r) = DOMAIN rs \cup {i}
           /\ \A j \in DOMAIN Put(rs, i, r) : Put(rs, i, r)[j] = IF j = i THEN r ELSE rs[j]
<1>1. Put(rs, i, r) \in [DOMAIN rs \cup {i} -> Rule]
  BY RuleSetElement DEF Put
<1>2. DOMAIN rs \cup {i} \in SUBSET Ids
  BY RuleSetElement
<1> QED
  BY <1>1, <1>2, RuleSetIntro DEF Put

\* delete(s.rules, id)
LEMMA WithoutIs ==
    ASSUME NEW rs \in RuleSets, NEW i
    PROVE  /\ Without(rs, i) \in RuleSets
           /\ DOMAIN Without(rs, i) = DOMAIN rs \ {i}
           /\ \A j \in DOMAIN Without(rs, i) : Without(rs, i)[j] = rs[j]
<1>1. Without(rs, i) \in [DOMAIN rs \ {i} -> Rule]
  BY RuleSetElement DEF Without, Restrict
<1>2. DOMAIN rs \ {i} \in SUBSET Ids
  BY RuleSetElement
<1> QED
  BY <1>1, <1>2, RuleSetIntro DEF Without, Restrict

\* A store without rules.
LEMMA NoRulesIs == NoRules \in RuleSets /\ DOMAIN NoRules = {}
<1>1. NoRules \in [{} -> Rule]
  BY DEF NoRules
<1> QED
  BY <1>1, RuleSetIntro

\* What an agent fetches are the rows in force for it.
LEMMA VisibleIs ==
    ASSUME NEW a, db \in RuleSets
    PROVE  /\ Visible(a) \in RuleSets
           /\ DOMAIN Visible(a) = {i \in DOMAIN db : db[i].topic \in {Global, TopicOf[a]}}
           /\ \A i \in DOMAIN Visible(a) : Visible(a)[i] = db[i]
<1>1. /\ DOMAIN Visible(a) = {i \in DOMAIN db : db[i].topic \in {Global, TopicOf[a]}}
      /\ \A i \in DOMAIN Visible(a) : Visible(a)[i] = db[i]
      /\ Visible(a) = [i \in DOMAIN Visible(a) |-> Visible(a)[i]]
  <2>1. CASE TopicOf[a] = Global
    BY <2>1 DEF Visible, Served, Restrict
  <2>2. CASE TopicOf[a] # Global
    BY <2>2 DEF Visible, Served, Restrict
  <2> QED
    BY <2>1, <2>2
<1>2. Visible(a) \in [DOMAIN Visible(a) -> Rule] /\ DOMAIN Visible(a) \in SUBSET Ids
  BY <1>1, RuleSetElement
<1> QED
  BY <1>1, <1>2, RuleSetIntro

-----------------------------------------------------------------------------
(* Type correctness. *)

Requests == [step : {"delete", "publish"}, change : Change]

ServerOK ==
    /\ db \in RuleSets /\ serial \in 0 .. MaxIds /\ DOMAIN db \subseteq 1 .. serial
    /\ outage \in {"none", "server", "database"}

RequestsOK ==
    /\ DOMAIN request = Handlers
    /\ \A h \in Handlers : request[h] = Idle \/ request[h] \in Requests

StoresOK ==
    /\ store \in [Agents -> RuleSets] /\ disk \in [Agents -> RuleSets]
    /\ fetched \in [Agents -> RuleSets]

StatusOK ==
    /\ phase \in [Agents -> {"down", "loaded", "running"}]
    /\ watch \in [Agents -> {"idle", "clear", "upsert"}]
    /\ avail \in [Agents -> BOOLEAN] /\ link \in [Agents -> BOOLEAN]

QueuesOK ==
    /\ DOMAIN queue = Agents
    /\ \A a \in Agents : queue[a] \in [Channels(a) -> Seq(Change)]

GhostsOK == missed \in [Agents -> BOOLEAN] /\ calm \in [Agents -> BOOLEAN]

TypeInv == ServerOK /\ RequestsOK /\ StoresOK /\ StatusOK /\ QueuesOK /\ GhostsOK

\* The parts make up TypeOK.
LEMMA TypeInvImplies == TypeInv => TypeOK
BY DEF TypeInv, ServerOK, RequestsOK, StoresOK, StatusOK, QueuesOK, GhostsOK, TypeOK, Requests

\* The queues of an agent that has just started.
LEMMA NoMessagesType == ASSUME NEW a PROVE NoMessages(a) \in [Channels(a) -> Seq(Change)]
BY DEF NoMessages

\* The initial state is typed.
LEMMA TypeInit == Init => TypeInv
<1> SUFFICES ASSUME Init PROVE TypeInv
  OBVIOUS
<1>1. ServerOK
  <2>1. 0 \in 0 .. MaxIds
    BY RuleSyncAssumption
  <2> QED
    BY <2>1, NoRulesIs DEF Init, ServerOK
<1>2. RequestsOK
  BY DEF Init, RequestsOK
<1>3. StoresOK
  BY NoRulesIs DEF Init, StoresOK
<1>4. StatusOK
  BY DEF Init, StatusOK
<1>5. QueuesOK
  BY NoMessagesType DEF Init, QueuesOK
<1>6. GhostsOK
  BY DEF Init, GhostsOK
<1> QED
  BY <1>1, <1>2, <1>3, <1>4, <1>5, <1>6 DEF TypeInv

\* Committing a change leaves the table and the request typed.
LEMMA CommitType ==
    ASSUME TypeInv, NEW h \in Handlers, NEW rows \in RuleSets, NEW k \in {"update", "delete"},
           NEW i \in Ids, NEW r \in Rule, Commit(h, rows, k, i, r),
           serial' \in 0 .. MaxIds, DOMAIN rows \subseteq 1 .. serial'
    PROVE  TypeInv'
<1>1. db' = rows /\ UNCHANGED <<outage, agent, nats>>
  BY DEF Commit
<1>2. ServerOK'
  BY <1>1 DEF TypeInv, ServerOK
<1>3. RequestsOK'
  <2> DEFINE q == [step |-> "publish", change |-> [kind |-> k, id |-> i, rule |-> r]]
  <2>1. q \in Requests
    BY DEF Requests, Change, Ids
  <2>2. request' = [request EXCEPT ![h] = q]
    BY DEF Commit
  <2> HIDE DEF q
  <2> QED
    BY <2>1, <2>2 DEF TypeInv, RequestsOK
<1>4. GhostsOK'
  <2>1. \A a \in Agents : (missed[a] \/ Overlaps(i, r)) \in BOOLEAN
    OBVIOUS
  <2>2. calm' \in [Agents -> BOOLEAN]
    BY DEF Commit
  <2>3. missed' = [a \in Agents |-> missed[a] \/ Overlaps(i, r)]
    BY DEF Commit
  <2>4. missed' \in [Agents -> BOOLEAN]
    BY <2>1, <2>3, Zenon
  <2> QED
    BY <2>2, <2>4 DEF GhostsOK
<1>5. StoresOK' /\ StatusOK' /\ QueuesOK'
  BY <1>1 DEF TypeInv, StoresOK, StatusOK, QueuesOK, agent, nats
<1> QED
  BY <1>2, <1>3, <1>4, <1>5 DEF TypeInv

\* The request of a typed state.
LEMMA RequestIs ==
    ASSUME RequestsOK, NEW h \in Handlers, request[h] # Idle
    PROVE  /\ request[h] \in Requests /\ request[h].change \in Change
           /\ request[h].change.id \in Ids /\ request[h].change.rule \in Rule
           /\ request[h].change.kind \in {"update", "delete"}
<1>1. request[h] \in Requests
  BY DEF RequestsOK
<1>2. request[h].change \in Change
  BY <1>1 DEF Requests
<1> QED
  BY <1>1, <1>2 DEF Change, Ids

\* The REST handlers keep the types.
LEMMA RequestTypes ==
    ASSUME TypeInv, NEW h \in Handlers,
           \/ \E r \in Rule : CreateRule(h, r)
           \/ \E i \in Ids, r \in Rule : UpdateRule(h, i, r)
           \/ \E i \in Ids : ReadForDelete(h, i)
           \/ DeleteRow(h) \/ DeleteNothing(h)
    PROVE  TypeInv'
<1>1. /\ db \in RuleSets /\ serial \in 0 .. MaxIds /\ DOMAIN db \subseteq 1 .. serial
      /\ MaxIds \in Nat
  BY RuleSyncAssumption DEF TypeInv, ServerOK
<1>2. ASSUME UNCHANGED <<db, serial, outage, agent, nats, ghosts>>,
             NEW q \in Requests \cup {Idle}, request' = [request EXCEPT ![h] = q]
      PROVE  TypeInv'
  <2>1. RequestsOK'
    BY <1>2 DEF TypeInv, RequestsOK
  <2>2. ServerOK' /\ StoresOK' /\ StatusOK' /\ QueuesOK' /\ GhostsOK'
    BY <1>2 DEF TypeInv, ServerOK, StoresOK, StatusOK, QueuesOK, GhostsOK, agent, nats, ghosts
  <2> QED
    BY <2>1, <2>2 DEF TypeInv
<1>3. ASSUME NEW r \in Rule, CreateRule(h, r) PROVE TypeInv'
  <2>1. /\ serial' = serial + 1 /\ serial < MaxIds
        /\ Commit(h, Put(db, serial', r), "update", serial', r)
    BY <1>3 DEF CreateRule
  <2>2. serial' \in Ids /\ serial' \in 0 .. MaxIds /\ DOMAIN db \cup {serial'} \subseteq 1 .. serial'
    BY <1>1, <2>1 DEF Ids
  <2>3. /\ Put(db, serial', r) \in RuleSets
        /\ DOMAIN Put(db, serial', r) = DOMAIN db \cup {serial'}
    BY <1>1, <2>2, PutIs
  <2> QED
    BY <2>1, <2>2, <2>3, CommitType
<1>4. ASSUME NEW i \in Ids, NEW r \in Rule, UpdateRule(h, i, r) PROVE TypeInv'
  <2>1. /\ serial' = serial /\ i \in DOMAIN db
        /\ Commit(h, Put(db, i, r), "update", i, r)
    BY <1>4 DEF UpdateRule
  <2>2. Put(db, i, r) \in RuleSets /\ DOMAIN Put(db, i, r) = DOMAIN db \cup {i}
    BY <1>1, PutIs
  <2>3. DOMAIN Put(db, i, r) \subseteq 1 .. serial'
    BY <1>1, <2>1, <2>2
  <2> QED
    BY <1>1, <2>1, <2>2, <2>3, CommitType
<1>5. ASSUME NEW i \in Ids, ReadForDelete(h, i) PROVE TypeInv'
  <2> DEFINE q == [step |-> "delete", change |-> [kind |-> "delete", id |-> i, rule |-> db[i]]]
  <2>1. i \in DOMAIN db /\ request' = [request EXCEPT ![h] = q]
    BY <1>5 DEF ReadForDelete
  <2>2. q \in Requests
    BY <1>1, <2>1, RuleSetElement DEF Requests, Change, Ids
  <2> HIDE DEF q
  <2> QED
    BY <1>2, <1>5, <2>1, <2>2 DEF ReadForDelete
<1>6. CASE DeleteRow(h)
  <2> DEFINE c == request[h].change
  <2>1. /\ serial' = serial /\ Commit(h, Without(db, c.id), "delete", c.id, c.rule)
        /\ request[h].step = "delete"
    BY <1>6 DEF DeleteRow
  <2>2. c.id \in Ids /\ c.rule \in Rule
    BY <2>1, RequestIs DEF Idle, TypeInv
  <2> HIDE DEF c
  <2>3. Without(db, c.id) \in RuleSets /\ DOMAIN Without(db, c.id) = DOMAIN db \ {c.id}
    BY <1>1, WithoutIs
  <2>4. DOMAIN Without(db, c.id) \subseteq 1 .. serial'
    BY <1>1, <2>1, <2>3
  <2> QED
    BY <1>1, <2>1, <2>2, <2>3, <2>4, CommitType
<1>7. CASE DeleteNothing(h)
  BY <1>2, <1>7 DEF DeleteNothing
<1> QED
  BY <1>3, <1>4, <1>5, <1>6, <1>7

\* Publishing and handling a message.
LEMMA QueueTypes ==
    ASSUME TypeInv,
           \/ \E h \in Handlers : Publish(h)
           \/ \E a \in Agents : \E s \in Subjects(a) : HandleUpdate(a, s) \/ HandleDelete(a, s)
    PROVE  TypeInv'
<1>1. ASSUME NEW h \in Handlers, Publish(h) PROVE TypeInv'
  <2> DEFINE c == request[h].change
             hears(a, ch) == Listening(a) /\ ch[1] = c.kind /\ Matches(ch[2], c.rule.topic)
  <2>1. c \in Change
    BY <1>1, RequestIs DEF Publish, Idle, TypeInv
  <2>2. queue' = [a \in Agents |-> [ch \in Channels(a) |->
               IF hears(a, ch) THEN Append(queue[a][ch], c) ELSE queue[a][ch]]]
    BY <1>1 DEF Publish
  <2> HIDE DEF c, hears
  <2>3. ASSUME NEW a \in Agents PROVE queue'[a] \in [Channels(a) -> Seq(Change)]
    <3>1. queue'[a] = [ch \in Channels(a) |->
               IF hears(a, ch) THEN Append(queue[a][ch], c) ELSE queue[a][ch]]
      BY <2>2
    <3>2. ASSUME NEW ch \in Channels(a)
          PROVE  queue[a][ch] \in Seq(Change) /\ Append(queue[a][ch], c) \in Seq(Change)
      <4>1. queue[a][ch] \in Seq(Change)
        BY DEF TypeInv, QueuesOK
      <4> QED
        BY <2>1, <4>1
    <3> QED
      BY <3>1, <3>2
  <2>4. QueuesOK'
    BY <2>2, <2>3 DEF QueuesOK
  <2>5. RequestsOK'
    BY <1>1 DEF Publish, TypeInv, RequestsOK
  <2>6. GhostsOK'
    <3>1. missed' = [a \in Agents |-> missed[a] \/ ~Listening(a) \/ watch[a] # "idle"]
      BY <1>1 DEF Publish
    <3>2. missed' \in [Agents -> BOOLEAN]
      BY <3>1, Zenon
    <3> QED
      BY <1>1, <3>2 DEF Publish, TypeInv, GhostsOK
  <2>7. ServerOK' /\ StoresOK' /\ StatusOK'
    BY <1>1 DEF Publish, TypeInv, ServerOK, StoresOK, StatusOK, agent
  <2> QED
    BY <2>4, <2>5, <2>6, <2>7 DEF TypeInv
<1>2. ASSUME NEW a \in Agents, NEW s \in Subjects(a), HandleUpdate(a, s) \/ HandleDelete(a, s)
      PROVE  TypeInv'
  <2>1. PICK k \in {"update", "delete"} :
            /\ queue[a][<<k, s>>] # <<>>
            /\ queue' = [queue EXCEPT ![a][<<k, s>>] = Tail(@)]
            /\ \/ UNCHANGED <<store, disk>>
               \/ Save(a, Without(store[a], Head(queue[a][<<k, s>>]).id))
               \/ Save(a, Put(store[a], Head(queue[a][<<k, s>>]).id, Head(queue[a][<<k, s>>]).rule))
    BY <1>2 DEF HandleUpdate, HandleDelete
  <2> DEFINE ch == <<k, s>>
             m == Head(queue[a][ch])
  <2>2. ch \in Channels(a)
    BY DEF Channels
  <2>3. queue[a] \in [Channels(a) -> Seq(Change)] /\ queue[a][ch] \in Seq(Change)
    BY <2>2 DEF TypeInv, QueuesOK
  <2>4. m \in Change /\ Tail(queue[a][ch]) \in Seq(Change)
    BY <2>1, <2>3
  <2>5. m.id \in Ids /\ m.rule \in Rule
    BY <2>4 DEF Change, Ids
  <2>6. QueuesOK'
    <3>1. DOMAIN queue' = Agents /\ queue'[a] = [queue[a] EXCEPT ![ch] = Tail(queue[a][ch])]
      BY <2>1 DEF TypeInv, QueuesOK
    <3>2. \A b \in Agents : b # a => queue'[b] = queue[b]
      BY <2>1 DEF TypeInv, QueuesOK
    <3> HIDE DEF ch, m
    <3>3. queue'[a] \in [Channels(a) -> Seq(Change)]
      BY <2>2, <2>3, <2>4, <3>1
    <3> QED
      BY <3>1, <3>2, <3>3 DEF TypeInv, QueuesOK
  <2>7. StoresOK'
    <3>1. store[a] \in RuleSets
      BY DEF TypeInv, StoresOK
    <3>2. Without(store[a], m.id) \in RuleSets /\ Put(store[a], m.id, m.rule) \in RuleSets
      BY <2>5, <3>1, WithoutIs, PutIs
    <3>3. \/ UNCHANGED <<store, disk>>
          \/ \E rs \in RuleSets : Save(a, rs)
      BY <2>1, <3>2
    <3>4. UNCHANGED fetched
      BY <1>2 DEF HandleUpdate, HandleDelete
    <3> QED
      BY <3>3, <3>4 DEF Save, TypeInv, StoresOK
  <2>8. ServerOK' /\ RequestsOK' /\ StatusOK' /\ GhostsOK'
    BY <1>2 DEF HandleUpdate, HandleDelete, TypeInv, ServerOK, RequestsOK, StatusOK, GhostsOK,
       server, ghosts
  <2> QED
    BY <2>6, <2>7, <2>8 DEF TypeInv
<1> QED
  BY <1>1, <1>2

\* The outages, the lost connections and the crashes.
LEMMA EnvironmentTypes ==
    ASSUME TypeInv,
           \/ \E o \in {"server", "database"} : Fail(o)
           \/ Repair
           \/ \E a \in Agents : Disconnect(a) \/ Reconnect(a) \/ Crash(a)
    PROVE  TypeInv'
<1>1. ASSUME NEW o \in {"server", "database"}, Fail(o) PROVE TypeInv'
  <2>1. ServerOK'
    BY <1>1 DEF Fail, TypeInv, ServerOK
  <2>2. RequestsOK'
    BY <1>1 DEF Fail, TypeInv, RequestsOK
  <2>3. GhostsOK'
    <3>1. CASE o = "server"
      <4>1. missed' = [a \in Agents |-> missed[a] \/ request # request']
        BY <1>1, <3>1 DEF Fail
      <4>2. missed' \in [Agents -> BOOLEAN]
        BY <4>1, Zenon
      <4> QED
        BY <1>1, <4>2 DEF Fail, TypeInv, GhostsOK
    <3>2. CASE o # "server"
      BY <1>1, <3>2 DEF Fail, TypeInv, GhostsOK
    <3> QED
      BY <3>1, <3>2
  <2>4. StoresOK' /\ StatusOK' /\ QueuesOK'
    BY <1>1 DEF Fail, TypeInv, StoresOK, StatusOK, QueuesOK, agent, nats
  <2> QED
    BY <2>1, <2>2, <2>3, <2>4 DEF TypeInv
<1>2. CASE Repair
  BY <1>2 DEF Repair, TypeInv, ServerOK, RequestsOK, StoresOK, StatusOK, QueuesOK, GhostsOK,
     agent, nats, ghosts
<1>3. ASSUME NEW a \in Agents, Disconnect(a) \/ Reconnect(a) PROVE TypeInv'
  <2>1. StatusOK'
    BY <1>3 DEF Disconnect, Reconnect, TypeInv, StatusOK, agent
  <2>2. ServerOK' /\ RequestsOK' /\ StoresOK' /\ QueuesOK' /\ GhostsOK'
    BY <1>3 DEF Disconnect, Reconnect, TypeInv, ServerOK, RequestsOK, StoresOK, QueuesOK,
       GhostsOK, agent, server, ghosts
  <2> QED
    BY <2>1, <2>2 DEF TypeInv
<1>4. ASSUME NEW a \in Agents, Crash(a) PROVE TypeInv'
  <2>1. StatusOK'
    BY <1>4 DEF Crash, TypeInv, StatusOK
  <2>2. StoresOK'
    BY <1>4, NoRulesIs DEF Crash, TypeInv, StoresOK
  <2>3. QueuesOK'
    BY <1>4, NoMessagesType DEF Crash, TypeInv, QueuesOK
  <2>4. GhostsOK'
    BY <1>4 DEF Crash, TypeInv, GhostsOK
  <2>5. ServerOK' /\ RequestsOK'
    BY <1>4 DEF Crash, TypeInv, ServerOK, RequestsOK, server
  <2> QED
    BY <2>1, <2>2, <2>3, <2>4, <2>5 DEF TypeInv
<1> QED
  BY <1>1, <1>2, <1>3, <1>4

\* What a fetch says of the ghosts is a truth value.
LEMMA FetchedType ==
    ASSUME NEW a \in Agents, GhostsOK, Fetched(a)
    PROVE  GhostsOK'
<1> DEFINE m == queue[a] # NoMessages(a) \/ \E h \in Handlers : Outdated(h)
           c == (\A h \in Handlers : request[h] = Idle) /\ queue[a] = NoMessages(a)
<1>1. m \in BOOLEAN /\ c \in BOOLEAN
  BY Zenon
<1>2. missed' = [missed EXCEPT ![a] = m] /\ calm' = [calm EXCEPT ![a] = c]
  BY DEF Fetched
<1> HIDE DEF m, c
<1> QED
  BY <1>1, <1>2 DEF GhostsOK

\* The agent's startup and its server watch.
LEMMA AgentTypes ==
    ASSUME TypeInv, NEW a \in Agents,
           \/ StartFetched(a) \/ StartEmpty(a) \/ StartCached(a) \/ Subscribe(a)
           \/ WatchFails(a) \/ WatchFetches(a) \/ WatchClears(a) \/ WatchDone(a)
           \/ \E i \in Ids : WatchUpserts(a, i)
    PROVE  TypeInv'
<1>1. /\ Visible(a) \in RuleSets /\ store[a] \in RuleSets /\ disk[a] \in RuleSets
      /\ fetched[a] \in RuleSets /\ GhostsOK
  BY VisibleIs DEF TypeInv, ServerOK, StoresOK
<1>2. UNCHANGED <<server, nats>>
  BY DEF StartFetched, StartEmpty, StartCached, Subscribe, WatchFails, WatchFetches, WatchClears,
     WatchDone, WatchUpserts, Loaded
<1>3. ServerOK' /\ RequestsOK' /\ QueuesOK'
  BY <1>2 DEF TypeInv, ServerOK, RequestsOK, QueuesOK, server, nats
<1>4. GhostsOK'
  <2>1. CASE UNCHANGED ghosts
    BY <1>1, <2>1 DEF GhostsOK, ghosts
  <2>2. CASE Fetched(a)
    BY <1>1, <2>2, FetchedType
  <2>3. UNCHANGED ghosts \/ Fetched(a)
    BY DEF StartFetched, StartEmpty, StartCached, Subscribe, WatchFails, WatchFetches,
       WatchClears, WatchDone, WatchUpserts
  <2> QED
    BY <2>1, <2>2, <2>3
<1>5. StatusOK'
  BY <1>2 DEF StartFetched, StartEmpty, StartCached, Subscribe, WatchFails, WatchFetches,
     WatchClears, WatchDone, WatchUpserts, Loaded, TypeInv, StatusOK, nats
<1>6. StoresOK'
  <2>1. CASE StartFetched(a)
    <3>1. /\ UNCHANGED fetched /\ store' = [store EXCEPT ![a] = Visible(a)]
          /\ \/ disk' = [disk EXCEPT ![a] = disk[a]]
             \/ disk' = [disk EXCEPT ![a] = Visible(a)]
      BY <2>1 DEF StartFetched, Loaded
    <3> QED
      BY <1>1, <3>1 DEF TypeInv, StoresOK
  <2>2. CASE StartEmpty(a) \/ StartCached(a)
    BY <1>1, <2>2, NoRulesIs DEF StartEmpty, StartCached, Loaded, TypeInv, StoresOK
  <2>3. CASE Subscribe(a) \/ WatchFails(a) \/ WatchDone(a)
    BY <2>3 DEF Subscribe, WatchFails, WatchDone, TypeInv, StoresOK
  <2>4. CASE WatchFetches(a)
    BY <1>1, <2>4 DEF WatchFetches, TypeInv, StoresOK
  <2>5. CASE WatchClears(a)
    BY <2>5, NoRulesIs DEF WatchClears, Save, TypeInv, StoresOK
  <2>6. ASSUME NEW i \in Ids, WatchUpserts(a, i) PROVE StoresOK'
    <3>1. /\ Put(store[a], i, fetched[a][i]) \in RuleSets
          /\ Without(fetched[a], i) \in RuleSets
      BY <1>1, <2>6, PutIs, WithoutIs, RuleSetElement DEF WatchUpserts
    <3>2. /\ fetched' = [fetched EXCEPT ![a] = Without(fetched[a], i)]
          /\ Save(a, Put(store[a], i, fetched[a][i]))
      BY <2>6 DEF WatchUpserts
    <3> QED
      BY <3>1, <3>2 DEF Save, TypeInv, StoresOK
  <2> QED
    BY <2>1, <2>2, <2>3, <2>4, <2>5, <2>6
<1> QED
  BY <1>3, <1>4, <1>5, <1>6 DEF TypeInv

\* Every step keeps the types.
LEMMA TypeStep == TypeInv /\ [Next]_vars => TypeInv'
<1> SUFFICES ASSUME TypeInv, [Next]_vars PROVE TypeInv'
  OBVIOUS
<1>1. CASE UNCHANGED vars
  BY <1>1 DEF TypeInv, ServerOK, RequestsOK, StoresOK, StatusOK, QueuesOK, GhostsOK, vars,
     server, agent, nats, ghosts
<1>2. CASE Next
  BY <1>2, RequestTypes, QueueTypes, EnvironmentTypes, AgentTypes DEF Next, Ids
<1> QED
  BY <1>1, <1>2

\* Type correctness of the rules on their way from the database to the agents
\* (policy.go:8-17, store.go:12-16, handlers.go:58-180).
THEOREM SyncTypeCorrect == Spec => []TypeOK
BY TypeInit, TypeStep, TypeInvImplies, PTL DEF Spec

-----------------------------------------------------------------------------
(* The inductive invariants. *)

\* A message is in a queue of its kind that its topic matches.
Routed ==
    \A a \in Agents : \A ch \in Channels(a) : \A n \in 1 .. Len(queue[a][ch]) :
        /\ queue[a][ch][n].kind = ch[1]
        /\ Matches(ch[2], queue[a][ch][n].rule.topic)

\* Only a running agent reloads.
Reloads == \A a \in Agents : watch[a] # "idle" => phase[a] = "running"

\* After a fetch with nothing on its way, the agent has what it fetched, or has
\* it in parts: what it upserted and what it has still to upsert.
Calm(a) ==
    /\ phase[a] # "down"
    /\ queue[a] = NoMessages(a)
    /\ \A h \in Handlers : request[h].step # "publish"
    /\ watch[a] = "idle" => store[a] = Visible(a)
    /\ watch[a] = "clear" => fetched[a] = Visible(a)
    /\ watch[a] = "upsert" =>
         /\ DOMAIN store[a] \cup DOMAIN fetched[a] = DOMAIN Visible(a)
         /\ \A i \in DOMAIN store[a] : store[a][i] = db[i]
         /\ \A i \in DOMAIN fetched[a] : fetched[a][i] = db[i]

Calmly == \A a \in Agents : calm[a] => Calm(a)

\* Nothing on its way mentions a rule not yet created, and a deletion on its
\* way is of a rule that is gone for good.
Past(c, last, rows) == c.id <= last /\ (c.kind = "delete" => c.id \notin DOMAIN rows)

Published(c) == Past(c, serial, db)

Deletions ==
    /\ \A h \in Handlers : request[h].step = "publish" => Published(request[h].change)
    /\ \A h \in Handlers : request[h].step = "delete" =>
          request[h].change.kind = "delete" /\ request[h].change.id <= serial
    /\ \A a \in Agents : \A ch \in Channels(a) : \A n \in 1 .. Len(queue[a][ch]) :
          Published(queue[a][ch][n])

\* A request has yet to publish the current version of rule i.
Pending(i) == \E h \in Handlers : request[h].step = "publish" /\ request[h].change.id = i

\* The newest message about rule i in the queue q carries r; there is none.
Newest(q, i, r) ==
    \E n \in 1 .. Len(q) : /\ q[n].id = i /\ q[n].rule = r
                           /\ \A m \in n + 1 .. Len(q) : q[m].id # i

Silent(q, i) == \A n \in 1 .. Len(q) : q[n].id # i

\* Agent a has, or will have without a further change, the row of rule i.
Underway(a, i) ==
    \/ Pending(i)
    \/ watch[a] = "idle" /\ Newest(queue[a][<<"update", db[i].topic>>], i, db[i])
    \/ /\ watch[a] = "idle" /\ Silent(queue[a][<<"update", db[i].topic>>], i)
       /\ i \in DOMAIN store[a] /\ store[a][i] = db[i]
    \/ watch[a] = "clear" /\ i \in DOMAIN fetched[a] /\ fetched[a][i] = db[i]
    \/ watch[a] = "upsert" /\ i \in DOMAIN fetched[a] /\ fetched[a][i] = db[i]
    \/ /\ watch[a] = "upsert" /\ i \notin DOMAIN fetched[a]
       /\ i \in DOMAIN store[a] /\ store[a][i] = db[i]

\* An agent that missed nothing: versions on their way are current, messages
\* carry the topic the rule still has, none wait while it reloads.
InStep(a) ==
    /\ phase[a] # "down"
    /\ \A h \in Handlers : ~Outdated(h)
    /\ watch[a] # "idle" => queue[a] = NoMessages(a)
    /\ \A ch \in Channels(a) : \A n \in 1 .. Len(queue[a][ch]) :
         queue[a][ch][n].id \in DOMAIN db =>
            queue[a][ch][n].rule.topic = db[queue[a][ch][n].id].topic
    /\ \A i \in DOMAIN Visible(a) : Underway(a, i)

Reached == \A a \in Agents : ~missed[a] => InStep(a)

-----------------------------------------------------------------------------
(* Messages. *)

\* The messages left after one was taken.
LEMMA TailAt ==
    ASSUME NEW S, NEW q \in Seq(S), q # <<>>
    PROVE  /\ Tail(q) \in Seq(S) /\ Head(q) = q[1] /\ 1 \in 1 .. Len(q)
           /\ Len(Tail(q)) = Len(q) - 1 /\ Len(q) \in Nat
           /\ \A n \in 1 .. Len(Tail(q)) : Tail(q)[n] = q[n + 1] /\ n + 1 \in 1 .. Len(q)
OBVIOUS

\* The messages after one was added.
LEMMA AppendAt ==
    ASSUME NEW S, NEW q \in Seq(S), NEW c \in S
    PROVE  /\ Append(q, c) \in Seq(S) /\ Len(Append(q, c)) = Len(q) + 1 /\ Len(q) \in Nat
           /\ Append(q, c)[Len(q) + 1] = c
           /\ \A n \in 1 .. Len(q) : Append(q, c)[n] = q[n]
OBVIOUS

\* A queue of a typed state.
LEMMA QueueIs ==
    ASSUME TypeInv, NEW a \in Agents, NEW ch \in Channels(a)
    PROVE  /\ queue[a][ch] \in Seq(Change) /\ Len(queue[a][ch]) \in Nat
           /\ \A n \in 1 .. Len(queue[a][ch]) :
                /\ queue[a][ch][n] \in Change
                /\ queue[a][ch][n].id \in Ids /\ queue[a][ch][n].rule \in Rule
<1>1. queue[a][ch] \in Seq(Change)
  BY DEF TypeInv, QueuesOK
<1>2. \A c \in Change : c.id \in Ids /\ c.rule \in Rule
  BY DEF Change, Ids
<1> QED
  BY <1>1, <1>2

\* Agent a takes a message from its channel ch.
Takes(a, ch) ==
    /\ queue[a][ch] # <<>>
    /\ queue' = [queue EXCEPT ![a][ch] = Tail(@)]

\* Which queues change, and how.
LEMMA TakesIs ==
    ASSUME TypeInv, NEW a \in Agents, NEW ch \in Channels(a), Takes(a, ch),
           NEW b \in Agents, NEW d \in Channels(b)
    PROVE  queue'[b][d] = IF b = a /\ d = ch THEN Tail(queue[a][ch]) ELSE queue[b][d]
<1>1. DOMAIN queue = Agents /\ d \in DOMAIN queue[b]
  BY DEF TypeInv, QueuesOK
<1> QED
  BY <1>1 DEF Takes

\* The agents whose channel ch the publication of c reaches.
Hears(a, ch, c) == Listening(a) /\ ch[1] = c.kind /\ Matches(ch[2], c.rule.topic)

\* Which queues a publication changes, and how.
LEMMA PublishIs ==
    ASSUME NEW h \in Handlers, Publish(h), NEW a \in Agents, NEW ch \in Channels(a)
    PROVE  queue'[a][ch] = IF Hears(a, ch, request[h].change)
                           THEN Append(queue[a][ch], request[h].change) ELSE queue[a][ch]
BY DEF Publish, Hears

\* Both handlers take a message.
LEMMA HandleTakes ==
    ASSUME NEW a \in Agents, NEW s \in Subjects(a)
    PROVE  /\ <<"update", s>> \in Channels(a) /\ <<"delete", s>> \in Channels(a)
           /\ HandleUpdate(a, s) => Takes(a, <<"update", s>>)
           /\ HandleDelete(a, s) => Takes(a, <<"delete", s>>)
BY DEF HandleUpdate, HandleDelete, Takes, Channels

\* The steps that touch no queue.
LEMMA QueueKept ==
    ASSUME [Next]_vars,
           \A h \in Handlers : ~Publish(h),
           \A a \in Agents : ~Crash(a),
           \A a \in Agents : \A s \in Subjects(a) : ~HandleUpdate(a, s) /\ ~HandleDelete(a, s)
    PROVE  queue' = queue
<1>1. CASE UNCHANGED vars
  BY <1>1 DEF vars, nats
<1>2. ASSUME NEW h \in Handlers,
             \/ \E r \in Rule : CreateRule(h, r)
             \/ \E i \in 1 .. MaxIds, r \in Rule : UpdateRule(h, i, r)
             \/ \E i \in 1 .. MaxIds : ReadForDelete(h, i)
             \/ DeleteRow(h) \/ DeleteNothing(h)
      PROVE  queue' = queue
  BY <1>2 DEF CreateRule, UpdateRule, ReadForDelete, DeleteRow, DeleteNothing, Commit, nats
<1>3. CASE (\E o \in {"server", "database"} : Fail(o)) \/ Repair
  BY <1>3 DEF Fail, Repair, nats
<1>4. ASSUME NEW a \in Agents, Disconnect(a) \/ Reconnect(a) PROVE queue' = queue
  BY <1>4 DEF Disconnect, Reconnect
<1>5. ASSUME NEW a \in Agents,
             \/ StartFetched(a) \/ StartEmpty(a) \/ StartCached(a) \/ Subscribe(a)
             \/ WatchFails(a) \/ WatchFetches(a) \/ WatchClears(a) \/ WatchDone(a)
             \/ \E i \in 1 .. MaxIds : WatchUpserts(a, i)
      PROVE  queue' = queue
  BY <1>5 DEF StartFetched, StartEmpty, StartCached, Subscribe, WatchFails, WatchFetches,
     WatchClears, WatchDone, WatchUpserts, Loaded, nats
<1> QED
  BY <1>1, <1>2, <1>3, <1>4, <1>5 DEF Next

\* A message in a queue was there before the step, or is being published.
LEMMA MessageOrigin ==
    ASSUME TypeInv, [Next]_vars, NEW a \in Agents, NEW ch \in Channels(a),
           NEW n \in 1 .. Len(queue'[a][ch])
    PROVE  \/ \E m \in 1 .. Len(queue[a][ch]) : queue'[a][ch][n] = queue[a][ch][m]
           \/ \E h \in Handlers : /\ Publish(h) /\ Hears(a, ch, request[h].change)
                                 /\ queue'[a][ch][n] = request[h].change
<1> DEFINE Old == \E m \in 1 .. Len(queue[a][ch]) : queue'[a][ch][n] = queue[a][ch][m]
<1>1. queue[a][ch] \in Seq(Change)
  BY QueueIs
<1>2. ASSUME queue'[a][ch] = queue[a][ch] PROVE Old
  BY <1>2
<1>3. ASSUME NEW h \in Handlers, Publish(h)
      PROVE  \/ Old
             \/ Hears(a, ch, request[h].change) /\ queue'[a][ch][n] = request[h].change
  <2> DEFINE c == request[h].change
  <2>1. c \in Change
    BY <1>3, RequestIs DEF Publish, Idle, TypeInv
  <2>2. CASE Hears(a, ch, c)
    <3>1. queue'[a][ch] = Append(queue[a][ch], c)
      BY <1>3, <2>2, PublishIs
    <3> HIDE DEF c
    <3>2. n \in 1 .. Len(queue[a][ch]) \/ n = Len(queue[a][ch]) + 1
      BY <1>1, <2>1, <3>1, AppendAt
    <3>3. CASE n \in 1 .. Len(queue[a][ch])
      <4>1. queue'[a][ch][n] = queue[a][ch][n]
        BY <1>1, <2>1, <3>1, <3>3, AppendAt
      <4> QED
        BY <3>3, <4>1
    <3>4. CASE n = Len(queue[a][ch]) + 1
      <4>1. queue'[a][ch][n] = c
        BY <1>1, <2>1, <3>1, <3>4, AppendAt
      <4> QED
        BY <2>2, <4>1 DEF c
    <3> QED
      BY <3>2, <3>3, <3>4
  <2>3. CASE ~Hears(a, ch, c)
    <3>1. queue'[a][ch] = queue[a][ch]
      BY <1>3, <2>3, PublishIs
    <3> QED
      BY <1>2, <3>1
  <2> QED
    BY <2>2, <2>3
<1>4. ASSUME NEW b \in Agents, NEW d \in Channels(b), Takes(b, d) PROVE Old
  <2>1. CASE b = a /\ d = ch
    <3>1. queue'[a][ch] = Tail(queue[a][ch]) /\ queue[a][ch] # <<>>
      <4>1. queue'[a][ch] = Tail(queue[a][ch])
        BY <1>4, <2>1, TakesIs
      <4> QED
        BY <1>4, <2>1, <4>1 DEF Takes
    <3>2. queue'[a][ch][n] = queue[a][ch][n + 1] /\ n + 1 \in 1 .. Len(queue[a][ch])
      BY <1>1, <3>1, TailAt
    <3> QED
      BY <3>2
  <2>2. CASE ~(b = a /\ d = ch)
    <3>1. queue'[a][ch] = queue[a][ch]
      BY <1>4, <2>2, TakesIs
    <3> QED
      BY <1>2, <3>1
  <2> QED
    BY <2>1, <2>2
<1>5. ASSUME NEW b \in Agents, Crash(b) PROVE Old
  <2>1. CASE b = a
    <3>1. queue'[a] = NoMessages(a)
      BY <1>5, <2>1 DEF Crash, TypeInv, QueuesOK
    <3>2. Len(queue'[a][ch]) = 0
      BY <3>1 DEF NoMessages
    <3> QED
      BY <3>2
  <2>2. CASE b # a
    <3>1. queue'[a][ch] = queue[a][ch]
      BY <1>5, <2>2 DEF Crash
    <3> QED
      BY <1>2, <3>1
  <2> QED
    BY <2>1, <2>2
<1>6. CASE queue' = queue
  BY <1>2, <1>6
<1> QED
  BY <1>3, <1>4, <1>5, <1>6, HandleTakes, QueueKept

-----------------------------------------------------------------------------
(* An agent with a topic holds only rules meant for it. *)

\* The queues are empty at the start.
LEMMA InitQueues ==
    ASSUME Init, NEW a \in Agents, NEW ch \in Channels(a)
    PROVE  Len(queue[a][ch]) = 0
BY DEF Init, NoMessages

\* Messages stay in the queues they were delivered to.
LEMMA RoutedInductive == (Init => Routed) /\ (TypeInv /\ Routed /\ [Next]_vars => Routed')
<1>1. Init => Routed
  BY InitQueues DEF Routed
<1>2. ASSUME TypeInv, Routed, [Next]_vars PROVE Routed'
  <2> SUFFICES ASSUME NEW a \in Agents, NEW ch \in Channels(a), NEW n \in 1 .. Len(queue'[a][ch])
               PROVE  /\ queue'[a][ch][n].kind = ch[1]
                      /\ Matches(ch[2], queue'[a][ch][n].rule.topic)
    BY DEF Routed, Channels, Subjects, Matches
  <2>1. CASE \E m \in 1 .. Len(queue[a][ch]) : queue'[a][ch][n] = queue[a][ch][m]
    BY <1>2, <2>1 DEF Routed
  <2>2. CASE \E h \in Handlers : /\ Publish(h) /\ Hears(a, ch, request[h].change)
                               /\ queue'[a][ch][n] = request[h].change
    BY <2>2 DEF Hears
  <2> QED
    BY <1>2, <2>1, <2>2, MessageOrigin
<1> QED
  BY <1>1, <1>2

\* The rules rs are meant for agent a.
Own(a, rs) == \A i \in DOMAIN rs : rs[i].topic \in {Global, TopicOf[a], a}

\* OwnRulesOnly, one rule set at a time, in both states of a step.
LEMMA OwnRules ==
    /\ OwnRulesOnly <=> \A a \in Agents : TopicOf[a] # Global =>
                           Own(a, store[a]) /\ Own(a, disk[a]) /\ Own(a, fetched[a])
    /\ OwnRulesOnly' <=> \A a \in Agents : TopicOf[a] # Global =>
                           Own(a, store'[a]) /\ Own(a, disk'[a]) /\ Own(a, fetched'[a])
BY DEF OwnRulesOnly, Own

\* An update on its way to an agent with a topic is meant for it.
LEMMA OwnMessage ==
    ASSUME TypeInv, Routed, NEW a \in Agents, TopicOf[a] # Global, NEW s \in Subjects(a),
           NEW k \in {"update", "delete"}, queue[a][<<k, s>>] # <<>>
    PROVE  Head(queue[a][<<k, s>>]).rule.topic \in {Global, TopicOf[a], a}
<1>1. s \in {Global, TopicOf[a], a}
  BY DEF Subjects
<1>2. s # Everything
  <2>1. TopicOf[a] \in Range(TopicOf)
    BY RuleSyncAssumption DEF Range
  <2> QED
    BY <1>1, <2>1, RuleSyncAssumption
<1>3. <<k, s>> \in Channels(a)
  BY DEF Channels
<1>4. /\ Head(queue[a][<<k, s>>]) = queue[a][<<k, s>>][1]
      /\ 1 \in 1 .. Len(queue[a][<<k, s>>])
  BY <1>3, QueueIs, TailAt
<1>5. Matches(s, Head(queue[a][<<k, s>>]).rule.topic)
  BY <1>3, <1>4 DEF Routed
<1> QED
  BY <1>1, <1>2, <1>5 DEF Matches

\* The steps that touch no rule set of an agent, and the others.
LEMMA StoresKept ==
    ASSUME [Next]_vars
    PROVE  \/ UNCHANGED <<store, disk, fetched>>
           \/ \E b \in Agents :
                 \/ \E s \in Subjects(b) : HandleUpdate(b, s) \/ HandleDelete(b, s)
                 \/ Crash(b) \/ StartFetched(b) \/ StartEmpty(b) \/ StartCached(b)
                 \/ WatchFetches(b) \/ WatchClears(b)
                 \/ \E i \in Ids : WatchUpserts(b, i)
<1> DEFINE Kept == UNCHANGED <<store, disk, fetched>>
<1>1. CASE UNCHANGED vars
  BY <1>1 DEF vars, agent
<1>2. ASSUME NEW h \in Handlers,
             \/ \E r \in Rule : CreateRule(h, r)
             \/ \E i \in 1 .. MaxIds, r \in Rule : UpdateRule(h, i, r)
             \/ \E i \in 1 .. MaxIds : ReadForDelete(h, i)
             \/ DeleteRow(h) \/ DeleteNothing(h) \/ Publish(h)
      PROVE  Kept
  BY <1>2 DEF CreateRule, UpdateRule, ReadForDelete, DeleteRow, DeleteNothing, Publish, Commit, agent
<1>3. CASE (\E o \in {"server", "database"} : Fail(o)) \/ Repair
  BY <1>3 DEF Fail, Repair, agent
<1>4. ASSUME NEW a \in Agents,
             Disconnect(a) \/ Reconnect(a) \/ Subscribe(a) \/ WatchFails(a) \/ WatchDone(a)
      PROVE  Kept
  BY <1>4 DEF Disconnect, Reconnect, Subscribe, WatchFails, WatchDone, agent
<1> QED
  BY <1>1, <1>2, <1>3, <1>4 DEF Next, Ids

\* Whatever requests race and whatever is lost, an agent with a topic holds, in
\* memory and on disk, no rule for anybody else: filterRules and the subjects
\* agree on what is meant for it (agent.go:283-291, listener.go:50-59).
THEOREM ForeignRulesNeverHeld == Spec => []OwnRulesOnly
<1>1. Init => OwnRulesOnly
  BY NoRulesIs, OwnRules DEF Init, Own
<1>2. TypeInv /\ Routed /\ OwnRulesOnly /\ [Next]_vars => OwnRulesOnly'
  <2> SUFFICES ASSUME TypeInv, Routed, OwnRulesOnly, [Next]_vars,
                      NEW a \in Agents, TopicOf[a] # Global
               PROVE  Own(a, store'[a]) /\ Own(a, disk'[a]) /\ Own(a, fetched'[a])
    BY OwnRules
  <2>1. /\ Own(a, store[a]) /\ Own(a, disk[a]) /\ Own(a, fetched[a])
        /\ store[a] \in RuleSets /\ disk[a] \in RuleSets /\ fetched[a] \in RuleSets
    BY OwnRules DEF TypeInv, StoresOK
  <2>2. Own(a, NoRules) /\ Own(a, Visible(a))
    <3>1. Own(a, NoRules)
      BY NoRulesIs DEF Own
    <3>2. db \in RuleSets
      BY DEF TypeInv, ServerOK
    <3>3. ASSUME NEW i \in DOMAIN Visible(a)
          PROVE  Visible(a)[i].topic \in {Global, TopicOf[a], a}
      <4>1. /\ DOMAIN Visible(a) = {j \in DOMAIN db : db[j].topic \in {Global, TopicOf[a]}}
            /\ \A j \in DOMAIN Visible(a) : Visible(a)[j] = db[j]
        BY <3>2, VisibleIs
      <4> QED
        BY <3>3, <4>1
    <3> QED
      BY <3>1, <3>3 DEF Own
  <2>3. ASSUME NEW i PROVE Own(a, Without(store[a], i)) /\ Own(a, Without(fetched[a], i))
    <3>1. ASSUME NEW rs \in RuleSets, Own(a, rs) PROVE Own(a, Without(rs, i))
      <4>1. /\ DOMAIN Without(rs, i) \subseteq DOMAIN rs
            /\ \A j \in DOMAIN Without(rs, i) : Without(rs, i)[j] = rs[j]
        BY WithoutIs
      <4> QED
        BY <3>1, <4>1 DEF Own
    <3> QED
      BY <2>1, <3>1
  <2>4. ASSUME NEW i \in Ids, NEW r \in Rule, r.topic \in {Global, TopicOf[a], a}
        PROVE  Own(a, Put(store[a], i, r))
    <3>1. /\ DOMAIN Put(store[a], i, r) = DOMAIN store[a] \cup {i}
          /\ \A j \in DOMAIN Put(store[a], i, r) :
               Put(store[a], i, r)[j] = IF j = i THEN r ELSE store[a][j]
      BY DEF Put
    <3> QED
      BY <2>1, <2>4, <3>1 DEF Own
  <2>5. CASE UNCHANGED <<store, disk, fetched>>
    BY <2>1, <2>5
  <2>6. ASSUME NEW b \in Agents, NEW rs, Save(b, rs), b = a => Own(a, rs), fetched' = fetched
        PROVE  Own(a, store'[a]) /\ Own(a, disk'[a]) /\ Own(a, fetched'[a])
    BY <2>1, <2>6 DEF Save, TypeInv, StoresOK
  <2>7. ASSUME NEW b \in Agents, NEW s \in Subjects(b), HandleUpdate(b, s)
        PROVE  Own(a, store'[a]) /\ Own(a, disk'[a]) /\ Own(a, fetched'[a])
    <3> DEFINE m == Head(queue[b][<<"update", s>>])
               rs == Put(store[b], m.id, m.rule)
    <3>1. Save(b, rs) /\ queue[b][<<"update", s>>] # <<>> /\ fetched' = fetched
      BY <2>7 DEF HandleUpdate
    <3>2. ASSUME b = a PROVE Own(a, rs)
      <4>1. m.rule.topic \in {Global, TopicOf[a], a}
        BY <3>1, <3>2, OwnMessage
      <4>2. m.id \in Ids /\ m.rule \in Rule
        <5>1. <<"update", s>> \in Channels(b)
          BY HandleTakes
        <5>2. m \in Change
          BY <3>1, <5>1, QueueIs, TailAt
        <5> QED
          BY <5>2 DEF Change, Ids
      <4> QED
        BY <2>4, <3>2, <4>1, <4>2
    <3> QED
      BY <2>6, <3>1, <3>2
  <2>8. ASSUME NEW b \in Agents, NEW s \in Subjects(b), HandleDelete(b, s)
        PROVE  Own(a, store'[a]) /\ Own(a, disk'[a]) /\ Own(a, fetched'[a])
    <3>1. fetched' = fetched /\ (UNCHANGED <<store, disk>> \/ \E i : Save(b, Without(store[b], i)))
      BY <2>8 DEF HandleDelete
    <3> QED
      BY <2>3, <2>5, <2>6, <3>1
  <2>9. ASSUME NEW b \in Agents, Crash(b)
        PROVE  Own(a, store'[a]) /\ Own(a, disk'[a]) /\ Own(a, fetched'[a])
    BY <2>1, <2>2, <2>9 DEF Crash, TypeInv, StoresOK
  <2>10. ASSUME NEW b \in Agents, StartFetched(b) \/ StartEmpty(b) \/ StartCached(b)
        PROVE  Own(a, store'[a]) /\ Own(a, disk'[a]) /\ Own(a, fetched'[a])
    <3>1. /\ fetched' = fetched
          /\ \E rs \in {Visible(b), NoRules, disk[b]} : store' = [store EXCEPT ![b] = rs]
          /\ \E rs \in {Visible(b), disk[b]} : disk' = [disk EXCEPT ![b] = rs]
      BY <2>10 DEF StartFetched, StartEmpty, StartCached, Loaded, TypeInv, StoresOK
    <3> QED
      BY <2>1, <2>2, <3>1 DEF TypeInv, StoresOK
  <2>11. ASSUME NEW b \in Agents, WatchFetches(b)
        PROVE  Own(a, store'[a]) /\ Own(a, disk'[a]) /\ Own(a, fetched'[a])
    BY <2>1, <2>2, <2>11 DEF WatchFetches, TypeInv, StoresOK
  <2>12. ASSUME NEW b \in Agents, WatchClears(b)
        PROVE  Own(a, store'[a]) /\ Own(a, disk'[a]) /\ Own(a, fetched'[a])
    BY <2>2, <2>6, <2>12 DEF WatchClears
  <2>13. ASSUME NEW b \in Agents, NEW i \in Ids, WatchUpserts(b, i)
        PROVE  Own(a, store'[a]) /\ Own(a, disk'[a]) /\ Own(a, fetched'[a])
    <3>1. /\ i \in DOMAIN fetched[b] /\ Save(b, Put(store[b], i, fetched[b][i]))
          /\ fetched' = [fetched EXCEPT ![b] = Without(fetched[b], i)]
      BY <2>13 DEF WatchUpserts
    <3>2. CASE b = a
      <4>1. fetched[a][i] \in Rule /\ fetched[a][i].topic \in {Global, TopicOf[a], a}
        BY <2>1, <3>1, <3>2, RuleSetElement DEF Own
      <4>2. Own(a, Put(store[a], i, fetched[a][i])) /\ Own(a, Without(fetched[a], i))
        BY <2>3, <2>4, <4>1
      <4> QED
        BY <3>1, <3>2, <4>2 DEF Save, TypeInv, StoresOK
    <3>3. CASE b # a
      BY <2>1, <3>1, <3>3 DEF Save, TypeInv, StoresOK
    <3> QED
      BY <3>2, <3>3
  <2>14. \/ UNCHANGED <<store, disk, fetched>>
         \/ \E b \in Agents :
               \/ \E s \in Subjects(b) : HandleUpdate(b, s) \/ HandleDelete(b, s)
               \/ Crash(b) \/ StartFetched(b) \/ StartEmpty(b) \/ StartCached(b)
               \/ WatchFetches(b) \/ WatchClears(b)
               \/ \E i \in Ids : WatchUpserts(b, i)
    BY StoresKept
  <2> QED
    BY <2>5, <2>7, <2>8, <2>9, <2>10, <2>11, <2>12, <2>13, <2>14
<1> QED
  BY <1>1, <1>2, TypeInit, TypeStep, RoutedInductive, PTL DEF Spec

-----------------------------------------------------------------------------
(* A step as one agent sees it. *)

\* What the invariants say of agent a is about this.
View(a) == <<db, serial, request, phase[a], watch[a], store[a], fetched[a], queue[a],
             calm[a], missed[a]>>

\* A request changes the row of rule i, to r if it is still there.
Commits(h, i, r, k) ==
    /\ request[h].step # "publish"
    /\ request' = [request EXCEPT ![h] =
           [step |-> "publish", change |-> [kind |-> k, id |-> i, rule |-> r]]]
    /\ UNCHANGED <<phase, watch, store, fetched, queue>>
    /\ calm' = [a \in Agents |-> FALSE]
    /\ missed' = [a \in Agents |-> missed[a] \/ Overlaps(i, r)]
    /\ DOMAIN db' \ {i} = DOMAIN db \ {i}
    /\ \A j \in DOMAIN db' : j # i => db'[j] = db[j]
    /\ i \in DOMAIN db' => db'[i] = r
    /\ k = "delete" => i \notin DOMAIN db'
    /\ i <= serial' /\ serial <= serial'
    /\ i \in DOMAIN db \/ i > serial

\* The three requests that change the table.
LEMMA CommitsOf ==
    ASSUME TypeInv, NEW h \in Handlers,
           \/ \E r \in Rule : CreateRule(h, r)
           \/ \E i \in Ids, r \in Rule : UpdateRule(h, i, r)
           \/ DeleteRow(h)
    PROVE  \E i \in Ids, r \in Rule, k \in {"update", "delete"} : Commits(h, i, r, k)
<1>1. /\ db \in RuleSets /\ serial \in Nat /\ DOMAIN db \subseteq 1 .. serial
      /\ serial <= MaxIds /\ MaxIds \in Nat
  BY RuleSyncAssumption DEF TypeInv, ServerOK
<1>2. Idle.step # "publish"
  BY DEF Idle
<1>3. ASSUME NEW i \in Ids, NEW r \in Rule, NEW k \in {"update", "delete"}, NEW rows,
             Commit(h, rows, k, i, r), request[h].step # "publish",
             DOMAIN rows \ {i} = DOMAIN db \ {i},
             \A j \in DOMAIN rows : j # i => rows[j] = db[j],
             i \in DOMAIN rows => rows[i] = r,
             k = "delete" => i \notin DOMAIN rows,
             i <= serial', serial <= serial', i \in DOMAIN db \/ i > serial
      PROVE  Commits(h, i, r, k)
  BY <1>3 DEF Commits, Commit, agent, nats
<1>4. ASSUME NEW r \in Rule, CreateRule(h, r)
      PROVE  \E i \in Ids, q \in Rule, k \in {"update", "delete"} : Commits(h, i, q, k)
  <2> DEFINE i == serial'
             rows == Put(db, i, r)
  <2>1. /\ serial' = serial + 1 /\ serial < MaxIds /\ request[h].step # "publish"
        /\ Commit(h, rows, "update", i, r)
    BY <1>2, <1>4 DEF CreateRule
  <2>2. i \in Ids /\ i > serial /\ serial <= serial'
    BY <1>1, <2>1 DEF Ids
  <2>3. /\ DOMAIN rows = DOMAIN db \cup {i}
        /\ \A j \in DOMAIN rows : rows[j] = IF j = i THEN r ELSE db[j]
    BY DEF Put
  <2>4. i <= serial'
    BY <1>1, <2>1
  <2> HIDE DEF rows, i
  <2>5. Commits(h, i, r, "update")
    BY <1>3, <2>1, <2>2, <2>3, <2>4
  <2> QED
    BY <2>2, <2>5
<1>5. ASSUME NEW i \in Ids, NEW r \in Rule, UpdateRule(h, i, r) PROVE Commits(h, i, r, "update")
  <2> DEFINE rows == Put(db, i, r)
  <2>1. /\ serial' = serial /\ i \in DOMAIN db /\ request[h].step # "publish"
        /\ Commit(h, rows, "update", i, r)
    BY <1>2, <1>5 DEF UpdateRule
  <2>2. i <= serial' /\ serial <= serial'
    BY <1>1, <2>1
  <2>3. /\ DOMAIN rows = DOMAIN db \cup {i}
        /\ \A j \in DOMAIN rows : rows[j] = IF j = i THEN r ELSE db[j]
    BY DEF Put
  <2> HIDE DEF rows
  <2> QED
    BY <1>3, <2>1, <2>2, <2>3
<1>6. CASE DeleteRow(h)
  <2> DEFINE c == request[h].change
             rows == Without(db, c.id)
  <2>1. /\ serial' = serial /\ c.id \in DOMAIN db /\ request[h].step = "delete"
        /\ Commit(h, rows, "delete", c.id, c.rule)
    BY <1>6 DEF DeleteRow
  <2>2. c.id \in Ids /\ c.rule \in Rule
    BY <2>1, RequestIs DEF Idle, TypeInv
  <2>3. /\ DOMAIN rows = DOMAIN db \ {c.id}
        /\ \A j \in DOMAIN rows : rows[j] = db[j]
    BY DEF Without, Restrict
  <2>4. c.id <= serial' /\ serial <= serial'
    BY <1>1, <2>1
  <2> HIDE DEF c, rows
  <2>5. Commits(h, c.id, c.rule, "delete")
    BY <1>3, <2>1, <2>2, <2>3, <2>4
  <2> QED
    BY <2>2, <2>5
<1> QED
  BY <1>4, <1>5, <1>6

\* The steps of agent b that change its view.
AgentStep(b) ==
    \/ Crash(b) \/ StartFetched(b) \/ StartEmpty(b) \/ StartCached(b) \/ Subscribe(b)
    \/ \E s \in Subjects(b) : HandleUpdate(b, s) \/ HandleDelete(b, s)
    \/ WatchFetches(b) \/ WatchClears(b) \/ WatchDone(b)
    \/ \E i \in Ids : WatchUpserts(b, i)

\* They leave alone what the other agents see.
LEMMA OthersKept ==
    ASSUME TypeInv, NEW a \in Agents, NEW b \in Agents, a # b, AgentStep(b)
    PROVE  UNCHANGED View(a)
<1>1. /\ DOMAIN phase = Agents /\ DOMAIN watch = Agents /\ DOMAIN store = Agents
      /\ DOMAIN fetched = Agents /\ DOMAIN queue = Agents /\ DOMAIN calm = Agents
      /\ DOMAIN missed = Agents
  BY DEF TypeInv, StoresOK, StatusOK, QueuesOK, GhostsOK
<1>2. CASE Crash(b)
  BY <1>1, <1>2 DEF Crash, server, View
<1>3. CASE StartFetched(b)
  BY <1>1, <1>3 DEF StartFetched, Loaded, Fetched, server, nats, View
<1>4. CASE StartEmpty(b) \/ StartCached(b)
  BY <1>1, <1>4 DEF StartEmpty, StartCached, Loaded, server, nats, ghosts, View
<1>5. CASE Subscribe(b)
  BY <1>1, <1>5 DEF Subscribe, server, nats, ghosts, View
<1>6. ASSUME NEW s \in Subjects(b), HandleUpdate(b, s) PROVE UNCHANGED View(a)
  BY <1>1, <1>6 DEF HandleUpdate, Save, server, ghosts, View
<1>7. ASSUME NEW s \in Subjects(b), HandleDelete(b, s) PROVE UNCHANGED View(a)
  BY <1>1, <1>7 DEF HandleDelete, Save, server, ghosts, View
<1>8. CASE WatchFetches(b)
  BY <1>1, <1>8 DEF WatchFetches, Fetched, server, nats, View
<1>9. CASE WatchClears(b) \/ WatchDone(b)
  BY <1>1, <1>9 DEF WatchClears, WatchDone, Save, server, nats, ghosts, View
<1>10. ASSUME NEW i \in Ids, WatchUpserts(b, i) PROVE UNCHANGED View(a)
  BY <1>1, <1>10 DEF WatchUpserts, Save, server, nats, ghosts, View
<1> QED
  BY <1>2, <1>3, <1>4, <1>5, <1>6, <1>7, <1>8, <1>9, <1>10 DEF AgentStep

\* A step is one of agent a, one of a request, a failure, or none a can see.
LEMMA StepsSeen ==
    ASSUME TypeInv, [Next]_vars, NEW a \in Agents
    PROVE  \/ UNCHANGED View(a)
           \/ AgentStep(a)
           \/ \E o \in {"server", "database"} : Fail(o)
           \/ \E h \in Handlers :
                 \/ \E i \in Ids, r \in Rule, k \in {"update", "delete"} : Commits(h, i, r, k)
                 \/ (\E i \in Ids : ReadForDelete(h, i)) \/ DeleteNothing(h) \/ Publish(h)
<1>1. CASE UNCHANGED vars \/ Repair
  BY <1>1 DEF vars, Repair, server, agent, nats, ghosts, View
<1>2. ASSUME NEW b \in Agents, Disconnect(b) \/ Reconnect(b) \/ WatchFails(b)
      PROVE  UNCHANGED View(a)
  BY <1>2 DEF Disconnect, Reconnect, WatchFails, server, agent, nats, ghosts, View
<1>3. ASSUME NEW b \in Agents, AgentStep(b)
      PROVE  UNCHANGED View(a) \/ AgentStep(a)
  BY <1>3, OthersKept
<1>4. ASSUME NEW h \in Handlers,
             \/ \E r \in Rule : CreateRule(h, r)
             \/ \E i \in 1 .. MaxIds, r \in Rule : UpdateRule(h, i, r)
             \/ DeleteRow(h)
      PROVE  \E i \in Ids, r \in Rule, k \in {"update", "delete"} : Commits(h, i, r, k)
  BY <1>4, CommitsOf DEF Ids
<1> QED
  BY <1>1, <1>2, <1>3, <1>4 DEF Next, Ids, AgentStep

-----------------------------------------------------------------------------
(* An agent for which nothing has changed since it fetched. *)

\* Only a running agent reloads.
LEMMA ReloadsInductive ==
    (Init => Reloads) /\ (TypeInv /\ Reloads /\ [Next]_vars => Reloads')
<1>1. Init => Reloads
  BY DEF Init, Reloads
<1>2. ASSUME TypeInv, Reloads, [Next]_vars PROVE Reloads'
  <2> SUFFICES ASSUME NEW a \in Agents PROVE watch'[a] # "idle" => phase'[a] = "running"
    BY DEF Reloads
  <2>1. watch[a] # "idle" => phase[a] = "running"
    BY <1>2 DEF Reloads
  <2>2. CASE UNCHANGED View(a)
    BY <2>1, <2>2 DEF View
  <2>3. CASE AgentStep(a)
    <3>1. a \in DOMAIN phase /\ a \in DOMAIN watch
      BY <1>2 DEF TypeInv, StatusOK
    <3>2. CASE Crash(a)
      BY <3>1, <3>2 DEF Crash
    <3>3. CASE StartFetched(a) \/ StartEmpty(a) \/ StartCached(a)
      BY <2>1, <3>3 DEF StartFetched, StartEmpty, StartCached, Loaded
    <3>4. CASE Subscribe(a)
      BY <2>1, <3>1, <3>4 DEF Subscribe
    <3>5. CASE \E s \in Subjects(a) : HandleUpdate(a, s) \/ HandleDelete(a, s)
      BY <2>1, <3>5 DEF HandleUpdate, HandleDelete
    <3>6. CASE WatchFetches(a) \/ WatchClears(a) \/ WatchDone(a)
      BY <3>6 DEF WatchFetches, WatchClears, WatchDone, Watching
    <3>7. CASE \E i \in Ids : WatchUpserts(a, i)
      BY <3>7 DEF WatchUpserts, Watching
    <3> QED
      BY <2>3, <3>2, <3>3, <3>4, <3>5, <3>6, <3>7 DEF AgentStep
  <2>4. CASE \E o \in {"server", "database"} : Fail(o)
    BY <2>1, <2>4 DEF Fail, agent
  <2>5. ASSUME NEW h \in Handlers,
               \/ \E i \in Ids, r \in Rule, k \in {"update", "delete"} : Commits(h, i, r, k)
               \/ (\E i \in Ids : ReadForDelete(h, i)) \/ DeleteNothing(h) \/ Publish(h)
        PROVE  UNCHANGED <<watch, phase>>
    BY <2>5 DEF Commits, ReadForDelete, DeleteNothing, Publish, agent
  <2> QED
    BY <1>2, <2>1, <2>2, <2>3, <2>4, <2>5, StepsSeen
<1> QED
  BY <1>1, <1>2

\* The rows in force for an agent depend on the table only.
LEMMA VisibleKept == ASSUME NEW a, db' = db PROVE Visible(a)' = Visible(a)
BY DEF Visible, Served

\* Two rule sets with the same rules.
LEMMA SameRules ==
    ASSUME NEW x \in RuleSets, NEW y \in RuleSets, DOMAIN x = DOMAIN y,
           \A i \in DOMAIN x : x[i] = y[i]
    PROVE  x = y
<1>1. x = [i \in DOMAIN x |-> x[i]] /\ y = [i \in DOMAIN y |-> y[i]]
  BY RuleSetElement
<1> QED
  BY <1>1

\* The steps of a calm agent itself.
LEMMA CalmAgentStep ==
    ASSUME TypeInv, Reloads, Calmly, NEW a \in Agents, AgentStep(a), calm'[a]
    PROVE  Calm(a)'
<1>1. /\ db \in RuleSets /\ Visible(a) \in RuleSets /\ store[a] \in RuleSets
      /\ fetched[a] \in RuleSets
      /\ DOMAIN phase = Agents /\ DOMAIN watch = Agents /\ DOMAIN store = Agents
      /\ DOMAIN fetched = Agents /\ DOMAIN queue = Agents /\ DOMAIN calm = Agents
  BY VisibleIs DEF TypeInv, ServerOK, StoresOK, StatusOK, QueuesOK, GhostsOK
<1>2. UNCHANGED <<db, request>>
  BY DEF AgentStep, Crash, StartFetched, StartEmpty, StartCached, Subscribe, HandleUpdate,
     HandleDelete, WatchFetches, WatchClears, WatchDone, WatchUpserts, Loaded, server
<1>3. Visible(a)' = Visible(a)
  BY <1>2, VisibleKept
<1>4. calm[a] => Calm(a)
  BY DEF Calmly
<1>5. ASSUME Fetched(a) PROVE queue[a] = NoMessages(a) /\ \A h \in Handlers : request[h].step # "publish"
  <2>1. \A h \in Handlers : request[h] = Idle
    BY <1>1, <1>5 DEF Fetched
  <2> QED
    BY <1>1, <1>5, <2>1 DEF Fetched, Idle
<1>6. ASSUME UNCHANGED ghosts PROVE Calm(a)
  BY <1>4, <1>6 DEF ghosts
<1>7. CASE Crash(a)
  BY <1>1, <1>7 DEF Crash
<1>8. CASE StartFetched(a)
  <2>1. /\ phase[a] = "down" /\ phase'[a] = "loaded" /\ store'[a] = Visible(a) /\ Fetched(a)
        /\ UNCHANGED <<watch, fetched, queue>>
    BY <1>1, <1>8 DEF StartFetched, Loaded, nats
  <2>2. watch'[a] = "idle"
    BY <2>1 DEF Reloads
  <2> QED
    BY <1>2, <1>3, <1>5, <2>1, <2>2 DEF Calm
<1>9. CASE StartEmpty(a) \/ StartCached(a)
  <2>1. phase[a] = "down" /\ Calm(a)
    BY <1>6, <1>9 DEF StartEmpty, StartCached, Loaded
  <2> QED
    BY <2>1 DEF Calm
<1>10. CASE Subscribe(a)
  <2>1. Calm(a) /\ phase'[a] = "running" /\ UNCHANGED <<watch, store, fetched, queue>>
    BY <1>1, <1>6, <1>10 DEF Subscribe, nats
  <2> QED
    BY <1>2, <1>3, <2>1 DEF Calm
<1>11. ASSUME NEW s \in Subjects(a), HandleUpdate(a, s) \/ HandleDelete(a, s) PROVE FALSE
  <2>1. PICK ch \in Channels(a) : queue[a][ch] # <<>>
    BY <1>11, HandleTakes DEF Takes
  <2>2. Calm(a)
    BY <1>6, <1>11 DEF HandleUpdate, HandleDelete
  <2> QED
    BY <2>1, <2>2 DEF Calm, NoMessages
<1>12. CASE WatchFetches(a)
  <2>1. /\ phase'[a] = "running" /\ watch'[a] = "clear" /\ fetched'[a] = Visible(a) /\ Fetched(a)
        /\ UNCHANGED <<phase, queue>>
    BY <1>1, <1>12 DEF WatchFetches, Watching, nats
  <2> QED
    BY <1>2, <1>3, <1>5, <2>1 DEF Calm
<1>13. CASE WatchClears(a)
  <2>1. /\ Calm(a) /\ watch[a] = "clear" /\ watch'[a] = "upsert" /\ store'[a] = NoRules
        /\ UNCHANGED <<phase, fetched, queue>>
    BY <1>1, <1>6, <1>13 DEF WatchClears, Watching, Save, nats
  <2>2. DOMAIN store'[a] = {} /\ fetched'[a] = Visible(a)
    BY <2>1, NoRulesIs DEF Calm
  <2>3. \A i \in DOMAIN Visible(a) : Visible(a)[i] = db[i]
    BY <1>1, VisibleIs
  <2> QED
    BY <1>2, <1>3, <2>1, <2>2, <2>3 DEF Calm
<1>14. CASE WatchDone(a)
  <2>1. /\ Calm(a) /\ watch[a] = "upsert" /\ watch'[a] = "idle" /\ fetched[a] = NoRules
        /\ UNCHANGED <<phase, store, fetched, queue>>
    BY <1>1, <1>6, <1>14 DEF WatchDone, Watching, nats
  <2>2. /\ DOMAIN store[a] = DOMAIN Visible(a) /\ \A i \in DOMAIN store[a] : store[a][i] = db[i]
    BY <2>1, NoRulesIs DEF Calm
  <2>3. \A i \in DOMAIN Visible(a) : Visible(a)[i] = db[i]
    BY <1>1, VisibleIs
  <2>4. store[a] = Visible(a)
    BY <1>1, <2>2, <2>3, SameRules
  <2> QED
    BY <1>2, <1>3, <2>1, <2>4 DEF Calm
<1>15. ASSUME NEW i \in Ids, WatchUpserts(a, i) PROVE Calm(a)'
  <2>1. /\ Calm(a) /\ watch[a] = "upsert" /\ i \in DOMAIN fetched[a]
        /\ store'[a] = Put(store[a], i, fetched[a][i]) /\ fetched'[a] = Without(fetched[a], i)
        /\ UNCHANGED <<phase, watch, queue>>
    BY <1>1, <1>6, <1>15 DEF WatchUpserts, Watching, Save, nats
  <2>2. /\ DOMAIN store'[a] = DOMAIN store[a] \cup {i}
        /\ \A j \in DOMAIN store'[a] : store'[a][j] = IF j = i THEN fetched[a][i] ELSE store[a][j]
    BY <2>1 DEF Put
  <2>3. /\ DOMAIN fetched'[a] = DOMAIN fetched[a] \ {i}
        /\ \A j \in DOMAIN fetched'[a] : fetched'[a][j] = fetched[a][j]
    BY <2>1 DEF Without, Restrict
  <2> QED
    BY <1>2, <1>3, <2>1, <2>2, <2>3 DEF Calm
<1> QED
  BY <1>7, <1>8, <1>9, <1>10, <1>11, <1>12, <1>13, <1>14, <1>15 DEF AgentStep

\* After a fetch with nothing on its way the store stays exact.
LEMMA CalmlyInductive ==
    (Init => Calmly) /\ (TypeInv /\ Reloads /\ Calmly /\ [Next]_vars => Calmly')
<1>1. Init => Calmly
  BY DEF Init, Calmly
<1>2. ASSUME TypeInv, Reloads, Calmly, [Next]_vars PROVE Calmly'
  <2> SUFFICES ASSUME NEW a \in Agents, calm'[a] PROVE Calm(a)'
    BY DEF Calmly
  <2>1. calm[a] => Calm(a)
    BY <1>2 DEF Calmly
  <2>2. CASE UNCHANGED View(a)
    <3>1. UNCHANGED <<db, request, phase[a], watch[a], store[a], fetched[a], queue[a], calm[a]>>
      BY <2>2 DEF View
    <3> QED
      BY <2>1, <3>1, VisibleKept DEF Calm
  <2>3. ASSUME UNCHANGED <<db, phase, watch, store, fetched, queue, calm>>,
               \A h \in Handlers : request'[h].step = "publish" => request[h].step = "publish"
        PROVE  Calm(a)'
    BY <2>1, <2>3, VisibleKept DEF Calm
  <2>4. CASE AgentStep(a)
    BY <1>2, <2>4, CalmAgentStep
  <2>5. ASSUME NEW o \in {"server", "database"}, Fail(o) PROVE Calm(a)'
    <3>1. UNCHANGED <<db, phase, watch, store, fetched, queue, calm>>
      BY <2>5 DEF Fail, agent, nats
    <3>2. \A h \in Handlers : request'[h] = Idle \/ request'[h] = request[h]
      BY <2>5 DEF Fail
    <3> QED
      BY <2>3, <3>1, <3>2 DEF Idle
  <2>6. ASSUME NEW h \in Handlers, NEW i, NEW r, NEW k, Commits(h, i, r, k) PROVE FALSE
    BY <2>6 DEF Commits
  <2>7. ASSUME NEW h \in Handlers, (\E i \in Ids : ReadForDelete(h, i)) \/ DeleteNothing(h)
        PROVE  Calm(a)'
    <3>1. UNCHANGED <<db, phase, watch, store, fetched, queue, calm>>
      BY <2>7 DEF ReadForDelete, DeleteNothing, agent, nats, ghosts
    <3>2. /\ request'[h].step # "publish"
          /\ \A g \in Handlers : g # h => request'[g] = request[g]
      BY <1>2, <2>7 DEF ReadForDelete, DeleteNothing, TypeInv, RequestsOK, Idle
    <3> QED
      BY <2>3, <3>1, <3>2
  <2>8. ASSUME NEW h \in Handlers, Publish(h) PROVE FALSE
    <3>1. calm[a] /\ request[h].step = "publish"
      BY <2>8 DEF Publish
    <3> QED
      BY <2>1, <3>1 DEF Calm
  <2> QED
    BY <1>2, <2>2, <2>4, <2>5, <2>6, <2>7, <2>8, StepsSeen
<1> QED
  BY <1>1, <1>2

\* If nothing was on its way at the last fetch and nothing changed since, the
\* agent holds exactly the rules in force for it, whatever it held before: the
\* store is cleared, and refilled before anything else is handled
\* (agent.go:195-271).
THEOREM LoadsExactly == Spec => []LoadExact
<1>1. Calmly => LoadExact
  BY DEF Calmly, Calm, LoadExact
<1> QED
  BY <1>1, TypeInit, TypeStep, ReloadsInductive, CalmlyInductive, PTL DEF Spec

-----------------------------------------------------------------------------
(* What is on its way never brings back a rule that is gone. *)

\* Ids are never given out twice.
LEMMA TableStep ==
    ASSUME TypeInv, [Next]_vars
    PROVE  serial <= serial' /\ \A i \in DOMAIN db' : i \in DOMAIN db \/ i > serial
<1>1. serial \in Nat
  BY DEF TypeInv, ServerOK
<1>2. CASE Agents = {}
  <2>1. ASSUME NEW h \in Handlers,
               \/ \E i \in Ids, r \in Rule, k \in {"update", "delete"} : Commits(h, i, r, k)
               \/ UNCHANGED <<db, serial>>
        PROVE  serial <= serial' /\ \A i \in DOMAIN db' : i \in DOMAIN db \/ i > serial
    BY <1>1, <2>1 DEF Commits
  <2>2. ASSUME NEW h \in Handlers,
               (\E i \in Ids : ReadForDelete(h, i)) \/ DeleteNothing(h) \/ Publish(h)
        PROVE  UNCHANGED <<db, serial>>
    BY <2>2 DEF ReadForDelete, DeleteNothing, Publish
  <2>3. CASE Repair \/ (\E o \in {"server", "database"} : Fail(o)) \/ UNCHANGED vars
    BY <1>1, <2>3 DEF Repair, Fail, vars, server
  <2> QED
    BY <1>2, <2>1, <2>2, <2>3, CommitsOf DEF Next, Ids
<1>3. ASSUME NEW a \in Agents
      PROVE  serial <= serial' /\ \A i \in DOMAIN db' : i \in DOMAIN db \/ i > serial
  <2>1. CASE UNCHANGED <<db, serial>>
    BY <1>1, <2>1
  <2>2. ASSUME NEW h \in Handlers, NEW i \in Ids, NEW r, NEW k, Commits(h, i, r, k)
        PROVE  serial <= serial' /\ \A j \in DOMAIN db' : j \in DOMAIN db \/ j > serial
    BY <2>2 DEF Commits
  <2>3. UNCHANGED View(a) => UNCHANGED <<db, serial>>
    BY DEF View
  <2>4. AgentStep(a) => UNCHANGED <<db, serial>>
    BY DEF AgentStep, Crash, StartFetched, StartEmpty, StartCached, Subscribe, HandleUpdate,
       HandleDelete, WatchFetches, WatchClears, WatchDone, WatchUpserts, Loaded, server
  <2>5. ASSUME NEW h \in Handlers,
               (\E i \in Ids : ReadForDelete(h, i)) \/ DeleteNothing(h) \/ Publish(h)
        PROVE  UNCHANGED <<db, serial>>
    BY <2>5 DEF ReadForDelete, DeleteNothing, Publish
  <2>6. (\E o \in {"server", "database"} : Fail(o)) => UNCHANGED <<db, serial>>
    BY DEF Fail
  <2> QED
    BY <2>1, <2>2, <2>3, <2>4, <2>5, <2>6, StepsSeen
<1> QED
  BY <1>2, <1>3

\* What becomes of the requests in a step.
LEMMA RequestStep ==
    ASSUME TypeInv, [Next]_vars, NEW h \in Handlers
    PROVE  \/ request'[h] = request[h]
           \/ request'[h] = Idle
           \/ /\ request'[h].step = "delete" /\ request'[h].change.kind = "delete"
              /\ request'[h].change.id \in DOMAIN db
           \/ /\ request'[h].step = "publish" /\ Past(request'[h].change, serial', db')
<1>1. DOMAIN request = Handlers /\ DOMAIN db \subseteq 1 .. serial /\ serial \in Nat
  BY DEF TypeInv, RequestsOK, ServerOK
<1> DEFINE Goal == \/ request'[h] = request[h]
                   \/ request'[h] = Idle
                   \/ /\ request'[h].step = "delete" /\ request'[h].change.kind = "delete"
                      /\ request'[h].change.id \in DOMAIN db
                   \/ /\ request'[h].step = "publish" /\ Past(request'[h].change, serial', db')
<1>2. ASSUME NEW g \in Handlers, NEW i \in Ids, NEW r \in Rule, NEW k \in {"update", "delete"},
             Commits(g, i, r, k)
      PROVE  Goal
  <2> DEFINE c == [kind |-> k, id |-> i, rule |-> r]
             q == [step |-> "publish", change |-> c]
  <2>1. request' = [request EXCEPT ![g] = q] /\ i <= serial' /\ (k = "delete" => i \notin DOMAIN db')
    BY <1>2 DEF Commits
  <2>2. q.step = "publish" /\ q.change = c
    OBVIOUS
  <2>3. (c.id <= serial' /\ (c.kind = "delete" => c.id \notin DOMAIN db'))
    BY <2>1
  <2> HIDE DEF c, q
  <2>4. CASE g = h
    <3>1. request'[h] = q
      BY <1>1, <2>1, <2>4
    <3>2. Past(request'[h].change, serial', db')
      BY <2>2, <2>3, <3>1 DEF Past
    <3> QED
      BY <2>2, <3>1, <3>2
  <2>5. CASE g # h
    BY <1>1, <2>1, <2>5
  <2> QED
    BY <2>4, <2>5
<1>3. ASSUME NEW g \in Handlers, NEW i \in Ids, ReadForDelete(g, i) PROVE Goal
  <2>1. /\ i \in DOMAIN db
        /\ request' = [request EXCEPT ![g] =
             [step |-> "delete", change |-> [kind |-> "delete", id |-> i, rule |-> db[i]]]]
    BY <1>3 DEF ReadForDelete
  <2> QED
    BY <1>1, <2>1
<1>4. ASSUME NEW g \in Handlers, DeleteNothing(g) \/ Publish(g) PROVE Goal
  BY <1>1, <1>4 DEF DeleteNothing, Publish
<1>5. ASSUME NEW o \in {"server", "database"}, Fail(o) PROVE Goal
  BY <1>5 DEF Fail
<1>6. ASSUME NEW a \in Agents,
             \/ Disconnect(a) \/ Reconnect(a) \/ Crash(a)
             \/ StartFetched(a) \/ StartEmpty(a) \/ StartCached(a) \/ Subscribe(a)
             \/ \E s \in Subjects(a) : HandleUpdate(a, s) \/ HandleDelete(a, s)
             \/ WatchFails(a) \/ WatchFetches(a) \/ WatchClears(a) \/ WatchDone(a)
             \/ \E i \in 1 .. MaxIds : WatchUpserts(a, i)
      PROVE  Goal
  BY <1>6 DEF Disconnect, Reconnect, Crash, StartFetched, StartEmpty, StartCached, Subscribe,
     HandleUpdate, HandleDelete, WatchFails, WatchFetches, WatchClears, WatchDone, WatchUpserts,
     Loaded, server
<1>7. ASSUME Repair \/ UNCHANGED vars PROVE Goal
  BY <1>7 DEF Repair, vars, server
<1>8. ASSUME NEW g \in Handlers,
             \/ \E r \in Rule : CreateRule(g, r)
             \/ \E i \in 1 .. MaxIds, r \in Rule : UpdateRule(g, i, r)
             \/ DeleteRow(g)
      PROVE  Goal
  <2>1. \E i \in Ids, r \in Rule, k \in {"update", "delete"} : Commits(g, i, r, k)
    BY <1>8, CommitsOf DEF Ids
  <2> QED
    BY <1>2, <2>1
<1>9. Goal
  <2>1. ASSUME NEW g \in Handlers, \E i \in Ids : ReadForDelete(g, i) PROVE Goal
    BY <1>3, <2>1
  <2> HIDE DEF Goal
  <2>2. CASE UNCHANGED vars
    BY <1>7, <2>2
  <2>3. CASE Next
    BY <1>4, <1>5, <1>6, <1>7, <1>8, <2>1, <2>3 DEF Next, Ids
  <2> QED
    BY <2>2, <2>3
<1> QED
  BY <1>9

\* Deletions on their way are of rules that are gone.
LEMMA DeletionsInductive ==
    (Init => Deletions) /\ (TypeInv /\ TypeInv' /\ Deletions /\ [Next]_vars => Deletions')
<1>1. Init => Deletions
  BY InitQueues DEF Init, Deletions, Idle
<1>2. ASSUME TypeInv, TypeInv', Deletions, [Next]_vars PROVE Deletions'
  <2>1. serial \in Nat /\ serial' \in Nat /\ DOMAIN db \subseteq 1 .. serial /\ serial <= serial'
    BY <1>2, TableStep DEF TypeInv, ServerOK
  <2>2. ASSUME NEW h \in Handlers, request'[h].step = "publish"
        PROVE  Past(request'[h].change, serial', db')
    <3>1. CASE request'[h] = request[h]
      <4>1. Published(request[h].change) /\ request[h].change \in Change
        BY <1>2, <2>2, <3>1, RequestIs DEF Deletions, Idle, TypeInv
      <4>2. Past(request[h].change, serial', db')
        <5> DEFINE c == request[h].change
        <5>1. c \in Change /\ c.id \in Nat /\ c.id <= serial /\ (c.kind = "delete" => c.id \notin DOMAIN db)
          BY <4>1, RuleSyncAssumption DEF Published, Past, Change
        <5>2. c.id <= serial' /\ (c.kind = "delete" => c.id \notin DOMAIN db')
          BY <1>2, <2>1, <5>1, TableStep
        <5> QED
          BY <5>2 DEF Past
      <4> QED
        BY <3>1, <4>2
    <3>2. CASE request'[h] # request[h]
      BY <1>2, <2>2, <3>2, RequestStep DEF Idle
    <3> QED
      BY <3>1, <3>2
  <2>3. ASSUME NEW h \in Handlers, request'[h].step = "delete"
        PROVE  request'[h].change.kind = "delete" /\ request'[h].change.id <= serial'
    <3>1. CASE request'[h] = request[h]
      <4>1. request[h].change.kind = "delete" /\ request[h].change.id <= serial
        BY <1>2, <2>3, <3>1 DEF Deletions
      <4>2. request[h].change.id \in Nat
        BY <1>2, <2>3, <3>1, RequestIs, RuleSyncAssumption DEF Idle, Ids, TypeInv
      <4> QED
        BY <2>1, <3>1, <4>1, <4>2
    <3>2. CASE request'[h] # request[h]
      <4>1. request'[h].change.kind = "delete" /\ request'[h].change.id \in DOMAIN db
        BY <1>2, <2>3, <3>2, RequestStep DEF Idle
      <4> QED
        BY <2>1, <4>1
    <3> QED
      BY <3>1, <3>2
  <2>4. ASSUME NEW a \in Agents, NEW ch \in Channels(a), NEW n \in 1 .. Len(queue'[a][ch])
        PROVE  Past(queue'[a][ch][n], serial', db')
    <3>1. PICK c \in Change : Published(c) /\ queue'[a][ch][n] = c
      <4>1. CASE \E m \in 1 .. Len(queue[a][ch]) : queue'[a][ch][n] = queue[a][ch][m]
        BY <1>2, <4>1, QueueIs DEF Deletions
      <4>2. CASE \E h \in Handlers : /\ Publish(h) /\ Hears(a, ch, request[h].change)
                                   /\ queue'[a][ch][n] = request[h].change
        BY <1>2, <4>2, RequestIs DEF Deletions, Publish, Idle, TypeInv
      <4> QED
        BY <1>2, <4>1, <4>2, MessageOrigin
    <3>2. c.id \in Nat /\ c.id <= serial /\ (c.kind = "delete" => c.id \notin DOMAIN db)
      BY <3>1, RuleSyncAssumption DEF Published, Past, Change
    <3>3. c.id <= serial' /\ (c.kind = "delete" => c.id \notin DOMAIN db')
      BY <1>2, <2>1, <3>2, TableStep
    <3> QED
      BY <3>1, <3>3 DEF Past
  <2> QED
    BY <2>2, <2>3, <2>4 DEF Deletions, Published, Channels, Subjects
<1> QED
  BY <1>1, <1>2

-----------------------------------------------------------------------------
(* An agent that was sent every change since its last fetch. *)

\* A message about rule i is now the newest, or one about another rule joined.
LEMMA NewestAppend ==
    ASSUME NEW q \in Seq(Change), NEW c \in Change, NEW i, NEW r
    PROVE  /\ c.id = i /\ c.rule = r => Newest(Append(q, c), i, r)
           /\ c.id # i /\ Newest(q, i, r) => Newest(Append(q, c), i, r)
           /\ c.id # i /\ Silent(q, i) => Silent(Append(q, c), i)
<1> DEFINE p == Append(q, c)
<1>1. /\ Len(p) = Len(q) + 1 /\ Len(q) \in Nat /\ p[Len(q) + 1] = c
      /\ \A n \in 1 .. Len(q) : p[n] = q[n]
  BY AppendAt
<1> HIDE DEF p
<1>2. ASSUME c.id = i, c.rule = r PROVE Newest(p, i, r)
  <2>1. Len(p) \in 1 .. Len(p) /\ p[Len(p)] = c /\ Len(p) + 1 .. Len(p) = {}
    BY <1>1
  <2> QED
    BY <1>2, <2>1 DEF Newest
<1>3. ASSUME c.id # i, Newest(q, i, r) PROVE Newest(p, i, r)
  <2>1. PICK n \in 1 .. Len(q) : /\ q[n].id = i /\ q[n].rule = r
                                /\ \A m \in n + 1 .. Len(q) : q[m].id # i
    BY <1>3 DEF Newest
  <2>2. n \in 1 .. Len(p) /\ p[n] = q[n]
    BY <1>1
  <2>3. ASSUME NEW m \in n + 1 .. Len(p) PROVE p[m].id # i
    <3>1. m = Len(q) + 1 \/ (m \in n + 1 .. Len(q) /\ m \in 1 .. Len(q))
      BY <1>1
    <3> QED
      BY <1>1, <1>3, <2>1, <3>1
  <2> QED
    BY <2>1, <2>2, <2>3 DEF Newest
<1>4. ASSUME c.id # i, Silent(q, i) PROVE Silent(p, i)
  <2> SUFFICES ASSUME NEW n \in 1 .. Len(p) PROVE p[n].id # i
    BY DEF Silent
  <2>1. n = Len(q) + 1 \/ n \in 1 .. Len(q)
    BY <1>1
  <2> QED
    BY <1>1, <1>4, <2>1 DEF Silent
<1> QED
  BY <1>2, <1>3, <1>4 DEF p

\* Taking a message leaves the newest about rule i, unless it was that one.
LEMMA NewestTail ==
    ASSUME NEW q \in Seq(Change), q # <<>>, NEW i, NEW r
    PROVE  /\ Newest(q, i, r) => \/ Newest(Tail(q), i, r)
                                \/ /\ Head(q).id = i /\ Head(q).rule = r
                                   /\ Silent(Tail(q), i)
           /\ Silent(q, i) => Head(q).id # i /\ Silent(Tail(q), i)
<1> DEFINE p == Tail(q)
<1>1. /\ Head(q) = q[1] /\ Len(p) = Len(q) - 1 /\ Len(q) \in Nat /\ 1 \in 1 .. Len(q)
      /\ \A n \in 1 .. Len(p) : p[n] = q[n + 1] /\ n + 1 \in 1 .. Len(q)
  BY TailAt
<1> HIDE DEF p
<1>2. ASSUME Silent(q, i) PROVE Head(q).id # i /\ Silent(p, i)
  BY <1>1, <1>2 DEF Silent
<1>3. ASSUME Newest(q, i, r)
      PROVE  Newest(p, i, r) \/ (Head(q).id = i /\ Head(q).rule = r /\ Silent(p, i))
  <2>1. PICK n \in 1 .. Len(q) : /\ q[n].id = i /\ q[n].rule = r
                                /\ \A m \in n + 1 .. Len(q) : q[m].id # i
    BY <1>3 DEF Newest
  <2>2. CASE n = 1
    <3>1. \A m \in 1 .. Len(p) : p[m].id # i
      BY <1>1, <2>1, <2>2
    <3> QED
      BY <1>1, <2>1, <2>2, <3>1 DEF Silent
  <2>3. CASE n # 1
    <3>1. n - 1 \in 1 .. Len(p) /\ (n - 1) + 1 = n
      BY <1>1, <2>3
    <3>2. p[n - 1] = q[n]
      BY <1>1, <3>1
    <3>3. ASSUME NEW m \in (n - 1) + 1 .. Len(p) PROVE p[m].id # i
      <4>1. m \in 1 .. Len(p) /\ m + 1 \in n + 1 .. Len(q)
        BY <1>1, <3>1
      <4> QED
        BY <1>1, <2>1, <4>1
    <3>4. Newest(p, i, r)
      BY <2>1, <3>1, <3>2, <3>3 DEF Newest
    <3> QED
      BY <3>4
  <2> QED
    BY <2>2, <2>3
<1> QED
  BY <1>2, <1>3 DEF p

\* What an agent can fetch after the step.
LEMMA VisibleNext ==
    ASSUME NEW a, db' \in RuleSets
    PROVE  /\ DOMAIN Visible(a)' = {i \in DOMAIN db' : db'[i].topic \in {Global, TopicOf[a]}}
           /\ \A i \in DOMAIN Visible(a)' : Visible(a)'[i] = db'[i]
<1>1. CASE TopicOf[a] = Global
  BY <1>1 DEF Visible, Served, Restrict
<1>2. CASE TopicOf[a] # Global
  BY <1>2 DEF Visible, Served, Restrict
<1> QED
  BY <1>1, <1>2

\* The channel on which the versions of a rule in force for agent a arrive.
LEMMA VisibleChannel ==
    ASSUME TypeInv, NEW a \in Agents, NEW i \in DOMAIN Visible(a)
    PROVE  /\ i \in DOMAIN db /\ i \in Ids /\ db[i] \in Rule
           /\ db[i].topic \in {Global, TopicOf[a]} /\ db[i].topic \in Subjects(a)
           /\ <<"update", db[i].topic>> \in Channels(a)
           /\ Visible(a)[i] = db[i]
<1>1. db \in RuleSets
  BY DEF TypeInv, ServerOK
<1>2. i \in DOMAIN db /\ db[i].topic \in {Global, TopicOf[a]} /\ Visible(a)[i] = db[i]
  BY <1>1, VisibleIs
<1>3. i \in Ids /\ db[i] \in Rule
  BY <1>1, <1>2, RuleSetElement
<1>4. db[i].topic \in Subjects(a)
  BY <1>2 DEF Subjects
<1> QED
  BY <1>2, <1>3, <1>4 DEF Channels

\* No other subscription of the agent gets them.
LEMMA OneChannel ==
    ASSUME NEW a \in Agents, NEW s \in Subjects(a), NEW t \in {Global, TopicOf[a]}, Matches(s, t)
    PROVE  s = t
<1>1. TopicOf[a] # Everything /\ a # Everything /\ Global # Everything
  <2>1. TopicOf[a] \in Range(TopicOf)
    BY RuleSyncAssumption DEF Range
  <2> QED
    BY <2>1, RuleSyncAssumption
<1> QED
  BY <1>1 DEF Subjects, Matches

\* A change that overlaps with nothing.
LEMMA InStepCommit ==
    ASSUME TypeInv, Deletions, NEW a \in Agents, InStep(a),
           NEW h \in Handlers, NEW i \in Ids, NEW r \in Rule, NEW k \in {"update", "delete"},
           Commits(h, i, r, k), ~missed'[a], TypeInv'
    PROVE  InStep(a)'
<1>1. /\ ~Overlaps(i, r) /\ request[h].step # "publish"
      /\ UNCHANGED <<phase, watch, store, fetched, queue>>
      /\ DOMAIN db' \ {i} = DOMAIN db \ {i}
      /\ \A j \in DOMAIN db' : j # i => db'[j] = db[j]
      /\ i \in DOMAIN db' => db'[i] = r
      /\ k = "delete" => i \notin DOMAIN db'
      /\ i \in DOMAIN db \/ i > serial
  BY DEF Commits
<1> DEFINE q == [step |-> "publish", change |-> [kind |-> k, id |-> i, rule |-> r]]
<1>2. /\ request'[h] = q /\ \A g \in Handlers : g # h => request'[g] = request[g]
  BY DEF Commits, TypeInv, RequestsOK
<1>3. q.step = "publish" /\ q.change.id = i /\ q.change.rule = r
  OBVIOUS
<1> HIDE DEF q
<1>4. ASSUME NEW g \in Handlers PROVE ~Outdated(g)'
  <2>1. CASE g = h
    BY <1>1, <1>2, <1>3, <2>1 DEF Outdated
  <2>2. CASE g # h
    <3>1. request[g].step = "publish" => request[g].change.id # i
      BY <1>1 DEF Overlaps
    <3>2. ~Outdated(g)
      BY DEF InStep
    <3> QED
      BY <1>1, <1>2, <2>2, <3>1, <3>2 DEF Outdated
  <2> QED
    BY <2>1, <2>2
<1>5. ASSUME NEW ch \in Channels(a), NEW n \in 1 .. Len(queue[a][ch]),
             queue[a][ch][n].id \in DOMAIN db'
      PROVE  queue[a][ch][n].rule.topic = db'[queue[a][ch][n].id].topic
  <2> DEFINE m == queue[a][ch][n]
  <2>1. m.id \in DOMAIN db => m.rule.topic = db[m.id].topic
    BY DEF InStep
  <2>2. m.id <= serial
    BY DEF Deletions, Published, Past
  <2>3. i \in Nat /\ serial \in Nat
    BY RuleSyncAssumption DEF Ids, TypeInv, ServerOK
  <2> HIDE DEF m
  <2>4. CASE m.id = i
    <3>1. i \in DOMAIN db
      BY <1>1, <2>2, <2>3, <2>4
    <3>2. db[i].topic = r.topic
      BY <1>1, <3>1 DEF Overlaps
    <3>3. db'[i] = r
      BY <1>1, <1>5, <2>4 DEF m
    <3>4. m.rule.topic = db'[m.id].topic
      BY <2>1, <2>4, <3>1, <3>2, <3>3
    <3> QED
      BY <3>4 DEF m
  <2>5. CASE m.id # i
    <3>1. m.id \in DOMAIN db /\ db'[m.id] = db[m.id]
      BY <1>1, <1>5, <2>5 DEF m
    <3>2. m.rule.topic = db'[m.id].topic
      BY <2>1, <3>1
    <3> QED
      BY <3>2 DEF m
  <2> QED
    BY <2>4, <2>5
<1>6. ASSUME NEW j \in DOMAIN Visible(a)' PROVE Underway(a, j)'
  <2>1. CASE j = i
    BY <1>2, <1>3, <2>1 DEF Underway, Pending
  <2>2. CASE j # i
    <3>1. j \in DOMAIN db' /\ db'[j].topic \in {Global, TopicOf[a]}
      <4>1. db' \in RuleSets
        BY DEF TypeInv, ServerOK
      <4>2. DOMAIN Visible(a)' = {l \in DOMAIN db' : db'[l].topic \in {Global, TopicOf[a]}}
        BY <4>1, VisibleNext
      <4> QED
        BY <4>2
    <3>2. j \in DOMAIN db /\ db'[j] = db[j]
      BY <1>1, <2>2, <3>1
    <3>3. j \in DOMAIN Visible(a)
      BY <3>1, <3>2, VisibleIs DEF TypeInv, ServerOK
    <3>4. Underway(a, j)
      BY <3>3 DEF InStep
    <3>5. Pending(j) => Pending(j)'
      BY <1>1, <1>2 DEF Pending
    <3> QED
      BY <1>1, <3>2, <3>4, <3>5 DEF Underway
  <2> QED
    BY <2>1, <2>2
<1> QED
  BY <1>1, <1>4, <1>5, <1>6 DEF InStep, NoMessages, Channels, Subjects

\* A step in which agent a sees no rule change and no request publish.
LEMMA InStepKept ==
    ASSUME NEW a \in Agents, InStep(a), phase'[a] # "down", db' = db,
           UNCHANGED <<watch[a], store[a], fetched[a], queue[a]>>,
           \A h \in Handlers : request[h].step = "publish" \/ request'[h].step = "publish"
                                  => request'[h] = request[h]
    PROVE  InStep(a)'
<1>1. \A h \in Handlers : ~Outdated(h)'
  BY DEF InStep, Outdated
<1>2. ASSUME NEW i \in DOMAIN Visible(a)' PROVE Underway(a, i)'
  <2>1. Underway(a, i)
    BY VisibleKept DEF InStep
  <2>2. Pending(i) => Pending(i)'
    BY DEF Pending
  <2> QED
    BY <2>1, <2>2 DEF Underway
<1> QED
  BY <1>1, <1>2 DEF InStep

\* Messages carry the topics of the rules they are about, while the table stays.
LEMMA TopicsKept ==
    ASSUME TypeInv, [Next]_vars, NEW a \in Agents, InStep(a), db' = db,
           NEW ch \in Channels(a), NEW n \in 1 .. Len(queue'[a][ch]),
           queue'[a][ch][n].id \in DOMAIN db'
    PROVE  queue'[a][ch][n].rule.topic = db'[queue'[a][ch][n].id].topic
<1>1. CASE \E m \in 1 .. Len(queue[a][ch]) : queue'[a][ch][n] = queue[a][ch][m]
  BY <1>1 DEF InStep
<1>2. CASE \E h \in Handlers : /\ Publish(h) /\ Hears(a, ch, request[h].change)
                             /\ queue'[a][ch][n] = request[h].change
  BY <1>2 DEF InStep, Outdated, Publish
<1> QED
  BY <1>1, <1>2, MessageOrigin

\* A publication that reaches the agent.
LEMMA InStepPublish ==
    ASSUME TypeInv, Deletions, [Next]_vars, NEW a \in Agents, InStep(a),
           NEW h \in Handlers, Publish(h), ~missed'[a]
    PROVE  InStep(a)'
<1> DEFINE c == request[h].change
<1>1. /\ request[h].step = "publish" /\ Listening(a) /\ watch[a] = "idle"
      /\ UNCHANGED <<db, phase, watch, store, fetched>>
      /\ \A g \in Handlers : request'[g] = IF g = h THEN Idle ELSE request[g]
  BY DEF Publish, agent, TypeInv, RequestsOK
<1>2. c \in Change /\ c.kind \in {"update", "delete"}
  BY <1>1, RequestIs DEF Idle, TypeInv
<1>3. c.id \in DOMAIN db => c.rule = db[c.id] /\ c.kind = "update"
  <2>1. ~Outdated(h) /\ Published(c)
    BY <1>1 DEF InStep, Deletions
  <2> QED
    BY <1>1, <1>2, <2>1 DEF Outdated, Published, Past
<1>4. \A g \in Handlers : ~Outdated(g)'
  BY <1>1 DEF InStep, Outdated, Idle
<1>5. ASSUME NEW i \in DOMAIN Visible(a)' PROVE Underway(a, i)'
  <2> DEFINE ch == <<"update", db[i].topic>>
  <2>1. /\ i \in DOMAIN db /\ ch \in Channels(a) /\ Underway(a, i) /\ i \in Ids
        /\ queue[a][ch] \in Seq(Change)
    BY <1>1, VisibleKept, VisibleChannel, QueueIs DEF InStep
  <2>2. queue'[a][ch] = IF Hears(a, ch, c) THEN Append(queue[a][ch], c) ELSE queue[a][ch]
    BY <2>1, PublishIs
  <2>3. CASE c.id = i
    <3>1. c.rule = db[i] /\ c.kind = "update"
      BY <1>3, <2>1, <2>3
    <3>2. Hears(a, ch, c)
      BY <1>1, <3>1 DEF Hears, Matches
    <3> HIDE DEF c, ch
    <3>3. Newest(queue'[a][ch], i, db[i])
      BY <1>2, <2>1, <2>2, <2>3, <3>1, <3>2, NewestAppend
    <3> QED
      BY <1>1, <3>3 DEF Underway, ch
  <2>4. CASE c.id # i
    <3>1. Pending(i) => Pending(i)'
      BY <1>1, <2>4 DEF Pending
    <3> HIDE DEF c, ch
    <3>2. /\ Newest(queue[a][ch], i, db[i]) => Newest(queue'[a][ch], i, db[i])
          /\ Silent(queue[a][ch], i) => Silent(queue'[a][ch], i)
      BY <1>2, <2>1, <2>2, <2>4, NewestAppend
    <3> QED
      BY <1>1, <2>1, <3>1, <3>2 DEF Underway, ch
  <2> QED
    BY <2>3, <2>4
<1>6. ASSUME NEW ch \in Channels(a), NEW n \in 1 .. Len(queue'[a][ch]),
             queue'[a][ch][n].id \in DOMAIN db'
      PROVE  queue'[a][ch][n].rule.topic = db'[queue'[a][ch][n].id].topic
  BY <1>1, <1>6, TopicsKept
<1> QED
  BY <1>1, <1>4, <1>5, <1>6 DEF InStep, Channels, Subjects

\* The message agent a takes next from channel ch.
LEMMA NextMessage ==
    ASSUME TypeInv, Routed, Deletions, NEW a \in Agents, InStep(a), NEW ch \in Channels(a),
           Takes(a, ch), NEW m, m = Head(queue[a][ch])
    PROVE  /\ watch[a] = "idle"
           /\ m.id \in Ids /\ m.rule \in Rule /\ m.kind = ch[1] /\ Published(m)
           /\ Matches(ch[2], m.rule.topic)
           /\ m.id \in DOMAIN db => m.rule.topic = db[m.id].topic
<1>1. queue[a][ch] \in Seq(Change) /\ queue[a][ch] # <<>>
  BY QueueIs DEF Takes
<1>2. m = queue[a][ch][1] /\ 1 \in 1 .. Len(queue[a][ch])
  BY <1>1, TailAt
<1>3. watch[a] = "idle"
  BY <1>1 DEF InStep, NoMessages
<1> QED
  BY <1>2, <1>3, QueueIs DEF InStep, Routed, Deletions

\* A message handled by an agent that has missed nothing.
LEMMA InStepHandle ==
    ASSUME TypeInv, Routed, Deletions, [Next]_vars, NEW a \in Agents, InStep(a),
           NEW s \in Subjects(a), HandleUpdate(a, s) \/ HandleDelete(a, s)
    PROVE  InStep(a)'
<1>1. UNCHANGED <<db, request, phase, watch, fetched>> /\ phase[a] # "down"
  BY DEF HandleUpdate, HandleDelete, server, InStep
<1>2. PICK ch \in {<<"update", s>>, <<"delete", s>>} :
          /\ Takes(a, ch) /\ ch \in Channels(a)
          /\ ch = <<"update", s>> => HandleUpdate(a, s)
          /\ ch = <<"delete", s>> => HandleDelete(a, s)
  BY HandleTakes
<1> DEFINE m == Head(queue[a][ch])
<1>3. /\ watch[a] = "idle" /\ m.id \in Ids /\ m.rule \in Rule /\ m.kind = ch[1] /\ Published(m)
      /\ Matches(ch[2], m.rule.topic)
      /\ m.id \in DOMAIN db => m.rule.topic = db[m.id].topic
  BY <1>2, NextMessage
<1>4. a \in DOMAIN store /\ store[a] \in RuleSets
  BY DEF TypeInv, StoresOK
<1>5. ASSUME NEW i \in DOMAIN Visible(a)' PROVE Underway(a, i)'
  <2> DEFINE u == <<"update", db[i].topic>>
             q == queue[a][u]
  <2>1. /\ i \in DOMAIN db /\ u \in Channels(a) /\ Underway(a, i)
        /\ db[i].topic \in {Global, TopicOf[a]} /\ q \in Seq(Change)
    BY <1>1, VisibleKept, VisibleChannel, QueueIs DEF InStep
  <2>2. Pending(i) => Pending(i)'
    BY <1>1 DEF Pending
  <2>3. queue'[a][u] = IF u = ch THEN Tail(q) ELSE q
    BY <1>2, <2>1, TakesIs
  <2>4. u = ch => q # <<>> /\ m = Head(q)
    BY <1>2 DEF Takes
  <2>5. m.id = i => u = ch
    <3>1. m.id = i => m.kind = "update"
      BY <1>2, <1>3, <2>1 DEF Published, Past
    <3>2. m.id = i => ch = <<"update", s>> /\ Matches(s, db[i].topic)
      BY <1>2, <1>3, <2>1, <3>1
    <3> QED
      BY <2>1, <3>2, OneChannel
  <2>6. \/ store'[a] = store[a] /\ m.id # i
        \/ store'[a] = Put(store[a], m.id, m.rule)
        \/ store'[a] = Without(store[a], m.id) /\ m.id # i
    <3>1. CASE ch = <<"update", s>>
      <4>1. Save(a, Put(store[a], m.id, m.rule))
        BY <1>2, <3>1 DEF HandleUpdate
      <4> QED
        BY <1>4, <4>1 DEF Save
    <3>2. CASE ch = <<"delete", s>>
      <4>1. m.id # i
        BY <1>3, <2>1, <3>2 DEF Published, Past
      <4> QED
        BY <1>2, <1>4, <3>2, <4>1 DEF HandleDelete, Save
    <3> QED
      BY <3>1, <3>2
  <2>7. /\ m.id = i => i \in DOMAIN store'[a] /\ store'[a][i] = m.rule
        /\ m.id # i /\ i \in DOMAIN store[a] => i \in DOMAIN store'[a] /\ store'[a][i] = store[a][i]
    BY <2>6 DEF Put, Without, Restrict
  <2> HIDE DEF m, u, q
  <2>8. ASSUME Newest(q, i, db[i])
        PROVE  \/ Newest(queue'[a][u], i, db[i])
               \/ Silent(queue'[a][u], i) /\ i \in DOMAIN store'[a] /\ store'[a][i] = db[i]
    BY <2>1, <2>3, <2>4, <2>7, <2>8, NewestTail
  <2>9. ASSUME Silent(q, i), i \in DOMAIN store[a], store[a][i] = db[i]
        PROVE  Silent(queue'[a][u], i) /\ i \in DOMAIN store'[a] /\ store'[a][i] = db[i]
    <3>1. Silent(queue'[a][u], i) /\ (u = ch => m.id # i)
      BY <2>1, <2>3, <2>4, <2>9, NewestTail
    <3> QED
      BY <2>5, <2>7, <2>9, <3>1
  <2> QED
    BY <1>1, <1>3, <2>1, <2>2, <2>8, <2>9 DEF Underway, u, q
<1>6. ASSUME NEW d \in Channels(a), NEW n \in 1 .. Len(queue'[a][d]),
             queue'[a][d][n].id \in DOMAIN db'
      PROVE  queue'[a][d][n].rule.topic = db'[queue'[a][d][n].id].topic
  BY <1>1, <1>6, TopicsKept
<1>7. \A h \in Handlers : ~Outdated(h)'
  BY <1>1 DEF InStep, Outdated
<1> HIDE DEF m
<1> QED
  BY <1>1, <1>3, <1>5, <1>6, <1>7 DEF InStep, Channels, Subjects

\* The steps of an agent that has missed nothing since its last fetch.
LEMMA InStepAgent ==
    ASSUME TypeInv, Routed, Reloads, Deletions, Reached, [Next]_vars,
           NEW a \in Agents, AgentStep(a), ~missed'[a]
    PROVE  InStep(a)'
<1>1. /\ db \in RuleSets /\ Visible(a) \in RuleSets
      /\ DOMAIN phase = Agents /\ DOMAIN watch = Agents /\ DOMAIN store = Agents
      /\ DOMAIN fetched = Agents /\ DOMAIN queue = Agents /\ DOMAIN missed = Agents
  BY VisibleIs DEF TypeInv, ServerOK, StoresOK, StatusOK, QueuesOK, GhostsOK
<1>2. UNCHANGED <<db, request>> /\ Visible(a)' = Visible(a)
  <2>1. UNCHANGED <<db, request>>
    BY DEF AgentStep, Crash, StartFetched, StartEmpty, StartCached, Subscribe, HandleUpdate,
       HandleDelete, WatchFetches, WatchClears, WatchDone, WatchUpserts, Loaded, server
  <2> QED
    BY <2>1, VisibleKept
<1>3. ASSUME UNCHANGED ghosts PROVE InStep(a)
  BY <1>3 DEF Reached, ghosts
<1>4. ASSUME NEW i \in DOMAIN Visible(a)
      PROVE  i \in DOMAIN db /\ <<"update", db[i].topic>> \in Channels(a) /\ Visible(a)[i] = db[i]
  BY VisibleChannel
<1>5. ASSUME UNCHANGED ghosts, phase[a] # "down", phase'[a] # "down", queue'[a] = queue[a],
             watch'[a] # "idle" => queue[a] = NoMessages(a),
             \A i \in DOMAIN Visible(a) : Underway(a, i)'
      PROVE  InStep(a)'
  BY <1>2, <1>3, <1>5 DEF InStep, Outdated, NoMessages, Channels, Subjects
<1>6. ASSUME Fetched(a), phase'[a] # "down", queue'[a] = queue[a],
             \A i \in DOMAIN Visible(a) : Underway(a, i)'
      PROVE  InStep(a)'
  <2>1. queue[a] = NoMessages(a) /\ \A h \in Handlers : ~Outdated(h)
    BY <1>1, <1>6 DEF Fetched
  <2>2. \A h \in Handlers : ~Outdated(h)'
    BY <1>2, <2>1 DEF Outdated
  <2>3. \A ch \in Channels(a) : 1 .. Len(queue'[a][ch]) = {}
    BY <1>6, <2>1 DEF NoMessages
  <2> QED
    BY <1>2, <1>6, <2>1, <2>2, <2>3 DEF InStep, NoMessages, Channels, Subjects
<1>7. ASSUME queue[a] = NoMessages(a), queue'[a] = queue[a], NEW i \in DOMAIN Visible(a)
      PROVE  Silent(queue'[a][<<"update", db[i].topic>>], i)
  <2>1. queue'[a][<<"update", db[i].topic>>] = <<>>
    BY <1>4, <1>7 DEF NoMessages
  <2> QED
    BY <2>1 DEF Silent
<1>8. CASE Crash(a)
  BY <1>1, <1>8 DEF Crash
<1>9. CASE StartFetched(a)
  <2>1. /\ phase[a] = "down" /\ phase'[a] = "loaded" /\ store'[a] = Visible(a) /\ Fetched(a)
        /\ UNCHANGED <<watch, fetched, queue>>
    BY <1>1, <1>9 DEF StartFetched, Loaded, nats
  <2>2. watch'[a] = "idle" /\ queue[a] = NoMessages(a)
    BY <1>1, <2>1 DEF Reloads, Fetched
  <2> QED
    BY <1>2, <1>4, <1>6, <1>7, <2>1, <2>2 DEF Underway
<1>10. CASE StartEmpty(a) \/ StartCached(a)
  <2>1. phase[a] = "down" /\ InStep(a)
    BY <1>3, <1>10 DEF StartEmpty, StartCached, Loaded
  <2> QED
    BY <2>1 DEF InStep
<1>11. CASE Subscribe(a)
  <2>1. /\ InStep(a) /\ phase'[a] = "running"
        /\ UNCHANGED <<watch[a], store[a], fetched[a], queue[a]>>
    BY <1>1, <1>3, <1>11 DEF Subscribe, nats
  <2> QED
    BY <1>2, <2>1, InStepKept
<1>12. ASSUME NEW s \in Subjects(a), HandleUpdate(a, s) \/ HandleDelete(a, s) PROVE InStep(a)'
  <2>1. InStep(a)
    BY <1>3, <1>12 DEF HandleUpdate, HandleDelete
  <2> QED
    BY <1>12, <2>1, InStepHandle
<1>13. CASE WatchFetches(a)
  <2>1. /\ phase'[a] = "running" /\ watch'[a] = "clear" /\ fetched'[a] = Visible(a) /\ Fetched(a)
        /\ UNCHANGED <<phase, queue>>
    BY <1>1, <1>13 DEF WatchFetches, Watching, nats
  <2> QED
    BY <1>2, <1>4, <1>6, <2>1 DEF Underway
<1>14. CASE WatchClears(a)
  <2>1. /\ InStep(a) /\ watch[a] = "clear" /\ watch'[a] = "upsert" /\ UNCHANGED ghosts
        /\ phase[a] = "running" /\ UNCHANGED <<phase, fetched, queue>>
    BY <1>1, <1>3, <1>14 DEF WatchClears, Watching, nats
  <2>2. ASSUME NEW i \in DOMAIN Visible(a) PROVE Underway(a, i)'
    <3>1. Underway(a, i)
      BY <2>1 DEF InStep
    <3> QED
      BY <1>2, <2>1, <3>1 DEF Underway, Pending
  <2> QED
    BY <1>5, <2>1, <2>2 DEF InStep
<1>15. CASE WatchDone(a)
  <2>1. /\ InStep(a) /\ watch[a] = "upsert" /\ watch'[a] = "idle" /\ UNCHANGED ghosts
        /\ phase[a] = "running" /\ UNCHANGED <<phase, store, queue>> /\ fetched[a] = NoRules
    BY <1>1, <1>3, <1>15 DEF WatchDone, Watching, nats
  <2>2. queue[a] = NoMessages(a) /\ DOMAIN fetched[a] = {}
    BY <2>1, NoRulesIs DEF InStep
  <2>3. ASSUME NEW i \in DOMAIN Visible(a) PROVE Underway(a, i)'
    <3>1. Underway(a, i) /\ Silent(queue'[a][<<"update", db[i].topic>>], i)
      BY <1>7, <2>1, <2>2 DEF InStep
    <3> QED
      BY <1>2, <2>1, <2>2, <3>1 DEF Underway, Pending
  <2> QED
    BY <1>5, <2>1, <2>3
<1>16. ASSUME NEW j \in Ids, WatchUpserts(a, j) PROVE InStep(a)'
  <2>1. /\ InStep(a) /\ watch[a] = "upsert" /\ j \in DOMAIN fetched[a] /\ UNCHANGED ghosts
        /\ store'[a] = Put(store[a], j, fetched[a][j]) /\ fetched'[a] = Without(fetched[a], j)
        /\ phase[a] = "running" /\ UNCHANGED <<phase, watch, queue>>
    BY <1>1, <1>3, <1>16 DEF WatchUpserts, Watching, Save, nats
  <2>2. /\ DOMAIN store'[a] = DOMAIN store[a] \cup {j}
        /\ \A i \in DOMAIN store'[a] : store'[a][i] = IF i = j THEN fetched[a][j] ELSE store[a][i]
    BY <2>1 DEF Put
  <2>3. /\ DOMAIN fetched'[a] = DOMAIN fetched[a] \ {j}
        /\ \A i \in DOMAIN fetched'[a] : fetched'[a][i] = fetched[a][i]
    BY <2>1 DEF Without, Restrict
  <2>4. ASSUME NEW i \in DOMAIN Visible(a) PROVE Underway(a, i)'
    <3>1. Underway(a, i)
      BY <2>1 DEF InStep
    <3>2. Pending(i) => Pending(i)'
      BY <1>2 DEF Pending
    <3> QED
      BY <1>2, <2>1, <2>2, <2>3, <3>1, <3>2 DEF Underway
  <2> QED
    BY <1>5, <2>1, <2>4 DEF InStep
<1> QED
  BY <1>8, <1>9, <1>10, <1>11, <1>12, <1>13, <1>14, <1>15, <1>16 DEF AgentStep

\* An agent that is sent every change stays in step with the table.
LEMMA ReachedInductive ==
    /\ Init => Reached
    /\ TypeInv /\ TypeInv' /\ Routed /\ Reloads /\ Deletions /\ Reached /\ [Next]_vars => Reached'
<1>1. Init => Reached
  BY DEF Init, Reached
<1>2. ASSUME TypeInv, TypeInv', Routed, Reloads, Deletions, Reached, [Next]_vars PROVE Reached'
  <2> SUFFICES ASSUME NEW a \in Agents, ~missed'[a] PROVE InStep(a)'
    BY DEF Reached
  <2>1. ~missed[a] => InStep(a)
    BY <1>2 DEF Reached
  <2>2. CASE UNCHANGED View(a)
    <3>1. UNCHANGED <<db, request, phase[a], watch[a], store[a], fetched[a], queue[a], missed[a]>>
      BY <2>2 DEF View
    <3>2. InStep(a) /\ phase'[a] # "down"
      BY <2>1, <3>1 DEF InStep
    <3> QED
      BY <3>1, <3>2, InStepKept
  <2>3. CASE AgentStep(a)
    BY <1>2, <2>3, InStepAgent
  <2>4. ASSUME NEW o \in {"server", "database"}, Fail(o) PROVE InStep(a)'
    <3>1. /\ UNCHANGED <<db, phase, watch, store, fetched, queue>>
          /\ UNCHANGED request /\ ~missed[a]
      <4>1. CASE o = "server"
        <5>1. missed' = [b \in Agents |-> missed[b] \/ request # request']
          BY <2>4, <4>1 DEF Fail
        <5> QED
          BY <2>4, <5>1 DEF Fail, agent, nats
      <4>2. CASE o # "server"
        BY <2>4, <4>2 DEF Fail, agent, nats
      <4> QED
        BY <4>1, <4>2
    <3>2. InStep(a) /\ phase'[a] # "down"
      BY <2>1, <3>1 DEF InStep
    <3> QED
      BY <3>1, <3>2, InStepKept
  <2>5. ASSUME NEW h \in Handlers, NEW i \in Ids, NEW r \in Rule, NEW k \in {"update", "delete"},
               Commits(h, i, r, k)
        PROVE  InStep(a)'
    <3>1. ~missed[a]
      BY <2>5 DEF Commits
    <3> QED
      BY <1>2, <2>1, <2>5, <3>1, InStepCommit
  <2>6. ASSUME NEW h \in Handlers, (\E i \in Ids : ReadForDelete(h, i)) \/ DeleteNothing(h)
        PROVE  InStep(a)'
    <3>1. /\ UNCHANGED <<db, phase, watch, store, fetched, queue, missed>>
          /\ request[h].step # "publish"
      BY <2>6 DEF ReadForDelete, DeleteNothing, agent, nats, ghosts, Idle
    <3>2. /\ request'[h].step # "publish"
          /\ \A g \in Handlers : g # h => request'[g] = request[g]
      BY <1>2, <2>6 DEF ReadForDelete, DeleteNothing, TypeInv, RequestsOK, Idle
    <3>3. InStep(a) /\ phase'[a] # "down"
      BY <2>1, <3>1 DEF InStep
    <3> QED
      BY <3>1, <3>2, <3>3, InStepKept
  <2>7. ASSUME NEW h \in Handlers, Publish(h) PROVE InStep(a)'
    <3>1. ~missed[a]
      BY <2>7 DEF Publish
    <3> QED
      BY <1>2, <2>1, <2>7, <3>1, InStepPublish
  <2> QED
    BY <1>2, <2>2, <2>3, <2>4, <2>5, <2>6, <2>7, StepsSeen
<1> QED
  BY <1>1, <1>2

\* Whatever crashes, outages and lost connections came before, an agent that was
\* sent every change since its last fetch holds, once it has handled them, the
\* current version of every rule in force for it (publisher.go:21-40,
\* listener.go:50-110, agent.go:195-271).
THEOREM SentRulesArrive == Spec => []RulesArrive
<1>1. TypeInv /\ Reached => RulesArrive
  <2> SUFFICES ASSUME TypeInv, Reached, NEW a \in Agents, Quiescent(a), ~missed[a],
                      NEW i \in DOMAIN Visible(a)
               PROVE  i \in DOMAIN store[a] /\ store[a][i] = db[i]
    BY DEF RulesArrive
  <2>1. Underway(a, i) /\ watch[a] = "idle" /\ ~Pending(i)
    BY DEF Reached, InStep, Quiescent, Pending, Idle
  <2>2. queue[a][<<"update", db[i].topic>>] = <<>>
    BY VisibleChannel DEF Quiescent, NoMessages
  <2>3. ~Newest(<<>>, i, db[i])
    BY DEF Newest
  <2> QED
    BY <2>1, <2>2, <2>3 DEF Underway
<1> QED
  BY <1>1, TypeInit, TypeStep, RoutedInductive, ReloadsInductive, DeletionsInductive,
     ReachedInductive, PTL DEF Spec
=============================================================================
