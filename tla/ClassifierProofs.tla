-------------------------- MODULE ClassifierProofs --------------------------
(***************************************************************************)
(* Theorems about Classifier, for any agents, addresses, histories and     *)
(* number of faults.                                                       *)
(***************************************************************************)
EXTENDS Classifier, TLAPS

\* What Decide returns.
Actions == Updates \cup {"rate_limit", "block", "no_change"}
Decision == [class : Classes, action : Actions, limit : Nat]

\* What decide returns for any history: it adds to the whitelist only what it
\* classifies as trusted, a rate limit is positive, and a class that ends or begins
\* the trust asks for a removal, an addition or a block (classifier.go:227-281).
LEMMA DecideSound ==
    ASSUME NEW b \in Baseline, NEW wl \in BOOLEAN
    PROVE  /\ Decide(b, wl) \in Decision
           /\ Decide(b, wl).action = "whitelist_add" => Decide(b, wl).class = "trusted"
           /\ Decide(b, wl).action = "rate_limit" => Decide(b, wl).limit > 0
           /\ Decide(b, wl).class = "unknown" => Decide(b, wl).action = "no_change"
           /\ Decide(b, wl).class = "trusted" =>
                 Decide(b, wl).action = IF wl THEN "no_change" ELSE "whitelist_add"
           /\ Decide(b, wl).class \in {"normal", "suspicious"} =>
                 Decide(b, wl).action \in IF wl THEN {"whitelist_remove", "block"}
                                         ELSE {"no_change", "rate_limit", "block"}
<1>1. Cap(b) \in Nat /\ Cap(b) > 0
  <2> DEFINE x == IF ZAtLeast(b, 40) THEN (b.mean * 4 + 4) \div 5 ELSE (b.mean * 3 + 1) \div 2
  <2>1. b.mean \in Nat
    BY DEF Baseline
  <2>2. (b.mean * 4 + 4) \div 5 \in Int /\ (b.mean * 3 + 1) \div 2 \in Int
    BY <2>1
  <2>3. x \in Int
    BY <2>2
  <2> HIDE DEF x
  <2>4. Larger(1, x) \in Nat /\ Larger(1, x) > 0
    BY <2>3 DEF Larger
  <2> QED
    BY <2>4 DEF Cap, x
<1>2. /\ Demotion(wl) \in {"whitelist_remove", "no_change"}
      /\ Demotion(wl) = IF wl THEN "whitelist_remove" ELSE "no_change"
  BY DEF Demotion
\* The branches exclude each other, so that their order does not matter.
<1> DEFINE short == b.samples < MinBaseSamples
<1>3. short => ~Severe(b) /\ ~Anomalous(b) /\ ~Predictable(b)
  BY DEF Severe, Anomalous, Predictable, MinBaseSamples, MinTrustedSamples, Baseline
<1>4. Severe(b) => ~Anomalous(b)
  BY DEF Severe, Anomalous
<1>5. Predictable(b) => ~Severe(b) /\ ~Anomalous(b)
  <2>1. /\ b.mean \in Nat /\ Distance(b.current, b.mean) \in Nat
        /\ Larger(10 * b.sd, b.mean) \in Nat /\ Larger(10 * b.sd, b.mean) >= b.mean
    BY DEF Baseline, Distance, Larger
  <2>2. ZAtMost15(b) => ~ZAtLeast(b, 30) /\ ~ZAtLeast(b, 50)
    BY <2>1 DEF ZAtMost15, ZAtLeast
  <2> QED
    BY <2>2 DEF Predictable, Severe, Anomalous
<1> USE DEF Verdict, Decision, Classes, Actions, Updates
<1>6. CASE short
  <2>1. Decide(b, wl) = Verdict("unknown", "no_change", 0)
    BY <1>3, <1>6, Zenon DEF Decide
  <2> QED
    BY <2>1
<1>7. CASE Severe(b)
  <2>1. Decide(b, wl) = Verdict("suspicious", "block", 0)
    BY <1>3, <1>4, <1>5, <1>7, Zenon DEF Decide
  <2> QED
    BY <2>1
<1>8. CASE Anomalous(b)
  <2>1. Decide(b, wl) = Verdict("suspicious", IF wl THEN "whitelist_remove" ELSE "rate_limit", Cap(b))
    BY <1>3, <1>4, <1>5, <1>8, Zenon DEF Decide
  <2> QED
    BY <1>1, <2>1
<1>9. CASE Predictable(b)
  <2>1. Decide(b, wl) = Verdict("trusted", IF wl THEN "no_change" ELSE "whitelist_add", 0)
    BY <1>3, <1>5, <1>9, Zenon DEF Decide
  <2> QED
    BY <2>1
<1>10. CASE ~short /\ ~Severe(b) /\ ~Anomalous(b) /\ ~Predictable(b)
  <2>1. Decide(b, wl) = Verdict("normal", Demotion(wl), 0)
    BY <1>10, Zenon DEF Decide
  <2> QED
    BY <1>2, <2>1
<1> QED
  BY <1>6, <1>7, <1>8, <1>9, <1>10

-----------------------------------------------------------------------------
\* The work in hand.
Work == [step : {"publish", "send", "flag"}, ip : IPs,
         action : Updates \cup {"rate_limit", "block"}, limit : Nat, to : SUBSET Agents]

\* Only changes of the whitelist are sent to agents one by one.
WorkOK == work = Idle \/ (work.step # "publish" => work.action \in Updates)

\* The whitelist flag of a row is a boolean.
LEMMA FlagType == ASSUME TypeOK, NEW i \in IPs PROVE row[i].wl \in BOOLEAN
<1>1. row[i] \in [class : Classes, wl : BOOLEAN] \cup {NoRow}
  BY DEF TypeOK
<1>2. NoRow.wl = FALSE
  BY DEF NoRow
<1>3. CASE row[i] = NoRow
  BY <1>2, <1>3, Zenon
<1>4. CASE row[i] \in [class : Classes, wl : BOOLEAN]
  BY <1>4
<1> QED
  BY <1>1, <1>3, <1>4

\* What is found of a row has a boolean flag too, FALSE if nothing is found.
LEMMA PreviousFlag ==
    ASSUME TypeOK, NEW i \in IPs, NEW prev \in Previous(i)
    PROVE  prev.wl \in BOOLEAN /\ (prev.wl => row[i].wl) /\ (prev # row[i] => ~prev.wl)
<1>1. prev = row[i] \/ prev = NoRow
  BY DEF Previous
<1>2. NoRow.wl = FALSE
  BY DEF NoRow
<1> QED
  BY <1>1, <1>2, FlagType, Zenon

\* What classifyIP goes on to publish, and the row it writes.
LEMMA PublicationType ==
    ASSUME TypeOK, NEW i \in IPs, NEW b \in Baseline, NEW prev \in Previous(i),
           NEW d, d = Decide(b, prev.wl), NEW w, w = Publication(i, d, prev)
    PROVE  /\ w \in {Idle} \cup Work
           /\ w # Idle => /\ w.step = "publish" /\ w.ip = i
                          /\ w.action = "rate_limit" => w.limit > 0
                          /\ w.action = "whitelist_add" => d.class = "trusted"
           /\ [class |-> d.class, wl |-> Flag(d, prev.wl)] \in [class : Classes, wl : BOOLEAN]
<1>1. prev.wl \in BOOLEAN
  BY PreviousFlag
<1>2. /\ d \in Decision
      /\ d.action = "whitelist_add" => d.class = "trusted"
      /\ d.action = "rate_limit" => d.limit > 0
  BY <1>1, DecideSound
<1>3. Flag(d, prev.wl) \in BOOLEAN
  BY <1>1, <1>2, Zenon DEF Flag
<1>4. [class |-> d.class, wl |-> Flag(d, prev.wl)] \in [class : Classes, wl : BOOLEAN]
  BY <1>2, <1>3 DEF Decision
<1>5. CASE w = Idle
  BY <1>4, <1>5
<1>6. CASE w # Idle
  <2>1. /\ d.action # "no_change"
        /\ w = [step |-> "publish", ip |-> i, action |-> d.action, to |-> {},
                limit |-> IF d.action = "rate_limit" THEN d.limit ELSE 0]
    BY <1>6 DEF Publication
  <2>2. (IF d.action = "rate_limit" THEN d.limit ELSE 0) \in Nat
    BY <1>2 DEF Decision
  <2>3. w \in Work
    BY <1>2, <2>1, <2>2 DEF Work, Decision, Actions
  <2> QED
    BY <1>2, <1>4, <2>1, <2>3
<1> QED
  BY <1>5, <1>6

\* A bypass list grows by the address added, or not at all.
LEMMA BypassGrows ==
    ASSUME TypeOK, NEW a \in Agents, NEW i \in IPs, NEW q, Add(a, i, q) \/ AddFails(a, i)
    PROVE  /\ bypass' \in [Agents -> SUBSET IPs]
           /\ \A o \in Agents : bypass'[o] \subseteq bypass[o] \cup {i}
<1>1. bypass \in [Agents -> SUBSET IPs]
  BY DEF TypeOK
<1>2. bypass' = bypass \/ bypass' = [bypass EXCEPT ![a] = bypass[a] \cup {i}]
  BY Zenon DEF Add, AddFails
<1>3. CASE bypass' = bypass
  BY <1>1, <1>3
<1>4. CASE bypass' = [bypass EXCEPT ![a] = bypass[a] \cup {i}]
  <2>1. bypass[a] \cup {i} \in SUBSET IPs
    BY <1>1
  <2>2. bypass' \in [Agents -> SUBSET IPs]
    BY <1>1, <1>4, <2>1
  <2>3. \A o \in Agents : bypass'[o] = IF o = a THEN bypass[a] \cup {i} ELSE bypass[o]
    BY <1>1, <1>4
  <2> QED
    BY <2>2, <2>3
<1> QED
  BY <1>2, <1>3, <1>4

\* The classifier, the messages and the lists keep their types: only changes
\* of the whitelist are sent, and a published limit is positive
\* (classifier.go:175-223, 391-409).
THEOREM TypeCorrect == Spec => [](TypeOK /\ WorkOK)
<1> DEFINE Inv == TypeOK /\ WorkOK
<1>1. Init => Inv
  BY ClassifierAssumption DEF Init, TypeOK, WorkOK
<1>2. Inv /\ [Next]_vars => Inv'
  <2> SUFFICES ASSUME TypeOK, WorkOK, [Next]_vars PROVE Inv'
    OBVIOUS
  <2> USE DEF TypeOK, WorkOK, server, agents, excuses
  <2>1. Idle.step = "idle" /\ (work # Idle => work \in Work)
    BY DEF Idle, Work
  <2>2. CASE StartCycle /\ UNCHANGED parses
    BY <2>2 DEF StartCycle
  <2>3. ASSUME NEW i \in IPs, NEW b \in Baselines, NEW prev \in Previous(i),
             Classify(i, b, prev), UNCHANGED parses
      PROVE  Inv'
    <3> DEFINE d == Decide(b, prev.wl)
               r == [class |-> d.class, wl |-> Flag(d, prev.wl)]
    <3> b \in Baseline
      BY ClassifierAssumption
    <3>1. work' \in {Idle} \cup Work /\ r \in [class : Classes, wl : BOOLEAN]
          /\ (work' # Idle => work'.step = "publish" /\ (work'.action = "rate_limit" => work'.limit > 0))
      BY <2>3, PublicationType DEF Classify
    <3>2. row' = [row EXCEPT ![i] = r]
      BY <2>3 DEF Classify
    <3> HIDE DEF r
    <3>3. row' \in [IPs -> [class : Classes, wl : BOOLEAN] \cup {NoRow}]
      BY <3>1, <3>2
    <3>4. faults' \in 0 .. MaxFaults
      BY <2>3, ClassifierAssumption DEF Classify, Fault
    <3>5. trusted' \subseteq IPs /\ stale' \subseteq Agents \X IPs
      BY <2>3 DEF Classify
    <3> HIDE DEF d
    <3> QED
      BY <2>3, <3>1, <3>3, <3>4, <3>5 DEF Classify, Work
  <2>4. ASSUME NEW i \in IPs, NEW b \in Baselines, NEW prev \in Previous(i),
             ClassifyUnsaved(i, b, prev), UNCHANGED parses
      PROVE  Inv'
    <3> b \in Baseline
      BY ClassifierAssumption
    <3>1. /\ work' \in {Idle} \cup Work
          /\ work' # Idle => work'.step = "publish" /\ (work'.action = "rate_limit" => work'.limit > 0)
      BY <2>4, PublicationType DEF ClassifyUnsaved
    <3> QED
      BY <2>4, <3>1, ClassifierAssumption DEF ClassifyUnsaved, Fault, Work
  <2>5. ASSUME NEW i \in IPs, ClassifySkipped(i), UNCHANGED parses PROVE Inv'
    BY <2>5, ClassifierAssumption DEF ClassifySkipped, Fault
  <2>6. CASE PublishRule /\ UNCHANGED parses
    BY <2>6 DEF PublishRule
  <2>7. CASE LookupAgents /\ UNCHANGED parses
    BY <2>1, <2>7 DEF LookupAgents, NotTold, Updates, Work
  <2>8. CASE LookupFails /\ UNCHANGED parses
    <3>1. work' \in Work /\ WorkOK' /\ work'.action \in Updates
      BY <2>1, <2>8 DEF LookupFails, Updates, Work
    <3>2. stale' \subseteq Agents \X IPs /\ missed' \subseteq Agents \X IPs
      BY <2>1, <2>8 DEF LookupFails, NotTold, Work
    <3>3. faults' \in 0 .. MaxFaults
      BY <2>8, ClassifierAssumption DEF LookupFails, Fault
    <3> QED
      BY <2>8, <3>1, <3>2, <3>3 DEF LookupFails, Updates, Work
  <2>9. ASSUME NEW a \in Agents, Send(a), UNCHANGED parses PROVE Inv'
    <3>1. work \in Work /\ work.action \in Updates
      BY <2>1, <2>9 DEF Send
    <3>2. work' \in Work /\ WorkOK' /\ work'.action \in Updates
      BY <2>9, <3>1 DEF Send, Work
    <3>3. [ip |-> work.ip, action |-> work.action] \in Message
      BY <3>1 DEF Work, Message
    <3>4. chan' \in [Agents -> Seq(Message)]
      BY <2>9, <3>3 DEF Send
    <3> QED
      BY <2>9, <3>2, <3>4 DEF Send, Updates, Work
  <2>10. ASSUME NEW a \in Agents, SendLost(a), UNCHANGED parses PROVE Inv'
    <3>1. work \in Work /\ work.action \in Updates
      BY <2>1, <2>10 DEF SendLost
    <3>2. work' \in Work /\ WorkOK' /\ work'.action \in Updates
      BY <2>10, <3>1 DEF SendLost, Work
    <3>3. stale' \subseteq Agents \X IPs /\ missed' \subseteq Agents \X IPs
      BY <2>10, <3>1 DEF SendLost, NotTold, Work
    <3>4. faults' \in 0 .. MaxFaults
      BY <2>10, ClassifierAssumption DEF SendLost, Fault
    <3> QED
      BY <2>10, <3>2, <3>3, <3>4 DEF SendLost, Updates, Work
  <2>11. CASE SetFlag /\ UNCHANGED parses
    <3>1. work.ip \in IPs
      BY <2>1, <2>11 DEF SetFlag, Sent, Work
    <3>2. row[work.ip] \in [class : Classes, wl : BOOLEAN] \/ row[work.ip] = NoRow
      BY <3>1
    <3>3. row' \in [IPs -> [class : Classes, wl : BOOLEAN] \cup {NoRow}]
      <4> DEFINE f == (work.action = "whitelist_add")
                 r == [row[work.ip] EXCEPT !.wl = f]
      <4>1. CASE row[work.ip] = NoRow
        BY <2>11, <4>1 DEF SetFlag
      <4>2. CASE row[work.ip] # NoRow
        <5>1. f \in BOOLEAN
          OBVIOUS
        <5>2. row' = [row EXCEPT ![work.ip] = r]
          BY <2>11, <4>2 DEF SetFlag
        <5> HIDE DEF f
        <5>3. r \in [class : Classes, wl : BOOLEAN]
          BY <3>2, <4>2, <5>1
        <5> HIDE DEF r
        <5> QED
          BY <3>1, <5>2, <5>3
      <4> QED
        BY <4>1, <4>2
    <3> QED
      BY <2>11, <3>3 DEF SetFlag
  <2>12. CASE SetFlagFails /\ UNCHANGED parses
    BY <2>12, ClassifierAssumption DEF SetFlagFails, Fault
  <2>13. CASE RestartServer /\ UNCHANGED parses
    BY <2>1, <2>13, ClassifierAssumption DEF RestartServer, NotTold, Fault, Work
  <2>14. ASSUME NEW a \in Agents, NEW i \in IPs, See(a, i) \/ Forget(a, i), UNCHANGED parses PROVE Inv'
    BY <2>14 DEF See, Forget
  <2>15. ASSUME NEW a \in Agents, NEW i \in IPs, AddFetched(a, i), UNCHANGED parses PROVE Inv'
    BY <2>15, ClassifierAssumption DEF AddFetched, Add, AddFails, Fault
  <2>16. ASSUME NEW a \in Agents, Start(a) \/ FetchDone(a) \/ Stop(a), UNCHANGED parses PROVE Inv'
    <3>1. CASE Start(a)
      BY <2>16, <3>1 DEF Start
    <3>2. CASE FetchDone(a)
      BY <2>16, <3>2 DEF FetchDone
    <3>3. CASE Stop(a)
      BY <2>16, <3>3 DEF Stop
    <3> QED
      BY <2>16, <3>1, <3>2, <3>3
  <2>17. ASSUME NEW a \in Agents, Fetch(a) \/ FetchFails(a), UNCHANGED parses PROVE Inv'
    <3>1. CASE Fetch(a)
      <4>1. Whitelist(a) \subseteq IPs
        BY DEF Whitelist
      <4> QED
        BY <2>17, <3>1, <4>1 DEF Fetch
    <3>2. CASE FetchFails(a)
      BY <2>17, <3>2, ClassifierAssumption DEF FetchFails, Fault
    <3> QED
      BY <2>17, <3>1, <3>2
  <2>18. ASSUME NEW a \in Agents, HandleAdd(a) \/ HandleRemove(a), UNCHANGED parses PROVE Inv'
    <3>1. chan[a] \in Seq(Message) /\ chan[a] # <<>>
      BY <2>18 DEF HandleAdd, HandleRemove
    <3>2. Head(chan[a]) \in Message /\ Tail(chan[a]) \in Seq(Message)
      BY <3>1
    <3>3. Head(chan[a]).ip \in IPs
      BY <3>2 DEF Message
    <3>4. CASE HandleAdd(a)
      <4> DEFINE i == Head(chan[a]).ip
      <4>1. chan' = [chan EXCEPT ![a] = Tail(chan[a])] /\ (Add(a, i, Tail(chan[a])) \/ AddFails(a, i))
        BY <3>4 DEF HandleAdd
      <4>2. chan' \in [Agents -> Seq(Message)]
        BY <3>2, <4>1
      <4> i \in IPs
        BY <3>3
      <4> HIDE DEF i
      <4>3. bypass' \in [Agents -> SUBSET IPs]
        BY <4>1, BypassGrows
      <4>5. missed' \subseteq Agents \X IPs
        BY <4>1 DEF Add, AddFails
      <4>4. faults' \in 0 .. MaxFaults
        BY <4>1, ClassifierAssumption DEF Add, AddFails, Fault
      <4> QED
        BY <2>18, <3>4, <4>2, <4>3, <4>4, <4>5 DEF HandleAdd
    <3>5. CASE HandleRemove(a)
      BY <2>18, <3>2, <3>3, <3>5 DEF HandleRemove
    <3> QED
      BY <2>18, <3>4, <3>5
  <2>19. CASE UNCHANGED vars
    BY <2>19 DEF vars
  <2> QED
    BY <2>2, <2>3, <2>4, <2>5, <2>6, <2>7, <2>8, <2>9, <2>10, <2>11, <2>12, <2>13,
       <2>14, <2>15, <2>16, <2>17, <2>18, <2>19 DEF Next
<1> QED
  BY <1>1, <1>2, PTL DEF Spec

-----------------------------------------------------------------------------
\* What lists, answers, messages and table say in favour of an address, the
\* classifier has once found.
Earned ==
    /\ \A i \in IPs : row[i].wl => i \in trusted
    /\ work # Idle => (work.action = "whitelist_add" => work.ip \in trusted)
    /\ \A a \in Agents : bypass[a] \subseteq trusted /\ reply[a] \subseteq trusted
    /\ \A a \in Agents : \A n \in 1 .. Len(chan[a]) :
          chan[a][n].action = "whitelist_add" => chan[a][n].ip \in trusted

\* Every step keeps it so.
LEMMA EarnedStep == TypeOK /\ WorkOK /\ Earned /\ [Next]_vars => Earned'
<1> SUFFICES ASSUME TypeOK, WorkOK, Earned, [Next]_vars PROVE Earned'
  OBVIOUS
<1> USE DEF Earned, server, agents, excuses
<1>1. Idle.step = "idle" /\ (work # Idle => work \in Work)
  BY DEF Idle, Work, TypeOK
<1>2. ASSUME NEW i \in IPs, NEW b \in Baselines, NEW prev \in Previous(i), Classify(i, b, prev)
      PROVE  Earned'
  <2> DEFINE d == Decide(b, prev.wl)
             f == Flag(d, prev.wl)
  <2> b \in Baseline
    BY ClassifierAssumption
  <2>1. /\ work' # Idle => work'.ip = i /\ (work'.action = "whitelist_add" => d.class = "trusted")
        /\ prev.wl \in BOOLEAN /\ (prev.wl => row[i].wl)
    BY <1>2, PublicationType, PreviousFlag DEF Classify
  <2>2. trusted' = IF d.class = "trusted" THEN trusted \cup {i} ELSE trusted
    BY <1>2 DEF Classify
  <2>3. row' = [row EXCEPT ![i] = [class |-> d.class, wl |-> f]]
    BY <1>2 DEF Classify
  <2>4. f => row[i].wl \/ d.class = "trusted"
    BY <2>1, Zenon DEF Flag
  <2>5. row \in [IPs -> [class : Classes, wl : BOOLEAN] \cup {NoRow}]
    BY DEF TypeOK
  <2> HIDE DEF d, f
  <2>6. ASSUME NEW j \in IPs, row'[j].wl PROVE j \in trusted'
    BY <2>2, <2>3, <2>4, <2>5, <2>6
  <2> QED
    BY <1>2, <2>1, <2>2, <2>6 DEF Classify
<1>3. ASSUME NEW i \in IPs, NEW b \in Baselines, NEW prev \in Previous(i), ClassifyUnsaved(i, b, prev)
      PROVE  Earned'
  <2> DEFINE d == Decide(b, prev.wl)
  <2> b \in Baseline
    BY ClassifierAssumption
  <2>1. work' # Idle => work'.ip = i /\ (work'.action = "whitelist_add" => d.class = "trusted")
    BY <1>3, PublicationType DEF ClassifyUnsaved
  <2>2. trusted' = IF d.class = "trusted" THEN trusted \cup {i} ELSE trusted
    BY <1>3 DEF ClassifyUnsaved
  <2> HIDE DEF d
  <2> QED
    BY <1>3, <2>1, <2>2 DEF ClassifyUnsaved
<1>4. CASE StartCycle \/ PublishRule \/ SetFlagFails \/ RestartServer \/ \E i \in IPs : ClassifySkipped(i)
  BY <1>4 DEF StartCycle, PublishRule, SetFlagFails, RestartServer, ClassifySkipped
<1>5. CASE LookupAgents \/ LookupFails
  <2>1. work \in Work
    BY <1>1, <1>5 DEF LookupAgents, LookupFails
  <2>2. work'.action = work.action /\ work'.ip = work.ip
    BY <1>5, <2>1 DEF LookupAgents, LookupFails, Work
  <2> QED
    BY <1>1, <1>5, <2>2 DEF LookupAgents, LookupFails
<1>6. ASSUME NEW a \in Agents, Send(a) PROVE Earned'
  <2> DEFINE m == [ip |-> work.ip, action |-> work.action]
  <2>1. work \in Work /\ work # Idle
    BY <1>1, <1>6 DEF Send
  <2>2. work'.action = work.action /\ work'.ip = work.ip
    BY <1>6, <2>1 DEF Send, Work
  <2>3. m.action = "whitelist_add" => m.ip \in trusted
    BY <2>1
  <2>4. chan' = chan \/ chan' = [chan EXCEPT ![a] = Append(chan[a], m)]
    BY <1>6 DEF Send
  <2> HIDE DEF m
  <2>5. ASSUME NEW o \in Agents, NEW n \in 1 .. Len(chan'[o]), chan'[o][n].action = "whitelist_add"
        PROVE  chan'[o][n].ip \in trusted
    <3>1. chan \in [Agents -> Seq(Message)]
      BY DEF TypeOK
    <3>2. CASE chan' = chan
      BY <2>5, <3>2
    <3>3. CASE chan' = [chan EXCEPT ![a] = Append(chan[a], m)] /\ o # a
      BY <2>5, <3>1, <3>3
    <3>4. CASE chan' = [chan EXCEPT ![a] = Append(chan[a], m)] /\ o = a
      <4>1. chan'[a] = Append(chan[a], m) /\ chan[a] \in Seq(Message)
        BY <3>1, <3>4
      <4>2. n \in 1 .. Len(chan[a]) \/ n = Len(chan[a]) + 1
        BY <3>4, <4>1
      <4> QED
        BY <2>3, <2>5, <3>4, <4>1, <4>2
    <3> QED
      BY <2>4, <3>2, <3>3, <3>4
  <2> QED
    BY <1>6, <2>1, <2>2, <2>5 DEF Send
<1>7. ASSUME NEW a \in Agents, SendLost(a) PROVE Earned'
  <2>1. work \in Work /\ work # Idle
    BY <1>1, <1>7 DEF SendLost
  <2>2. work'.action = work.action /\ work'.ip = work.ip
    BY <1>7, <2>1 DEF SendLost, Work
  <2> QED
    BY <1>7, <2>1, <2>2 DEF SendLost
<1>8. CASE SetFlag
  <2> DEFINE f == (work.action = "whitelist_add")
  <2>1. work \in Work /\ work # Idle /\ work.ip \in IPs
    BY <1>1, <1>8 DEF SetFlag, Sent, Work
  <2>2. row' = row \/ row' = [row EXCEPT ![work.ip] = [row[work.ip] EXCEPT !.wl = f]]
    BY <1>8 DEF SetFlag
  <2>3. row \in [IPs -> [class : Classes, wl : BOOLEAN] \cup {NoRow}]
    BY DEF TypeOK
  <2>4. f => work.ip \in trusted
    BY <2>1
  <2> HIDE DEF f
  <2>5. row[work.ip] \in [class : Classes, wl : BOOLEAN] \/ row[work.ip] = NoRow
    BY <2>1, <2>3
  <2>6. ASSUME NEW j \in IPs, row'[j].wl PROVE j \in trusted
    BY <2>1, <2>2, <2>3, <2>4, <2>5, <2>6 DEF NoRow
  <2> QED
    BY <1>8, <2>6 DEF SetFlag
<1>9. ASSUME NEW a \in Agents, NEW i \in IPs, See(a, i) \/ Forget(a, i) PROVE Earned'
  BY <1>9 DEF See, Forget
<1>10. ASSUME NEW a \in Agents, Start(a) \/ FetchFails(a) \/ FetchDone(a) PROVE Earned'
  BY <1>10 DEF Start, FetchFails, FetchDone
<1>11. ASSUME NEW a \in Agents, Fetch(a) PROVE Earned'
  <2>1. Whitelist(a) \subseteq trusted
    BY DEF Whitelist
  <2> QED
    BY <1>11, <2>1 DEF Fetch, TypeOK
<1>12. ASSUME NEW a \in Agents, NEW i \in IPs, AddFetched(a, i) PROVE Earned'
  BY <1>12 DEF AddFetched, Add, AddFails, TypeOK
<1>13. ASSUME NEW a \in Agents, HandleAdd(a) \/ HandleRemove(a) PROVE Earned'
  <2>1. chan \in [Agents -> Seq(Message)] /\ chan[a] \in Seq(Message) /\ chan[a] # <<>>
    BY <1>13 DEF HandleAdd, HandleRemove, TypeOK
  <2>2. chan' = [chan EXCEPT ![a] = Tail(chan[a])]
    BY <1>13 DEF HandleAdd, HandleRemove
  <2>3. ASSUME NEW o \in Agents, NEW n \in 1 .. Len(chan'[o]), chan'[o][n].action = "whitelist_add"
        PROVE  chan'[o][n].ip \in trusted
    <3>1. CASE o # a
      BY <2>1, <2>2, <2>3, <3>1
    <3>2. CASE o = a
      <4>1. chan'[a] = Tail(chan[a])
        BY <2>1, <2>2
      <4>2. n + 1 \in 1 .. Len(chan[a]) /\ chan'[a][n] = chan[a][n + 1]
        BY <2>1, <2>3, <3>2, <4>1
      <4> QED
        BY <2>3, <3>2, <4>2
    <3> QED
      BY <3>1, <3>2
  <2>4. CASE HandleAdd(a)
    <3>1. chan[a][1] = Head(chan[a]) /\ 1 \in 1 .. Len(chan[a])
      BY <2>1
    <3>2. Head(chan[a]).ip \in trusted
      BY <2>4, <3>1 DEF HandleAdd
    <3>3. Head(chan[a]) \in Message
      BY <2>1
    <3>4. Head(chan[a]).ip \in IPs /\ (Add(a, Head(chan[a]).ip, Tail(chan[a])) \/ AddFails(a, Head(chan[a]).ip))
      BY <2>4, <3>3 DEF HandleAdd, Message
    <3>5. \A o \in Agents : bypass'[o] \subseteq trusted
      BY <3>2, <3>4, BypassGrows
    <3> QED
      BY <2>3, <2>4, <3>5 DEF HandleAdd
  <2>5. CASE HandleRemove(a)
    <3>1. \A o \in Agents : bypass'[o] \subseteq trusted
      BY <2>5 DEF HandleRemove, TypeOK
    <3> QED
      BY <2>3, <2>5, <3>1 DEF HandleRemove
  <2> QED
    BY <1>13, <2>4, <2>5
<1>14. ASSUME NEW a \in Agents, Stop(a) PROVE Earned'
  BY <1>14 DEF Stop, TypeOK
<1>15. CASE UNCHANGED vars
  BY <1>15 DEF vars
<1> QED
  BY <1>2, <1>3, <1>4, <1>5, <1>6, <1>7, <1>8, <1>9, <1>10, <1>11, <1>12, <1>13, <1>14, <1>15 DEF Next

\* An agent bypasses only addresses the classifier has once found trusted,
\* whatever is lost, fails or restarts (classifier.go:125-142, 205-223;
\* agent.go:53-73, 303-325).
THEOREM OnlyTrustedBypassed == Spec => []BypassTrusted
<1>1. Init => Earned
  <2>1. NoRow.wl = FALSE
    BY DEF NoRow
  <2> QED
    BY <2>1 DEF Init, Earned
<1>2. Earned => BypassTrusted
  BY DEF Earned, BypassTrusted
<1> QED
  BY <1>1, <1>2, EarnedStep, TypeCorrect, PTL DEF Spec

-----------------------------------------------------------------------------
(* Why a list and the table may differ.  The last word on its way to an     *)
(* agent about an address counts, or what the classifier still has to tell  *)
(* it.                                                                      *)

\* The last message of q about address i.
LastSays(q, i, action) ==
    \E n \in DOMAIN q :
        /\ q[n].ip = i /\ q[n].action = action
        /\ \A m \in DOMAIN q : m > n => q[m].ip # i

\* The classifier has yet to tell agent a of the change of address i.
ToTell(a, i, action) ==
    /\ work # Idle /\ work.ip = i /\ work.action = action
    /\ work.step = "publish" \/ (work.step = "send" /\ a \in work.to)

Due(a, i, action) == ToTell(a, i, action) \/ LastSays(chan[a], i, action)

\* The flag of a row agrees with its class; only a short history keeps the
\* flag whatever it was.
RowsFit ==
    \A i \in IPs \ torn :
        /\ row[i].wl => row[i].class \in {"trusted", "unknown"}
        /\ row[i].class = "trusted" => row[i].wl

\* The row is written before the change is published, so that setting the flag
\* again afterwards changes nothing.
WorkFits ==
    work # Idle =>
        /\ (work.action = "whitelist_add" /\ work.ip \notin torn) => row[work.ip].wl
        /\ (work.action = "whitelist_remove" /\ work.ip \notin torn) => ~row[work.ip].wl

\* An agent that is down has nothing, and one that does not parse an address
\* adds none; only a fetch leaves addresses to add.
AgentsFit ==
    \A a \in Agents :
        /\ phase[a] = "down" => chan[a] = <<>>
        /\ phase[a] = "down" \/ ~parses => bypass[a] = {}
        /\ phase[a] # "adding" => reply[a] = {}

\* An agent is going to be told that an address is not whitelisted, or there is
\* no other word on its way and it neither has nor is about to have it.
StaleFits(a, i) ==
    (~row[i].wl /\ <<a, i>> \notin stale) =>
        \/ Due(a, i, "whitelist_remove")
        \/ ~Mentions(chan[a], i) /\ i \notin bypass[a] /\ i \notin reply[a]

\* An agent that has seen a whitelisted address is going to be told, or there
\* is no other word on its way and it has the address, is about to have it or
\* will ask for it.
MissedFits(a, i) ==
    (parses /\ row[i].wl /\ i \in seen[a] /\ <<a, i>> \notin missed) =>
        \/ Due(a, i, "whitelist_add")
        \/ /\ ~Mentions(chan[a], i)
           /\ phase[a] \in {"down", "fetching"} \/ i \in bypass[a] \/ i \in reply[a]

\* Every pair of agent and address that no failed write concerns.
Explained == \A a \in Agents, i \in IPs \ torn : StaleFits(a, i) /\ MissedFits(a, i)

Consistent == RowsFit /\ WorkFits /\ AgentsFit /\ Explained

\* A queue has one last word about an address.
LEMMA OneLastWord ==
    ASSUME NEW q \in Seq(Message), NEW i \in IPs
    PROVE  /\ \A x : LastSays(q, i, x) => Mentions(q, i)
           /\ \A x, y : LastSays(q, i, x) /\ LastSays(q, i, y) => x = y
<1>1. \A x : LastSays(q, i, x) => Mentions(q, i)
  BY DEF LastSays, Mentions
<1>2. ASSUME NEW x, NEW y, LastSays(q, i, x), LastSays(q, i, y) PROVE x = y
  <2>1. PICK n \in DOMAIN q : q[n].ip = i /\ q[n].action = x /\ \A m \in DOMAIN q : m > n => q[m].ip # i
    BY <1>2 DEF LastSays
  <2>2. PICK k \in DOMAIN q : q[k].ip = i /\ q[k].action = y /\ \A m \in DOMAIN q : m > k => q[m].ip # i
    BY <1>2 DEF LastSays
  <2>3. n \in Int /\ k \in Int
    BY <2>1, <2>2
  <2>4. n = k
    BY <2>1, <2>2, <2>3
  <2> QED
    BY <2>1, <2>2, <2>4
<1> QED
  BY <1>1, <1>2

\* A message appended is the last word about its address.
LEMMA Appended ==
    ASSUME NEW q \in Seq(Message), NEW m \in Message, NEW i \in IPs
    PROVE  /\ Append(q, m) \in Seq(Message)
           /\ Mentions(Append(q, m), i) <=> Mentions(q, i) \/ m.ip = i
           /\ m.ip = i => \A x : LastSays(Append(q, m), i, x) <=> m.action = x
           /\ m.ip # i => \A x : LastSays(Append(q, m), i, x) <=> LastSays(q, i, x)
<1> DEFINE r == Append(q, m)
<1>1. /\ r \in Seq(Message) /\ Len(r) = Len(q) + 1 /\ r[Len(q) + 1] = m
      /\ DOMAIN r = 1 .. Len(q) + 1 /\ DOMAIN q = 1 .. Len(q) /\ Len(q) \in Nat
      /\ \A n \in 1 .. Len(q) : r[n] = q[n]
  OBVIOUS
<1> HIDE DEF r
<1>2. Mentions(r, i) <=> Mentions(q, i) \/ m.ip = i
  <2>1. ASSUME Mentions(r, i) PROVE Mentions(q, i) \/ m.ip = i
    <3>1. PICK n \in DOMAIN r : r[n].ip = i
      BY <2>1 DEF Mentions
    <3>2. n \in 1 .. Len(q) \/ n = Len(q) + 1
      BY <1>1
    <3> QED
      BY <1>1, <3>1, <3>2 DEF Mentions
  <2>2. ASSUME Mentions(q, i) \/ m.ip = i PROVE Mentions(r, i)
    <3>1. CASE m.ip = i
      BY <1>1, <3>1 DEF Mentions
    <3>2. CASE Mentions(q, i)
      <4>1. PICK n \in DOMAIN q : q[n].ip = i
        BY <3>2 DEF Mentions
      <4>2. n \in DOMAIN r
        BY <1>1
      <4> QED
        BY <1>1, <4>1, <4>2 DEF Mentions
    <3> QED
      BY <2>2, <3>1, <3>2
  <2> QED
    BY <2>1, <2>2
<1>3. ASSUME m.ip = i, NEW x PROVE LastSays(r, i, x) <=> m.action = x
  <2>1. ASSUME LastSays(r, i, x) PROVE m.action = x
    <3>1. PICK n \in DOMAIN r : r[n].ip = i /\ r[n].action = x /\ \A k \in DOMAIN r : k > n => r[k].ip # i
      BY <2>1 DEF LastSays
    <3>2. n = Len(q) + 1
      BY <1>1, <1>3, <3>1
    <3> QED
      BY <1>1, <3>1, <3>2
  <2>2. ASSUME m.action = x PROVE LastSays(r, i, x)
    <3>1. \A k \in DOMAIN r : ~(k > Len(q) + 1)
      BY <1>1
    <3> QED
      BY <1>1, <1>3, <2>2, <3>1 DEF LastSays
  <2> QED
    BY <2>1, <2>2
<1>4. ASSUME m.ip # i, NEW x PROVE LastSays(r, i, x) <=> LastSays(q, i, x)
  <2>1. ASSUME LastSays(r, i, x) PROVE LastSays(q, i, x)
    <3>1. PICK n \in DOMAIN r : r[n].ip = i /\ r[n].action = x /\ \A k \in DOMAIN r : k > n => r[k].ip # i
      BY <2>1 DEF LastSays
    <3>2. n \in DOMAIN q
      BY <1>1, <1>4, <3>1
    <3>3. q[n].ip = i /\ q[n].action = x /\ \A k \in DOMAIN q : k > n => q[k].ip # i
      BY <1>1, <3>1, <3>2
    <3> QED
      BY <3>2, <3>3 DEF LastSays
  <2>2. ASSUME LastSays(q, i, x) PROVE LastSays(r, i, x)
    <3>1. PICK n \in DOMAIN q : q[n].ip = i /\ q[n].action = x /\ \A k \in DOMAIN q : k > n => q[k].ip # i
      BY <2>2 DEF LastSays
    <3>2. n \in DOMAIN r /\ r[n].ip = i /\ r[n].action = x
      BY <1>1, <3>1
    <3>3. \A k \in DOMAIN r : k > n => r[k].ip # i
      BY <1>1, <1>4, <3>1
    <3> QED
      BY <3>2, <3>3 DEF LastSays
  <2> QED
    BY <2>1, <2>2
<1> QED
  BY <1>1, <1>2, <1>3, <1>4 DEF r

\* A message taken off the front is the last word about its address only if
\* nothing behind it mentions the address.
LEMMA Consumed ==
    ASSUME NEW q \in Seq(Message), q # <<>>, NEW i \in IPs
    PROVE  /\ Head(q) \in Message /\ Tail(q) \in Seq(Message)
           /\ Mentions(q, i) <=> Head(q).ip = i \/ Mentions(Tail(q), i)
           /\ Mentions(Tail(q), i) => \A x : LastSays(q, i, x) <=> LastSays(Tail(q), i, x)
           /\ ~Mentions(Tail(q), i) =>
                 \A x : LastSays(q, i, x) <=> Head(q).ip = i /\ Head(q).action = x
<1> DEFINE h == Head(q)
           t == Tail(q)
<1>1. /\ h \in Message /\ t \in Seq(Message) /\ h = q[1]
      /\ Len(q) \in Nat /\ Len(q) >= 1 /\ Len(t) = Len(q) - 1
      /\ DOMAIN q = 1 .. Len(q) /\ DOMAIN t = 1 .. Len(q) - 1
      /\ \A n \in 1 .. Len(q) - 1 : t[n] = q[n + 1]
  OBVIOUS
<1> HIDE DEF h, t
<1>2. \A n \in DOMAIN q : n = 1 \/ (n - 1 \in DOMAIN t /\ q[n] = t[n - 1])
  BY <1>1
<1>3. \A n \in DOMAIN t : n + 1 \in DOMAIN q /\ t[n] = q[n + 1]
  BY <1>1
<1>4. Mentions(q, i) <=> h.ip = i \/ Mentions(t, i)
  <2>1. ASSUME Mentions(q, i) PROVE h.ip = i \/ Mentions(t, i)
    <3>1. PICK n \in DOMAIN q : q[n].ip = i
      BY <2>1 DEF Mentions
    <3> QED
      BY <1>1, <1>2, <3>1 DEF Mentions
  <2>2. ASSUME h.ip = i \/ Mentions(t, i) PROVE Mentions(q, i)
    <3>1. CASE h.ip = i
      BY <1>1, <3>1 DEF Mentions
    <3>2. CASE Mentions(t, i)
      BY <1>3, <3>2 DEF Mentions
    <3> QED
      BY <2>2, <3>1, <3>2
  <2> QED
    BY <2>1, <2>2
<1>5. ASSUME NEW x, LastSays(t, i, x) PROVE LastSays(q, i, x)
  <2>1. PICK n \in DOMAIN t : t[n].ip = i /\ t[n].action = x /\ \A k \in DOMAIN t : k > n => t[k].ip # i
    BY <1>5 DEF LastSays
  <2>2. n + 1 \in DOMAIN q /\ q[n + 1].ip = i /\ q[n + 1].action = x
    BY <1>3, <2>1
  <2>3. ASSUME NEW k \in DOMAIN q, k > n + 1 PROVE q[k].ip # i
    <3>1. n \in Nat /\ k \in Nat
      BY <1>1
    <3>2. k - 1 \in DOMAIN t /\ q[k] = t[k - 1] /\ k - 1 > n
      BY <1>1, <1>2, <2>3, <3>1
    <3> QED
      BY <2>1, <3>2
  <2> QED
    BY <2>2, <2>3 DEF LastSays
<1>6. ASSUME NEW x, LastSays(q, i, x) PROVE LastSays(t, i, x) \/ (~Mentions(t, i) /\ h.ip = i /\ h.action = x)
  <2>1. PICK n \in DOMAIN q : q[n].ip = i /\ q[n].action = x /\ \A k \in DOMAIN q : k > n => q[k].ip # i
    BY <1>6 DEF LastSays
  <2>2. CASE n = 1
    <3>1. ASSUME NEW k \in DOMAIN t PROVE t[k].ip # i
      BY <1>1, <1>3, <2>1, <2>2
    <3> QED
      BY <1>1, <2>1, <2>2, <3>1 DEF Mentions
  <2>3. CASE n # 1
    <3>1. n - 1 \in DOMAIN t /\ t[n - 1].ip = i /\ t[n - 1].action = x
      BY <1>2, <2>1, <2>3
    <3>2. ASSUME NEW k \in DOMAIN t, k > n - 1 PROVE t[k].ip # i
      <4>1. k + 1 \in DOMAIN q /\ k + 1 > n /\ t[k] = q[k + 1]
        BY <1>1, <1>3, <3>2
      <4> QED
        BY <2>1, <4>1
    <3> QED
      BY <3>1, <3>2 DEF LastSays
  <2> QED
    BY <2>2, <2>3
<1>7. ASSUME ~Mentions(t, i), h.ip = i PROVE LastSays(q, i, h.action)
  <2>1. 1 \in DOMAIN q /\ q[1].ip = i /\ q[1].action = h.action
    BY <1>1, <1>7
  <2>2. ASSUME NEW k \in DOMAIN q, k > 1 PROVE q[k].ip # i
    BY <1>2, <1>7, <2>2 DEF Mentions
  <2> QED
    BY <2>1, <2>2 DEF LastSays
<1>8. \A x : LastSays(t, i, x) => Mentions(t, i)
  BY DEF LastSays, Mentions
<1> QED
  BY <1>1, <1>4, <1>5, <1>6, <1>7, <1>8 DEF h, t

-----------------------------------------------------------------------------
\* What a classification of address i finds in its row, if no write has failed,
\* it leaves fitting, and what it takes away or gives it goes on to publish; a
\* severe anomaly publishes a block instead, and a row that could not be read
\* loses the flag without a word.
LEMMA ClassifyFits ==
    ASSUME TypeOK, RowsFit, NEW i \in IPs, NEW b \in Baseline, NEW prev \in Previous(i),
           NEW d, d = Decide(b, prev.wl), NEW w, w = Publication(i, d, prev),
           NEW f, f = Flag(d, prev.wl), i \notin torn
    PROVE  /\ f \in BOOLEAN
           /\ f => d.class \in {"trusted", "unknown"}
           /\ d.class = "trusted" => f
           /\ (f /\ ~row[i].wl) =>
                 w # Idle /\ w.step = "publish" /\ w.ip = i /\ w.action = "whitelist_add"
           /\ (~f /\ row[i].wl) =>
                 \/ d.class # "trusted" /\ (d.action = "block" \/ prev # row[i])
                 \/ w # Idle /\ w.step = "publish" /\ w.ip = i /\ w.action = "whitelist_remove"
           /\ (w # Idle /\ w.action = "whitelist_add") => f
           /\ (w # Idle /\ w.action = "whitelist_remove") => ~f
<1> DEFINE wl == prev.wl
<1>1. wl \in BOOLEAN /\ row[i].wl \in BOOLEAN /\ (wl => row[i].wl) /\ (prev = row[i] => wl = row[i].wl)
  BY PreviousFlag, FlagType
<1>2. /\ d \in Decision
      /\ d.class = "unknown" => d.action = "no_change"
      /\ d.class = "trusted" => d.action = IF wl THEN "no_change" ELSE "whitelist_add"
      /\ d.class \in {"normal", "suspicious"} =>
            d.action \in IF wl THEN {"whitelist_remove", "block"} ELSE {"no_change", "rate_limit", "block"}
  BY <1>1, DecideSound
<1>3. d.class \in Classes
  BY <1>2 DEF Decision
<1>4. prev.class = "trusted" => wl
  <2>1. NoRow.class = ""
    BY DEF NoRow
  <2>2. row[i].class = "trusted" => row[i].wl
    BY DEF RowsFit
  <2> QED
    BY <1>1, <2>1, <2>2 DEF Previous
<1>9. wl => prev.class \in {"trusted", "unknown"}
  <2>1. wl => prev = row[i]
    BY PreviousFlag
  <2> QED
    BY <1>1, <2>1 DEF RowsFit
<1>5. f \in BOOLEAN /\ (d.class = "unknown" => f = wl) /\ (d.class # "unknown" => f = (d.class = "trusted"))
  BY <1>1, Zenon DEF Flag
<1>6. \/ w = Idle /\ (d.class = prev.class \/ d.action = "no_change")
      \/ /\ w.step = "publish" /\ w.ip = i /\ w.action = d.action /\ w # Idle
         /\ d.class # prev.class /\ d.action # "no_change"
  BY DEF Publication, Idle
<1> HIDE DEF wl
<1>7. CASE wl
  <2>1. d.class = "trusted" => d.action = "no_change"
    BY <1>2, <1>7
  <2>2. d.class \in {"normal", "suspicious"} => d.action \in {"whitelist_remove", "block"}
    BY <1>2, <1>7
  <2>3. ~f => d.class \in {"normal", "suspicious"}
    BY <1>3, <1>5, <1>7, Zenon DEF Classes
  <2>4. f => d.class \in {"trusted", "unknown"}
    BY <1>3, <1>5, <1>7, Zenon DEF Classes
  <2>5. d.class = "trusted" => f
    BY <1>5, Zenon
  <2> QED
    BY <1>1, <1>2, <1>4, <1>5, <1>6, <1>7, <1>9, <2>1, <2>2, <2>3, <2>4, <2>5 DEF wl
<1>8. CASE ~wl
  <2>1. d.class = "trusted" => d.action = "whitelist_add"
    BY <1>2, <1>8
  <2>2. d.class \in {"normal", "suspicious"} => d.action \in {"no_change", "rate_limit", "block"}
    BY <1>2, <1>8
  <2>3. f => d.class = "trusted"
    BY <1>5, <1>8, Zenon
  <2>4. d.class = "trusted" => f
    BY <1>5, Zenon
  <2> QED
    BY <1>1, <1>2, <1>3, <1>4, <1>5, <1>6, <1>8, <2>1, <2>2, <2>3, <2>4 DEF wl, Classes
<1> QED
  BY <1>1, <1>7, <1>8

\* An address that a step neither touches nor leaves untold without an excuse
\* stays explained.
LEMMA Untouched ==
    ASSUME NEW a \in Agents, NEW i \in IPs, StaleFits(a, i), MissedFits(a, i),
           parses' = parses, row'[i].wl = row[i].wl, chan'[a] = chan[a], bypass'[a] = bypass[a],
           reply'[a] = reply[a], phase'[a] = phase[a], i \in seen'[a] => i \in seen[a],
           ToTell(a, i, "whitelist_remove")
               => ToTell(a, i, "whitelist_remove")' \/ <<a, i>> \in stale',
           ToTell(a, i, "whitelist_add")
               => ToTell(a, i, "whitelist_add")' \/ <<a, i>> \in missed',
           <<a, i>> \in stale => <<a, i>> \in stale', <<a, i>> \in missed => <<a, i>> \in missed'
    PROVE  StaleFits(a, i)' /\ MissedFits(a, i)'
<1>1. StaleFits(a, i)'
  BY DEF StaleFits, Due
<1>2. MissedFits(a, i)'
  BY DEF MissedFits, Due
<1> QED
  BY <1>1, <1>2

\* A classification keeps lists and table explained.
LEMMA ClassifyConsistent ==
    ASSUME TypeOK, WorkOK, Consistent, UNCHANGED parses,
           NEW i \in IPs, NEW b \in Baselines, NEW prev \in Previous(i),
           Classify(i, b, prev) \/ ClassifyUnsaved(i, b, prev)
    PROVE  Consistent'
<1> DEFINE d == Decide(b, prev.wl)
           f == Flag(d, prev.wl)
           w == Publication(i, d, prev)
<1> b \in Baseline
  BY ClassifierAssumption
<1>1. /\ work = Idle /\ work' = w
      /\ (w # Idle => w.step = "publish" /\ w.ip = i)
      /\ UNCHANGED agents /\ UNCHANGED seen /\ missed' = missed
  <2>1. work = Idle /\ work' = w /\ UNCHANGED agents /\ UNCHANGED seen /\ missed' = missed
    BY Zenon DEF Classify, ClassifyUnsaved, excuses
  <2>2. w # Idle => w.step = "publish" /\ w.ip = i
    BY PublicationType
  <2> QED
    BY <2>1, <2>2
<1>2. row \in [IPs -> [class : Classes, wl : BOOLEAN] \cup {NoRow}]
  BY DEF TypeOK
<1>3. RowsFit /\ Explained /\ AgentsFit
  BY DEF Consistent
<1>4. AgentsFit'
  BY <1>1, <1>3 DEF AgentsFit, agents
<1>5. CASE ClassifyUnsaved(i, b, prev)
  <2>1. row' = row /\ stale' = stale /\ torn' = torn \cup {i}
    BY <1>5 DEF ClassifyUnsaved, excuses
  <2> HIDE DEF w
  <2>2. RowsFit'
    BY <1>3, <2>1 DEF RowsFit
  <2>3. WorkFits'
    BY <1>1, <2>1 DEF WorkFits
  <2>4. ASSUME NEW o \in Agents, NEW j \in IPs \ torn' PROVE StaleFits(o, j)' /\ MissedFits(o, j)'
    <3>1. StaleFits(o, j) /\ MissedFits(o, j)
      BY <1>3, <2>1 DEF Explained
    <3>2. \A x : ~ToTell(o, j, x)
      BY <1>1 DEF ToTell
    <3> QED
      BY <1>1, <2>1, <3>1, <3>2, Untouched DEF agents
  <2> QED
    BY <1>4, <2>2, <2>3, <2>4 DEF Consistent, Explained
<1>6. CASE Classify(i, b, prev)
  <2>1. /\ row' = [row EXCEPT ![i] = [class |-> d.class, wl |-> f]] /\ torn' = torn
        /\ stale' = IF row[i].wl /\ d.class # "trusted" /\ (d.action = "block" \/ prev # row[i])
                     THEN stale \cup (Agents \X {i}) ELSE stale
    BY <1>6 DEF Classify
  <2>2. i \notin torn =>
           /\ f \in BOOLEAN
           /\ f => d.class \in {"trusted", "unknown"}
           /\ d.class = "trusted" => f
           /\ (f /\ ~row[i].wl) =>
                 w # Idle /\ w.step = "publish" /\ w.ip = i /\ w.action = "whitelist_add"
           /\ (~f /\ row[i].wl) =>
                 \/ d.class # "trusted" /\ (d.action = "block" \/ prev # row[i])
                 \/ w # Idle /\ w.step = "publish" /\ w.ip = i /\ w.action = "whitelist_remove"
           /\ (w # Idle /\ w.action = "whitelist_add") => f
           /\ (w # Idle /\ w.action = "whitelist_remove") => ~f
    BY <1>3, ClassifyFits
  <2> HIDE DEF d, f, w
  <2>3. /\ row'[i].class = d.class /\ row'[i].wl = f
        /\ \A j \in IPs : j # i => row'[j] = row[j]
    BY <1>2, <2>1
  <2>4. RowsFit'
    BY <1>3, <2>1, <2>2, <2>3 DEF RowsFit
  <2>5. WorkFits'
    BY <1>1, <2>1, <2>2, <2>3 DEF WorkFits
  <2>6. ASSUME NEW o \in Agents, NEW j \in IPs \ torn' PROVE StaleFits(o, j)' /\ MissedFits(o, j)'
    <3>1. StaleFits(o, j) /\ MissedFits(o, j)
      BY <1>3, <2>1 DEF Explained
    <3>2. \A x : ~ToTell(o, j, x)
      BY <1>1 DEF ToTell
    <3>3. <<o, j>> \in stale => <<o, j>> \in stale'
      BY <2>1
    <3>4. CASE row'[j].wl = row[j].wl
      BY <1>1, <3>1, <3>2, <3>3, <3>4, Untouched DEF agents
    <3>5. CASE row'[j].wl # row[j].wl
      <4>1. j = i /\ i \notin torn /\ row[i].wl \in BOOLEAN
        BY <2>1, <2>3, <3>5, FlagType
      <4>2. CASE f
        <5>1. ~row[i].wl
          BY <2>2, <2>3, <3>5, <4>1, <4>2, Zenon
        <5>2. ToTell(o, j, "whitelist_add")'
          BY <1>1, <2>2, <4>1, <4>2, <5>1 DEF ToTell
        <5>3. row'[j].wl
          BY <2>3, <4>1, <4>2, Zenon
        <5> QED
          BY <5>2, <5>3 DEF StaleFits, MissedFits, Due
      <4>3. CASE ~f
        <5>1. row[i].wl
          BY <2>2, <2>3, <3>5, <4>1, <4>3, Zenon
        <5>2. ToTell(o, j, "whitelist_remove")' \/ <<o, j>> \in stale'
          BY <1>1, <2>1, <2>2, <4>1, <4>3, <5>1 DEF ToTell
        <5>3. ~row'[j].wl
          BY <2>3, <4>1, <4>3, Zenon
        <5> QED
          BY <5>2, <5>3 DEF StaleFits, MissedFits, Due
      <4> QED
        BY <4>2, <4>3
    <3> QED
      BY <3>4, <3>5
  <2> QED
    BY <1>4, <2>4, <2>5, <2>6 DEF Consistent, Explained
<1> QED
  BY <1>5, <1>6

\* What becomes of the work in hand: an update not sent is excused.
LEMMA PublishConsistent ==
    ASSUME TypeOK, WorkOK, Consistent, UNCHANGED parses,
           \/ PublishRule \/ LookupAgents \/ LookupFails \/ SetFlag \/ SetFlagFails \/ RestartServer
           \/ StartCycle \/ (\E i \in IPs : ClassifySkipped(i)) \/ \E a \in Agents : SendLost(a)
    PROVE  Consistent'
<1> USE DEF agents, excuses
<1>1. /\ UNCHANGED agents /\ UNCHANGED seen /\ torn' = torn
      /\ stale \subseteq stale' /\ missed \subseteq missed'
  BY DEF PublishRule, LookupAgents, LookupFails, SetFlag, SetFlagFails, RestartServer, StartCycle,
         ClassifySkipped, SendLost, NotTold
<1>2. RowsFit /\ WorkFits /\ AgentsFit /\ Explained
  BY DEF Consistent
<1>3. Idle.step = "idle" /\ (work # Idle => work \in Work)
  BY DEF Idle, Work, TypeOK
<1>4. row \in [IPs -> [class : Classes, wl : BOOLEAN] \cup {NoRow}]
  BY DEF TypeOK
\* The flag set after the publication is the one already written.
<1>5. \A j \in IPs : /\ row'[j].class = row[j].class
                     /\ j \notin torn => row'[j].wl = row[j].wl
  <2>1. CASE SetFlag
    <3> DEFINE f == (work.action = "whitelist_add")
    <3>1. work \in Work /\ work # Idle /\ work.action \in Updates
      BY <1>3, <2>1 DEF SetFlag, Sent, WorkOK
    <3>2. \/ row' = row
          \/ row' = [row EXCEPT ![work.ip] = [row[work.ip] EXCEPT !.wl = f]] /\ row[work.ip] # NoRow
      BY <2>1 DEF SetFlag
    <3>3. work.ip \in IPs
      BY <3>1 DEF Work
    <3>4. row[work.ip].wl \in BOOLEAN
      BY <3>3, FlagType
    <3>5. work.ip \notin torn => row[work.ip].wl = f
      <4>1. CASE work.action = "whitelist_add"
        BY <1>2, <3>1, <3>4, <4>1, Zenon DEF WorkFits
      <4>2. CASE work.action = "whitelist_remove"
        <5>1. work.ip \notin torn => ~row[work.ip].wl
          BY <1>2, <3>1, <4>2, Zenon DEF WorkFits
        <5>2. ~f
          BY <4>2
        <5> HIDE DEF f
        <5> QED
          BY <3>4, <5>1, <5>2, Zenon DEF f
      <4> QED
        BY <3>1, <4>1, <4>2 DEF Updates
    <3> HIDE DEF f
    <3>6. CASE row' = row
      BY <3>6
    <3>7. CASE row' = [row EXCEPT ![work.ip] = [row[work.ip] EXCEPT !.wl = f]] /\ row[work.ip] # NoRow
      <4>1. row[work.ip] \in [class : Classes, wl : BOOLEAN]
        BY <1>4, <3>3, <3>7
      <4>2. row'[work.ip].class = row[work.ip].class /\ row'[work.ip].wl = f
        BY <1>4, <3>3, <3>7, <4>1
      <4>3. \A j \in IPs : j # work.ip => row'[j] = row[j]
        BY <1>4, <3>7
      <4> QED
        BY <3>5, <4>2, <4>3
    <3> QED
      BY <3>2, <3>6, <3>7
  <2>2. CASE ~SetFlag
    <3>1. row' = row
      BY <2>2 DEF PublishRule, LookupAgents, LookupFails, SetFlagFails, RestartServer, StartCycle,
                  ClassifySkipped, SendLost
    <3> QED
      BY <3>1
  <2> QED
    BY <2>1, <2>2
<1>6. \/ work' = Idle
      \/ work' = work
      \/ work # Idle /\ work'.ip = work.ip /\ work'.action = work.action /\ row' = row
  <2>1. CASE LookupAgents \/ LookupFails \/ \E a \in Agents : SendLost(a)
    <3>1. work \in Work /\ work # Idle
      BY <1>3, <2>1 DEF LookupAgents, LookupFails, SendLost
    <3> QED
      BY <2>1, <3>1 DEF LookupAgents, LookupFails, SendLost, Work
  <2>2. CASE ~(LookupAgents \/ LookupFails \/ \E a \in Agents : SendLost(a))
    BY <2>2 DEF PublishRule, SetFlag, SetFlagFails, RestartServer, StartCycle, ClassifySkipped
  <2> QED
    BY <2>1, <2>2
<1>7. RowsFit'
  BY <1>1, <1>2, <1>5 DEF RowsFit
<1>8. WorkFits'
  <2>1. ASSUME work' # Idle PROVE work # Idle /\ work'.ip = work.ip /\ work'.action = work.action /\ work.ip \in IPs
    BY <1>3, <1>6, <2>1 DEF Work
  <2> QED
    BY <1>1, <1>2, <1>5, <2>1 DEF WorkFits
<1>9. AgentsFit'
  BY <1>1, <1>2 DEF AgentsFit
<1>10. ASSUME NEW a \in Agents, NEW i \in IPs
       PROVE  /\ ToTell(a, i, "whitelist_remove")
                    => ToTell(a, i, "whitelist_remove")' \/ <<a, i>> \in stale'
              /\ ToTell(a, i, "whitelist_add")
                    => ToTell(a, i, "whitelist_add")' \/ <<a, i>> \in missed'
  <2> DEFINE Goal == /\ ToTell(a, i, "whitelist_remove")
                           => ToTell(a, i, "whitelist_remove")' \/ <<a, i>> \in stale'
                     /\ ToTell(a, i, "whitelist_add")
                           => ToTell(a, i, "whitelist_add")' \/ <<a, i>> \in missed'
  <2>1. CASE LookupAgents
    <3>1. work \in Work /\ work # Idle /\ work' # Idle
      BY <1>3, <2>1 DEF LookupAgents, Work
    <3> QED
      BY <2>1, <3>1 DEF LookupAgents, NotTold, ToTell, Work
  <2>2. CASE LookupFails
    BY <2>2 DEF LookupFails, NotTold, ToTell
  <2>3. ASSUME NEW o \in Agents, SendLost(o) PROVE Goal
    <3>1. work \in Work /\ work # Idle /\ work' # Idle
      BY <1>3, <2>3 DEF SendLost, Work
    <3>2. /\ work'.step = "send" /\ work'.ip = work.ip /\ work'.action = work.action
          /\ work'.to = work.to \ {o}
      BY <2>3, <3>1 DEF SendLost, Work
    <3> QED
      BY <2>3, <3>1, <3>2 DEF SendLost, NotTold, ToTell
  <2>4. CASE RestartServer
    BY <2>4 DEF RestartServer, NotTold, ToTell
  <2>5. CASE SetFlag \/ SetFlagFails
    BY <2>5 DEF SetFlag, SetFlagFails, Sent, ToTell
  <2>6. CASE PublishRule
    BY <2>6 DEF PublishRule, ToTell
  <2>7. CASE StartCycle \/ \E j \in IPs : ClassifySkipped(j)
    BY <2>7 DEF StartCycle, ClassifySkipped, ToTell
  <2> QED
    BY <2>1, <2>2, <2>3, <2>4, <2>5, <2>6, <2>7
<1>11. ASSUME NEW a \in Agents, NEW i \in IPs \ torn' PROVE StaleFits(a, i)' /\ MissedFits(a, i)'
  <2>1. StaleFits(a, i) /\ MissedFits(a, i) /\ i \notin torn
    BY <1>1, <1>2 DEF Explained
  <2>2. row'[i].wl = row[i].wl
    BY <1>5, <2>1
  <2> QED
    BY <1>1, <1>10, <2>1, <2>2, Untouched
<1> QED
  BY <1>7, <1>8, <1>9, <1>11 DEF Consistent, Explained

\* A message sent becomes the last word; one to an agent that is down is gone,
\* as is all the agent had.
LEMMA SendConsistent ==
    ASSUME TypeOK, WorkOK, Consistent, UNCHANGED parses, NEW a \in Agents, Send(a)
    PROVE  Consistent'
<1> DEFINE m == [ip |-> work.ip, action |-> work.action]
<1>1. /\ UNCHANGED <<row, seen, phase, bypass, reply, torn, excuses>>
      /\ chan' = IF phase[a] # "down" THEN [chan EXCEPT ![a] = Append(@, m)] ELSE chan
  BY DEF Send, Subscribed
<1>2. RowsFit /\ WorkFits /\ AgentsFit /\ Explained
  BY DEF Consistent
<1>3. work # Idle /\ work \in Work /\ work.action \in Updates
  BY DEF Send, Idle, Work, TypeOK, WorkOK
<1>4. /\ work'.step = "send" /\ work'.ip = work.ip /\ work'.action = work.action
      /\ work'.to = work.to \ {a} /\ work.step = "send" /\ work' # Idle
  BY <1>3 DEF Send, Work, Idle
<1>5. m \in Message /\ m.ip = work.ip /\ m.action = work.action
  BY <1>3 DEF Message, Work
<1> HIDE DEF m
<1>6. chan \in [Agents -> Seq(Message)] /\ chan[a] \in Seq(Message)
  BY DEF TypeOK
<1>7. RowsFit'
  BY <1>1, <1>2 DEF RowsFit
<1>8. WorkFits'
  BY <1>1, <1>2, <1>3, <1>4 DEF WorkFits
<1>9. AgentsFit'
  <2>1. \A o \in Agents : phase[o] = "down" => chan'[o] = chan[o]
    BY <1>1, <1>6
  <2> QED
    BY <1>1, <1>2, <2>1 DEF AgentsFit
<1>10. ASSUME NEW o \in Agents, NEW i \in IPs \ torn' PROVE StaleFits(o, i)' /\ MissedFits(o, i)'
  <2>1. StaleFits(o, i) /\ MissedFits(o, i) /\ i \notin torn
    BY <1>1, <1>2 DEF Explained
  <2>2. CASE o # a \/ work.ip # i
    <3>1. \A x : ToTell(o, i, x) => ToTell(o, i, x)'
      BY <1>3, <1>4, <2>2 DEF ToTell
    <3>2. /\ Mentions(chan'[o], i) <=> Mentions(chan[o], i)
          /\ \A x : LastSays(chan'[o], i, x) <=> LastSays(chan[o], i, x)
      <4>1. CASE chan'[o] = chan[o]
        BY <4>1
      <4>2. CASE chan'[o] # chan[o]
        <5>1. o = a /\ chan'[a] = Append(chan[a], m)
          BY <1>1, <1>6, <4>2
        <5> QED
          BY <1>5, <1>6, <2>2, <5>1, Appended
      <4> QED
        BY <4>1, <4>2
    <3>3. StaleFits(o, i)'
      BY <1>1, <2>1, <3>1, <3>2 DEF StaleFits, Due, excuses
    <3>4. MissedFits(o, i)'
      BY <1>1, <2>1, <3>1, <3>2 DEF MissedFits, Due, excuses
    <3> QED
      BY <3>3, <3>4
  <2>3. CASE o = a /\ work.ip = i /\ phase[a] = "down"
    <3>1. chan'[a] = chan[a] /\ chan[a] = <<>> /\ bypass[a] = {} /\ reply[a] = {}
      BY <1>1, <1>2, <2>3 DEF AgentsFit
    <3>2. ~Mentions(chan[a], i) /\ \A x : ~LastSays(chan[a], i, x)
      BY <3>1 DEF Mentions, LastSays
    <3> QED
      BY <1>1, <2>3, <3>1, <3>2 DEF StaleFits, MissedFits
  <2>4. CASE o = a /\ work.ip = i /\ phase[a] # "down"
    <3>1. chan'[a] = Append(chan[a], m)
      BY <1>1, <1>6, <2>4
    <3>2. LastSays(chan'[a], i, work.action)
      BY <1>5, <1>6, <2>4, <3>1, Appended
    <3>3. CASE work.action = "whitelist_add"
      <4>1. row[i].wl
        BY <1>2, <1>3, <2>1, <2>4, <3>3 DEF WorkFits
      <4> QED
        BY <1>1, <2>4, <3>2, <3>3, <4>1 DEF StaleFits, MissedFits, Due
    <3>4. CASE work.action = "whitelist_remove"
      <4>1. ~row[i].wl
        BY <1>2, <1>3, <2>1, <2>4, <3>4 DEF WorkFits
      <4> QED
        BY <1>1, <2>4, <3>2, <3>4, <4>1 DEF StaleFits, MissedFits, Due
    <3> QED
      BY <1>3, <3>3, <3>4 DEF Updates
  <2> QED
    BY <2>2, <2>3, <2>4
<1> QED
  BY <1>7, <1>8, <1>9, <1>10 DEF Consistent, Explained

\* What an agent sees, its start, its request and its end.
LEMMA AgentConsistent ==
    ASSUME TypeOK, WorkOK, Consistent, UNCHANGED parses, NEW a \in Agents,
           \/ (\E i \in IPs : See(a, i) \/ Forget(a, i))
           \/ Start(a) \/ Fetch(a) \/ FetchFails(a) \/ FetchDone(a) \/ Stop(a)
    PROVE  Consistent'
<1> USE DEF agents, excuses, server
<1>1. UNCHANGED <<row, work, torn>>
  BY DEF See, Forget, Start, Fetch, FetchFails, FetchDone, Stop
<1>2. RowsFit /\ WorkFits /\ AgentsFit /\ Explained
  BY DEF Consistent
<1>3. /\ chan \in [Agents -> Seq(Message)] /\ phase \in [Agents -> {"down", "fetching", "adding", "up"}]
      /\ bypass \in [Agents -> SUBSET IPs] /\ reply \in [Agents -> SUBSET IPs]
      /\ seen \in [Agents -> SUBSET IPs]
  BY DEF TypeOK
<1>4. RowsFit' /\ WorkFits'
  BY <1>1, <1>2 DEF RowsFit, WorkFits
<1>5. \A o \in Agents, i \in IPs : \A x : ToTell(o, i, x)' <=> ToTell(o, i, x)
  BY <1>1 DEF ToTell
<1>6. AgentsFit'
  <2>1. CASE \E i \in IPs : See(a, i) \/ Forget(a, i)
    BY <1>2, <2>1 DEF See, Forget, AgentsFit
  <2>2. CASE Start(a)
    BY <1>2, <1>3, <2>2 DEF Start, AgentsFit
  <2>3. CASE Fetch(a)
    BY <1>2, <1>3, <2>3 DEF Fetch, AgentsFit
  <2>4. CASE FetchFails(a)
    BY <1>2, <1>3, <2>4 DEF FetchFails, AgentsFit
  <2>5. CASE FetchDone(a)
    BY <1>2, <1>3, <2>5 DEF FetchDone, AgentsFit
  <2>6. CASE Stop(a)
    BY <1>2, <1>3, <2>6 DEF Stop, AgentsFit
  <2> QED
    BY <2>1, <2>2, <2>3, <2>4, <2>5, <2>6
<1>7. ASSUME NEW o \in Agents, NEW i \in IPs \ torn' PROVE StaleFits(o, i)' /\ MissedFits(o, i)'
  <2> DEFINE Goal == StaleFits(o, i)' /\ MissedFits(o, i)'
  <2>1. StaleFits(o, i) /\ MissedFits(o, i) /\ i \in IPs
    BY <1>1, <1>2 DEF Explained
  \* An agent that is down, or has just started, holds nothing and awaits nothing.
  <2>2. phase[o] = "down" => /\ ~Mentions(chan[o], i) /\ \A x : ~LastSays(chan[o], i, x)
                             /\ bypass[o] = {} /\ reply[o] = {}
    BY <1>2 DEF AgentsFit, Mentions, LastSays
  <2>3. ASSUME NEW j \in IPs, See(a, j) \/ Forget(a, j) PROVE Goal
    <3>1. StaleFits(o, i)'
      BY <1>1, <1>5, <2>1, <2>3 DEF See, Forget, StaleFits, Due
    <3>2. MissedFits(o, i)'
      <4>1. CASE See(a, j)
        BY <1>1, <1>3, <1>5, <2>1, <4>1 DEF See, MissedFits, Due
      <4>2. CASE Forget(a, j)
        BY <1>1, <1>3, <1>5, <2>1, <4>2 DEF Forget, MissedFits, Due
      <4> QED
        BY <2>3, <4>1, <4>2
    <3> QED
      BY <3>1, <3>2
  <2>4. CASE Start(a)
    <3>1. StaleFits(o, i)'
      BY <1>1, <1>5, <2>1, <2>2, <2>4 DEF Start, StaleFits, Due
    <3>2. MissedFits(o, i)'
      BY <1>1, <1>3, <1>5, <2>1, <2>4 DEF Start, MissedFits, Due
    <3> QED
      BY <3>1, <3>2
  <2>5. CASE Fetch(a)
    <3>1. \A j \in reply'[o] : j \in reply[o] \/ row[j].wl
      BY <1>3, <2>5 DEF Fetch, Whitelist
    <3>2. StaleFits(o, i)'
      BY <1>1, <1>5, <2>1, <2>5, <3>1 DEF Fetch, StaleFits, Due
    <3>3. MissedFits(o, i)'
      <4>1. CASE o # a
        BY <1>1, <1>3, <1>5, <2>1, <2>5, <4>1 DEF Fetch, MissedFits, Due
      <4>2. CASE o = a
        <5>1. /\ phase[a] = "fetching" /\ phase'[a] = "adding" /\ reply'[a] = Whitelist(a)
              /\ <<a, i>> \notin missed' => <<a, i>> \notin missed \/ ~Mentions(chan[a], i)
              /\ UNCHANGED <<chan, bypass, seen>>
          BY <1>3, <2>5 DEF Fetch
        <5>2. row[i].wl /\ i \in seen[a] => i \in reply'[a]
          BY <2>1, <5>1 DEF Whitelist
        <5>3. reply[a] = {}
          BY <1>2, <5>1 DEF AgentsFit
        <5> QED
          BY <1>1, <1>5, <2>1, <4>2, <5>1, <5>2, <5>3 DEF MissedFits, Due
      <4> QED
        BY <4>1, <4>2
    <3> QED
      BY <3>2, <3>3
  <2>6. CASE FetchFails(a)
    <3>1. StaleFits(o, i)'
      BY <1>1, <1>5, <2>1, <2>6 DEF FetchFails, StaleFits, Due
    <3>2. MissedFits(o, i)'
      BY <1>1, <1>3, <1>5, <2>1, <2>6 DEF FetchFails, MissedFits, Due
    <3> QED
      BY <3>1, <3>2
  <2>7. CASE FetchDone(a)
    <3>1. StaleFits(o, i)'
      BY <1>1, <1>5, <2>1, <2>7 DEF FetchDone, StaleFits, Due
    <3>2. MissedFits(o, i)'
      BY <1>1, <1>3, <1>5, <2>1, <2>7 DEF FetchDone, MissedFits, Due
    <3> QED
      BY <3>1, <3>2
  <2>8. CASE Stop(a)
    <3>1. CASE o # a
      <4>1. chan'[o] = chan[o] /\ phase'[o] = phase[o] /\ bypass'[o] = bypass[o] /\ reply'[o] = reply[o]
        BY <1>3, <2>8, <3>1 DEF Stop
      <4> QED
        BY <1>1, <1>5, <2>1, <2>8, <4>1, Untouched DEF Stop
    <3>2. CASE o = a
      <4>1. chan'[a] = <<>> /\ phase'[a] = "down" /\ bypass'[a] = {} /\ reply'[a] = {}
        BY <1>3, <2>8 DEF Stop
      <4>2. ~Mentions(chan'[a], i)
        BY <4>1 DEF Mentions
      <4> QED
        BY <3>2, <4>1, <4>2 DEF StaleFits, MissedFits
    <3> QED
      BY <3>1, <3>2
  <2> QED
    BY <2>3, <2>4, <2>5, <2>6, <2>7, <2>8
<1> QED
  BY <1>4, <1>6, <1>7 DEF Consistent, Explained

\* Adding an address to a list touches no other address.  If it is among those
\* that parse, the list has it afterwards or the failure is excused; an excuse
\* ends only when no further word about the address is on its way.
LEMMA AddEffect ==
    ASSUME TypeOK, NEW a \in Agents, NEW i \in IPs, NEW q, Add(a, i, q) \/ AddFails(a, i)
    PROVE  /\ \A o \in Agents : o # a \/ ~parses => bypass'[o] = bypass[o]
           /\ \A o \in Agents, j \in IPs : o # a \/ j # i =>
                 /\ j \in bypass'[o] <=> j \in bypass[o]
                 /\ <<o, j>> \in missed' <=> <<o, j>> \in missed
           /\ parses => <<a, i>> \in missed' \/ i \in bypass'[a]
           /\ <<a, i>> \in missed => <<a, i>> \in missed' \/ ~Mentions(q, i)
<1>1. bypass \in [Agents -> SUBSET IPs]
  BY DEF TypeOK
<1>2. CASE Add(a, i, q)
  BY <1>1, <1>2 DEF Add
<1>3. CASE AddFails(a, i)
  BY <1>1, <1>3 DEF AddFails
<1> QED
  BY <1>2, <1>3

\* What an agent adds after its fetch, and what it is told, keeps lists and
\* table explained.
LEMMA ListConsistent ==
    ASSUME TypeOK, WorkOK, Consistent, UNCHANGED parses, NEW a \in Agents,
           (\E i \in IPs : AddFetched(a, i)) \/ HandleAdd(a) \/ HandleRemove(a)
    PROVE  Consistent'
<1> USE DEF agents, excuses, server
<1>1. UNCHANGED <<row, work, torn, seen, phase>>
  BY DEF AddFetched, HandleAdd, HandleRemove
<1>2. RowsFit /\ WorkFits /\ AgentsFit /\ Explained
  BY DEF Consistent
<1>3. /\ chan \in [Agents -> Seq(Message)] /\ \A o \in Agents : chan[o] \in Seq(Message)
      /\ bypass \in [Agents -> SUBSET IPs] /\ reply \in [Agents -> SUBSET IPs]
  BY DEF TypeOK
<1>4. RowsFit' /\ WorkFits'
  BY <1>1, <1>2 DEF RowsFit, WorkFits
<1>5. \A o \in Agents, i \in IPs : \A x : ToTell(o, i, x)' <=> ToTell(o, i, x)
  BY <1>1 DEF ToTell
<1>6. \A o \in Agents, i \in IPs \ torn' : StaleFits(o, i) /\ MissedFits(o, i)
  BY <1>1, <1>2 DEF Explained
<1>7. phase[a] # "down"
  BY <1>2 DEF AddFetched, HandleAdd, HandleRemove, AgentsFit
<1>8. ASSUME NEW k \in IPs, AddFetched(a, k) PROVE Consistent'
  <2>1. /\ phase[a] = "adding" /\ k \in reply[a] /\ UNCHANGED <<chan, stale>>
        /\ reply' = [reply EXCEPT ![a] = @ \ {k}] /\ (Add(a, k, chan[a]) \/ AddFails(a, k))
    BY <1>8 DEF AddFetched
  <2>2. /\ \A o \in Agents : o # a \/ ~parses => bypass'[o] = bypass[o]
        /\ \A o \in Agents, j \in IPs : o # a \/ j # k =>
              /\ j \in bypass'[o] <=> j \in bypass[o]
              /\ <<o, j>> \in missed' <=> <<o, j>> \in missed
        /\ parses => <<a, k>> \in missed' \/ k \in bypass'[a]
        /\ <<a, k>> \in missed => <<a, k>> \in missed' \/ ~Mentions(chan[a], k)
    BY <2>1, AddEffect
  <2>3. \A o \in Agents, j \in IPs : o # a \/ j # k => (j \in reply'[o] <=> j \in reply[o])
    BY <1>3, <2>1
  <2>4. AgentsFit'
    BY <1>1, <1>2, <1>3, <2>1, <2>2 DEF AgentsFit
  <2>5. ASSUME NEW o \in Agents, NEW i \in IPs \ torn' PROVE StaleFits(o, i)' /\ MissedFits(o, i)'
    <3>1. StaleFits(o, i) /\ MissedFits(o, i)
      BY <1>6
    <3>2. CASE o # a \/ i # k
      <4>1. StaleFits(o, i)'
        BY <1>1, <1>5, <2>1, <2>2, <2>3, <3>1, <3>2 DEF StaleFits, Due
      <4>2. MissedFits(o, i)'
        BY <1>1, <1>5, <2>1, <2>2, <2>3, <3>1, <3>2 DEF MissedFits, Due
      <4> QED
        BY <4>1, <4>2
    <3>3. CASE o = a /\ i = k
      <4>1. StaleFits(o, i)'
        BY <1>1, <1>5, <2>1, <3>1, <3>3 DEF StaleFits, Due
      <4>2. MissedFits(o, i)'
        BY <1>1, <1>5, <2>1, <2>2, <3>1, <3>3 DEF MissedFits, Due
      <4> QED
        BY <4>1, <4>2
    <3> QED
      BY <3>2, <3>3
  <2> QED
    BY <1>4, <2>4, <2>5 DEF Consistent, Explained
\* A message taken off the queue.
<1>9. ASSUME HandleAdd(a) \/ HandleRemove(a)
      PROVE  /\ chan[a] # <<>> /\ Head(chan[a]).ip \in IPs /\ Tail(chan[a]) \in Seq(Message)
             /\ chan' = [chan EXCEPT ![a] = Tail(chan[a])] /\ reply' = reply
             /\ chan'[a] = Tail(chan[a])
             /\ \A o \in Agents : o # a => chan'[o] = chan[o]
  <2>1. chan[a] # <<>> /\ chan' = [chan EXCEPT ![a] = Tail(chan[a])] /\ reply' = reply
    BY <1>9 DEF HandleAdd, HandleRemove
  <2>2. Head(chan[a]) \in Message /\ Tail(chan[a]) \in Seq(Message)
    BY <1>3, <2>1
  <2> QED
    BY <1>3, <2>1, <2>2 DEF Message
\* It matters to its own address, when it was the last word.
<1>10. ASSUME HandleAdd(a) \/ HandleRemove(a), NEW o \in Agents, NEW i \in IPs,
              o # a \/ i # Head(chan[a]).ip \/ Mentions(Tail(chan[a]), i)
       PROVE  /\ Mentions(chan'[o], i) <=> Mentions(chan[o], i)
              /\ \A x : LastSays(chan'[o], i, x) <=> LastSays(chan[o], i, x)
  <2>1. CASE o # a
    BY <1>9, <1>10, <2>1
  <2>2. CASE o = a /\ Mentions(Tail(chan[a]), i)
    <3>1. /\ Mentions(chan[a], i)
          /\ \A x : LastSays(chan[a], i, x) <=> LastSays(Tail(chan[a]), i, x)
      BY <1>3, <1>9, <1>10, <2>2, Consumed
    <3> QED
      BY <1>9, <1>10, <2>2, <3>1
  <2>3. CASE o = a /\ ~Mentions(Tail(chan[a]), i)
    <3>1. /\ ~Mentions(chan[a], i)
          /\ \A x : ~LastSays(chan[a], i, x)
      BY <1>3, <1>9, <1>10, <2>3, Consumed
    <3>2. \A x : ~LastSays(Tail(chan[a]), i, x)
      BY <1>9, <1>10, <2>3, OneLastWord
    <3> QED
      BY <1>9, <1>10, <2>3, <3>1, <3>2
  <2> QED
    BY <2>1, <2>2, <2>3
<1>11. ASSUME HandleAdd(a) \/ HandleRemove(a), NEW i \in IPs,
              i = Head(chan[a]).ip, ~Mentions(Tail(chan[a]), i)
       PROVE  /\ Mentions(chan[a], i) /\ ~Mentions(chan'[a], i)
              /\ \A x : LastSays(chan[a], i, x) <=> Head(chan[a]).action = x
              /\ \A x : ~LastSays(chan'[a], i, x)
  <2>1. /\ Mentions(chan[a], i)
        /\ \A x : LastSays(chan[a], i, x) <=> Head(chan[a]).ip = i /\ Head(chan[a]).action = x
    BY <1>3, <1>9, <1>11, Consumed
  <2>2. \A x : ~LastSays(Tail(chan[a]), i, x)
    BY <1>9, <1>11, OneLastWord
  <2> QED
    BY <1>9, <1>11, <2>1, <2>2
<1>12. CASE HandleAdd(a)
  <2> DEFINE k == Head(chan[a]).ip
  <2>1. /\ k \in IPs /\ stale' = stale /\ Head(chan[a]).action = "whitelist_add"
        /\ Add(a, k, Tail(chan[a])) \/ AddFails(a, k)
    BY <1>9, <1>12 DEF HandleAdd
  <2>2. /\ \A o \in Agents : o # a \/ ~parses => bypass'[o] = bypass[o]
        /\ \A o \in Agents, j \in IPs : o # a \/ j # k =>
              /\ j \in bypass'[o] <=> j \in bypass[o]
              /\ <<o, j>> \in missed' <=> <<o, j>> \in missed
        /\ parses => <<a, k>> \in missed' \/ k \in bypass'[a]
        /\ <<a, k>> \in missed => <<a, k>> \in missed' \/ ~Mentions(Tail(chan[a]), k)
    BY <2>1, AddEffect
  <2>3. AgentsFit'
    BY <1>1, <1>2, <1>7, <1>9, <1>12, <2>2 DEF AgentsFit
  <2>4. ASSUME NEW o \in Agents, NEW i \in IPs \ torn' PROVE StaleFits(o, i)' /\ MissedFits(o, i)'
    <3>1. StaleFits(o, i) /\ MissedFits(o, i) /\ reply'[o] = reply[o]
      BY <1>6, <1>9, <1>12
    <3>2. CASE o # a \/ i # k
      <4>1. /\ Mentions(chan'[o], i) <=> Mentions(chan[o], i)
            /\ \A x : LastSays(chan'[o], i, x) <=> LastSays(chan[o], i, x)
        BY <1>10, <1>12, <3>2
      <4>2. StaleFits(o, i)'
        BY <1>1, <1>5, <2>1, <2>2, <3>1, <3>2, <4>1 DEF StaleFits, Due
      <4>3. MissedFits(o, i)'
        BY <1>1, <1>5, <2>2, <3>1, <3>2, <4>1 DEF MissedFits, Due
      <4> QED
        BY <4>2, <4>3
    <3>3. CASE o = a /\ i = k /\ Mentions(Tail(chan[a]), i)
      <4>1. /\ Mentions(chan'[a], i) <=> Mentions(chan[a], i)
            /\ \A x : LastSays(chan'[a], i, x) <=> LastSays(chan[a], i, x)
            /\ Mentions(chan[a], i)
        BY <1>9, <1>10, <1>12, <3>3
      <4>2. StaleFits(o, i)'
        BY <1>1, <1>5, <2>1, <3>1, <3>3, <4>1 DEF StaleFits, Due
      <4>3. MissedFits(o, i)'
        BY <1>1, <1>5, <2>2, <3>1, <3>3, <4>1 DEF MissedFits, Due
      <4> QED
        BY <4>2, <4>3
    <3>4. CASE o = a /\ i = k /\ ~Mentions(Tail(chan[a]), i)
      <4>1. /\ Mentions(chan[a], i) /\ ~Mentions(chan'[a], i)
            /\ \A x : LastSays(chan[a], i, x) <=> Head(chan[a]).action = x
            /\ \A x : ~LastSays(chan'[a], i, x)
        BY <1>11, <1>12, <3>4
      <4>2. StaleFits(o, i)'
        BY <1>1, <1>5, <2>1, <3>1, <3>4, <4>1 DEF StaleFits, Due
      <4>3. MissedFits(o, i)'
        BY <1>1, <2>2, <3>4, <4>1 DEF MissedFits
      <4> QED
        BY <4>2, <4>3
    <3> QED
      BY <3>2, <3>3, <3>4
  <2> QED
    BY <1>4, <2>3, <2>4 DEF Consistent, Explained
<1>13. CASE HandleRemove(a)
  <2> DEFINE k == Head(chan[a]).ip
  <2>1. /\ k \in IPs /\ missed' = missed /\ Head(chan[a]).action = "whitelist_remove"
        /\ bypass' = IF parses THEN [bypass EXCEPT ![a] = @ \ {k}] ELSE bypass
        /\ stale' = IF k \in reply[a] THEN stale \cup {<<a, k>>}
                    ELSE IF Mentions(Tail(chan[a]), k) THEN stale ELSE stale \ {<<a, k>>}
    BY <1>9, <1>13 DEF HandleRemove
  <2> HIDE DEF k
  <2>2. /\ \A o \in Agents, j \in IPs : o # a \/ j # k =>
              /\ j \in bypass'[o] <=> j \in bypass[o]
              /\ <<o, j>> \in stale' <=> <<o, j>> \in stale
        /\ \A o \in Agents : bypass'[o] \subseteq bypass[o]
        /\ parses => k \notin bypass'[a]
    BY <1>3, <2>1
  <2>3. AgentsFit'
    BY <1>1, <1>2, <1>7, <1>9, <1>13, <2>2 DEF AgentsFit
  <2>4. ASSUME NEW o \in Agents, NEW i \in IPs \ torn' PROVE StaleFits(o, i)' /\ MissedFits(o, i)'
    <3>1. StaleFits(o, i) /\ MissedFits(o, i) /\ reply'[o] = reply[o]
      BY <1>6, <1>9, <1>13
    <3>2. CASE o # a \/ i # k
      <4>1. /\ Mentions(chan'[o], i) <=> Mentions(chan[o], i)
            /\ \A x : LastSays(chan'[o], i, x) <=> LastSays(chan[o], i, x)
        BY <1>10, <1>13, <3>2 DEF k
      <4>2. StaleFits(o, i)'
        BY <1>1, <1>5, <2>2, <3>1, <3>2, <4>1 DEF StaleFits, Due
      <4>3. MissedFits(o, i)'
        BY <1>1, <1>5, <2>1, <2>2, <3>1, <3>2, <4>1 DEF MissedFits, Due
      <4> QED
        BY <4>2, <4>3
    <3>3. CASE o = a /\ i = k /\ Mentions(Tail(chan[a]), i)
      <4>1. /\ Mentions(chan'[a], i) /\ Mentions(chan[a], i)
            /\ \A x : LastSays(chan'[a], i, x) <=> LastSays(chan[a], i, x)
        BY <1>9, <1>10, <1>13, <3>3
      <4>2. StaleFits(o, i)'
        BY <1>1, <1>5, <2>1, <2>2, <3>1, <3>3, <4>1 DEF StaleFits, Due
      <4>3. MissedFits(o, i)'
        BY <1>1, <1>5, <2>1, <3>1, <3>3, <4>1 DEF MissedFits, Due
      <4> QED
        BY <4>2, <4>3
    <3>4. CASE o = a /\ i = k /\ ~Mentions(Tail(chan[a]), i)
      <4>1. /\ Mentions(chan[a], i) /\ ~Mentions(chan'[a], i)
            /\ \A x : LastSays(chan[a], i, x) <=> Head(chan[a]).action = x
            /\ \A x : ~LastSays(chan'[a], i, x)
        BY <1>11, <1>13, <3>4 DEF k
      \* The address is gone, unless the agent is about to add it.
      <4>2. StaleFits(o, i)'
        <5>1. <<a, i>> \in stale' \/ i \notin reply[a]
          BY <2>1, <3>4
        <5>2. i \notin bypass'[a]
          BY <1>2, <2>1, <2>2, <3>4 DEF AgentsFit
        <5> QED
          BY <1>1, <3>1, <3>4, <4>1, <5>1, <5>2 DEF StaleFits
      \* The last word was not to add it: that is still to be sent.
      <4>3. MissedFits(o, i)'
        <5>1. ~LastSays(chan[a], i, "whitelist_add")
          BY <2>1, <4>1
        <5> QED
          BY <1>1, <1>5, <2>1, <3>1, <3>4, <4>1, <5>1 DEF MissedFits, Due
      <4> QED
        BY <4>2, <4>3
    <3> QED
      BY <3>2, <3>3, <3>4
  <2> QED
    BY <1>4, <2>3, <2>4 DEF Consistent, Explained
<1> QED
  BY <1>8, <1>12, <1>13

\* Lists and table stay explained.
LEMMA ConsistentStep == TypeOK /\ WorkOK /\ Consistent /\ [Next]_vars => Consistent'
<1> SUFFICES ASSUME TypeOK, WorkOK, Consistent, [Next]_vars PROVE Consistent'
  OBVIOUS
<1>1. ASSUME UNCHANGED parses, NEW i \in IPs,
             \/ \E b \in Baselines, prev \in Previous(i) :
                   Classify(i, b, prev) \/ ClassifyUnsaved(i, b, prev)
             \/ ClassifySkipped(i)
      PROVE  Consistent'
  BY <1>1, ClassifyConsistent, PublishConsistent
<1>2. CASE UNCHANGED parses /\ (StartCycle \/ PublishRule \/ LookupAgents \/ LookupFails
                                \/ SetFlag \/ SetFlagFails \/ RestartServer)
  BY <1>2, PublishConsistent
<1>3. ASSUME UNCHANGED parses, NEW a \in Agents, Send(a) \/ SendLost(a) PROVE Consistent'
  BY <1>3, SendConsistent, PublishConsistent
<1>4. ASSUME UNCHANGED parses, NEW a \in Agents,
             \/ (\E i \in IPs : See(a, i) \/ Forget(a, i))
             \/ Start(a) \/ Fetch(a) \/ FetchFails(a) \/ FetchDone(a) \/ Stop(a)
      PROVE  Consistent'
  BY <1>4, AgentConsistent
<1>5. ASSUME UNCHANGED parses, NEW a \in Agents,
             (\E i \in IPs : AddFetched(a, i)) \/ HandleAdd(a) \/ HandleRemove(a)
      PROVE  Consistent'
  BY <1>5, ListConsistent
<1>6. CASE UNCHANGED vars
  <2>1. RowsFit' /\ WorkFits' /\ AgentsFit'
    BY <1>6 DEF vars, server, agents, excuses, Consistent, RowsFit, WorkFits, AgentsFit
  <2>2. ASSUME NEW a \in Agents, NEW i \in IPs \ torn' PROVE StaleFits(a, i)' /\ MissedFits(a, i)'
    <3>1. StaleFits(a, i) /\ MissedFits(a, i) /\ \A x : ToTell(a, i, x)' <=> ToTell(a, i, x)
      BY <1>6 DEF vars, server, Consistent, Explained, ToTell
    <3> QED
      BY <1>6, <3>1, Untouched DEF vars, server, agents, excuses
  <2> QED
    BY <2>1, <2>2 DEF Consistent, Explained
<1> QED
  BY <1>1, <1>2, <1>3, <1>4, <1>5, <1>6 DEF Next

\* Before the first cycle nothing is whitelisted and no agent has anything.
LEMMA ConsistentInit == Init => Consistent
<1> SUFFICES ASSUME Init PROVE Consistent
  OBVIOUS
<1>1. NoRow.wl = FALSE /\ NoRow.class = ""
  BY DEF NoRow
<1>2. RowsFit /\ WorkFits /\ AgentsFit
  BY <1>1 DEF Init, RowsFit, WorkFits, AgentsFit
<1>3. ASSUME NEW a \in Agents, NEW i \in IPs PROVE StaleFits(a, i) /\ MissedFits(a, i)
  <2>1. ~Mentions(chan[a], i)
    BY DEF Init, Mentions
  <2> QED
    BY <1>1, <2>1 DEF Init, StaleFits, MissedFits
<1> QED
  BY <1>2, <1>3 DEF Consistent, Explained

\* An agent that bypasses an address no longer whitelisted has one of the named
\* excuses, whatever the order of classification, publication, fetch and restart
\* (classifier.go:182-223, 391-409; agent.go:65-71, 315-323).
THEOREM StaleIsExplained == Spec => []StaleBypassExplained
<1>1. TypeOK /\ Consistent => StaleBypassExplained
  <2> SUFFICES ASSUME TypeOK, Consistent, NEW a \in Agents, NEW i \in IPs,
                      Settled(a, i), i \in bypass[a], ~row[i].wl, i \notin torn, <<a, i>> \notin stale
               PROVE  FALSE
    BY DEF StaleBypassExplained
  <2>1. Due(a, i, "whitelist_remove")
    BY DEF Consistent, Explained, StaleFits
  <2> QED
    BY <2>1, OneLastWord DEF Settled, Due, ToTell, TypeOK
<1> QED
  BY <1>1, ConsistentInit, ConsistentStep, TypeCorrect, PTL DEF Spec

\* An agent that filters a whitelisted address it has seen has one of the named
\* excuses (classifier.go:107-142, 391-430; agent.go:59-64, 81, 303-325).
THEOREM MissingIsExplained == Spec => []MissingBypassExplained
<1>1. TypeOK /\ Consistent => MissingBypassExplained
  <2> SUFFICES ASSUME TypeOK, Consistent, NEW a \in Agents, NEW i \in IPs, Settled(a, i),
                      i \in seen[a], row[i].wl, i \notin bypass[a], parses, i \notin torn,
                      <<a, i>> \notin missed
               PROVE  FALSE
    BY DEF MissingBypassExplained
  <2>1. reply[a] = {} /\ phase[a] = "up"
    BY DEF Consistent, AgentsFit, Settled
  <2>2. Due(a, i, "whitelist_add")
    BY <2>1 DEF Consistent, Explained, MissedFits
  <2> QED
    BY <2>2, OneLastWord DEF Settled, Due, ToTell, TypeOK
<1> QED
  BY <1>1, ConsistentInit, ConsistentStep, TypeCorrect, PTL DEF Spec
=============================================================================
