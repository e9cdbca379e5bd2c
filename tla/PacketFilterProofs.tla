------------------------- MODULE PacketFilterProofs -------------------------
(***************************************************************************)
(* Theorems about PacketFilter, for any number of CPUs, durations of       *)
(* blocks, packets and map changes.                                        *)
(***************************************************************************)
EXTENDS PacketFilter, TLAPS

\* A packet has begun in the past.
Begun == \A c \in Cpus : reg[c].start <= now

\* The registers of a CPU.
Registers == [start : Nat, t : Nat, el : Nat, v : Nat, lat : Nat,
              skip : BOOLEAN, drop : BOOLEAN, counted : BOOLEAN]

\* What any look at the maps may decide is an outcome.
LEMMA OutcomesType ==
    \A p, b, u, l, t : Outcomes(p, b, u, l, t) \subseteq Outcome
<1> DEFINE Mk(d, n) == [drop |-> d, counted |-> n]
<1>1. \A d, n \in BOOLEAN : Mk(d, n) \in Outcome
  BY DEF Outcome
<1> HIDE DEF Mk
<1>2. ASSUME NEW p, NEW b, NEW u, NEW l, NEW t, NEW o \in Outcomes(p, b, u, l, t)
      PROVE  o \in {Mk(FALSE, FALSE), Mk(FALSE, TRUE), Mk(TRUE, FALSE), Mk(TRUE, TRUE)}
  BY <1>2, Zenon DEF Outcomes, Mk
<1> QED
  BY <1>1, <1>2

-----------------------------------------------------------------------------
\* The parts of the type invariant that the steps of one kind leave alone.
ClockType  == now \in 0 .. MaxTime
MapType    == /\ protected \in BOOLEAN /\ bypass \in BOOLEAN /\ limited \in BOOLEAN
              /\ until \in Nat \cup {None}
CountType  == counts \in Seq(Nat) /\ live \in 0 .. Len(counts)
StatsType  == lat \in Seq(Entry) /\ stats \in 0 .. Len(lat)
CpuType    == /\ pc \in [Cpus -> Labels] /\ reg \in [Cpus -> Registers]
              /\ could \in [Cpus -> SUBSET Outcome] /\ lived \in [Cpus -> 0 .. 2]
AddsTo     == \A c \in Cpus : pc[c] = "add" => reg[c].el \in DOMAIN counts
UpdatesOf  == \A c \in Cpus : pc[c] \in Updating => reg[c].el \in DOMAIN lat
BoundType  == packets \in 0 .. MaxPackets /\ changes \in 0 .. MaxChanges
GhostType  == counted \in Nat /\ overlap \in BOOLEAN

Parts == /\ ClockType /\ MapType /\ CountType /\ StatsType /\ CpuType
         /\ AddsTo /\ UpdatesOf /\ BoundType /\ GhostType

\* They make up the type invariant, before and after a step.
LEMMA TypeParts == (TypeOK <=> Parts) /\ (TypeOK' <=> Parts')
BY DEF Parts, TypeOK, ClockType, MapType, CountType, StatsType, CpuType, Registers, AddsTo,
       UpdatesOf, BoundType, GhostType

\* The clock is a number.
LEMMA Bounded == ASSUME ClockType PROVE now \in Nat
BY FilterAssumption DEF ClockType

\* A step of CPU c to label m with registers r keeps what is said of the CPUs,
\* if entries are kept and those that m refers to exist.
LEMMA CpuStep ==
    ASSUME ClockType, CpuType, Begun, AddsTo, UpdatesOf,
           NEW c \in Cpus, NEW m \in Labels, NEW r \in Registers, r.start <= now,
           pc' = [pc EXCEPT ![c] = m], reg' = [reg EXCEPT ![c] = r],
           now' = now, could' \in [Cpus -> SUBSET Outcome], lived' \in [Cpus -> 0 .. 2],
           DOMAIN counts \subseteq DOMAIN counts', DOMAIN lat \subseteq DOMAIN lat',
           m = "add" => r.el \in DOMAIN counts', m \in Updating => r.el \in DOMAIN lat'
    PROVE  /\ ClockType' /\ CpuType' /\ Begun' /\ AddsTo' /\ UpdatesOf'
           /\ pc'[c] = m /\ reg'[c] = r
           /\ \A o \in Cpus : o # c => pc'[o] = pc[o] /\ reg'[o] = reg[o]
<1>1. /\ pc' \in [Cpus -> Labels] /\ reg' \in [Cpus -> Registers]
      /\ pc'[c] = m /\ reg'[c] = r
      /\ \A o \in Cpus : o # c => pc'[o] = pc[o] /\ reg'[o] = reg[o]
  BY DEF CpuType
<1>2. Begun'
  BY <1>1 DEF Begun
<1>3. AddsTo'
  BY <1>1 DEF AddsTo
<1>4. UpdatesOf'
  BY <1>1 DEF UpdatesOf
<1> QED
  BY <1>1, <1>2, <1>3, <1>4 DEF ClockType, CpuType

\* So does the step that ends a packet.
LEMMA ReturnStep ==
    ASSUME ClockType, CpuType, Begun, AddsTo, UpdatesOf, NEW c \in Cpus, Return(c), now' = now,
           DOMAIN counts \subseteq DOMAIN counts', DOMAIN lat \subseteq DOMAIN lat'
    PROVE  /\ ClockType' /\ CpuType' /\ Begun' /\ AddsTo' /\ UpdatesOf' /\ pc'[c] = "idle"
           /\ \A o \in Cpus : o # c => pc'[o] = pc[o] /\ reg'[o] = reg[o]
<1>1. ClearReg \in Registers /\ ClearReg.start = 0
  BY DEF ClearReg, Registers
<1>2. "idle" \in Labels /\ "idle" \notin Updating /\ "idle" # "add"
  BY DEF Labels, Updating
<1>3. 0 <= now
  BY Bounded
<1>4. could' \in [Cpus -> SUBSET Outcome] /\ lived' \in [Cpus -> 0 .. 2]
  BY DEF Return, CpuType
<1>5. pc' = [pc EXCEPT ![c] = "idle"] /\ reg' = [reg EXCEPT ![c] = ClearReg]
  BY DEF Return
<1> HIDE DEF ClearReg
<1> QED
  BY <1>1, <1>2, <1>3, <1>4, <1>5, CpuStep

\* What the agent writes is of its type, and the CPUs do not move.
LEMMA ChangeType ==
    ASSUME TypeOK, Begun,
           \/ \E d \in Durations : BlockIP(d)
           \/ UnblockIP
           \/ \E on \in BOOLEAN : SetRateLimit(on) \/ SetBypass(on) \/ SetProtectedPort(on)
    PROVE  TypeOK' /\ Begun' /\ UNCHANGED <<pc, reg, lat>>
<1> USE TypeParts DEF Parts
<1>1. MapType' /\ Change
  BY Bounded, FilterAssumption DEF MapType, BlockIP, UnblockIP, SetRateLimit, SetBypass, SetProtectedPort
<1>2. UNCHANGED <<now, tables, pc, reg, packets, counted, overlap>>
  BY <1>1 DEF Change
<1>3. \A c \in Cpus : Outcomes(protected', bypass', until', limited', Stamp(c)) \subseteq Outcome
  BY OutcomesType
<1>4. could' \in [Cpus -> SUBSET Outcome] /\ lived' \in [Cpus -> 0 .. 2]
  BY <1>1, <1>3 DEF Change, CpuType
<1>5. BoundType'
  BY <1>1, <1>2, FilterAssumption DEF Change, BoundType
<1> QED
  BY <1>1, <1>2, <1>4, <1>5
     DEF ClockType, CountType, StatsType, CpuType, AddsTo, UpdatesOf, GhostType, Begun, tables

\* A tick keeps the types.
LEMMA TickType ==
    ASSUME TypeOK, Begun, Tick
    PROVE  TypeOK' /\ Begun' /\ UNCHANGED <<pc, reg, lat>>
<1> USE TypeParts DEF Parts
<1>1. UNCHANGED <<maps, tables, pc, reg, packets, changes, lived, counted, overlap>>
  BY DEF Tick
<1>2. ClockType' /\ now \in Nat /\ now' = now + 1
  BY Bounded, FilterAssumption DEF Tick, ClockType
<1>3. Begun'
  BY <1>1, <1>2 DEF Begun, CpuType, Registers
<1>4. Current(now') \subseteq Outcome
  BY OutcomesType DEF Current
<1>5. could' \in [Cpus -> SUBSET Outcome]
  BY <1>4 DEF Tick, CpuType
<1> QED
  BY <1>1, <1>2, <1>3, <1>5
     DEF MapType, CountType, StatsType, CpuType, AddsTo, UpdatesOf, GhostType, BoundType, maps, tables

\* So does a new packet.
LEMMA ArriveType ==
    ASSUME TypeOK, Begun, NEW c \in Cpus, Arrive(c)
    PROVE  /\ TypeOK' /\ Begun' /\ UNCHANGED lat /\ pc'[c] = "port"
           /\ \A o \in Cpus : o # c => pc'[o] = pc[o] /\ reg'[o] = reg[o]
<1> USE TypeParts DEF Parts
<1> DEFINE r == [reg[c] EXCEPT !.start = now]
<1>1. r \in Registers /\ r.start <= now
  BY Bounded DEF CpuType, Registers
<1>2. Current(now) \subseteq Outcome
  BY OutcomesType DEF Current
<1>3. could' \in [Cpus -> SUBSET Outcome] /\ lived' \in [Cpus -> 0 .. 2]
  BY <1>2 DEF Arrive, CpuType
<1>4. "port" \in Labels /\ "port" \notin Updating
  BY DEF Labels, Updating
<1>5. /\ pc' = [pc EXCEPT ![c] = "port"] /\ reg' = [reg EXCEPT ![c] = r]
      /\ UNCHANGED <<now, maps, tables, changes, lived, counted, overlap>>
  BY DEF Arrive, At
<1>6. BoundType'
  BY <1>5, FilterAssumption DEF BoundType, Arrive
<1> HIDE DEF r
<1>7. /\ ClockType' /\ CpuType' /\ Begun' /\ AddsTo' /\ UpdatesOf' /\ pc'[c] = "port"
      /\ \A o \in Cpus : o # c => pc'[o] = pc[o] /\ reg'[o] = reg[o]
  BY <1>1, <1>3, <1>4, <1>5, CpuStep DEF tables
<1> QED
  BY <1>5, <1>6, <1>7 DEF MapType, CountType, StatsType, GhostType, maps, tables

-----------------------------------------------------------------------------
\* A CPU about to write a smallest or largest latency has one on that side of
\* the first, which no step changes.
Below(l, i) == l <= lat[i].first
Above(l, i) == lat[i].first <= l
Pending ==
    \A c \in Cpus : /\ pc[c] = "setMin" => Below(reg[c].lat, reg[c].el)
                    /\ pc[c] = "setMax" => Above(reg[c].lat, reg[c].el)

\* The inductive invariant.
FInv == TypeOK /\ Begun /\ LatencyOrdered /\ Pending

\* A lookup, or a read of a field: a CPU moves on to m with registers r.
Looks(c, m, r) ==
    /\ m \in Labels /\ r \in Registers /\ r.start <= now
    /\ pc' = [pc EXCEPT ![c] = m] /\ reg' = [reg EXCEPT ![c] = r]
    /\ m = "add" => r.el \in DOMAIN counts /\ r.el = live
    /\ m = "create" => live = 0
    /\ m \in Updating => r.el \in DOMAIN lat
    /\ m = "setMin" => Below(r.lat, r.el)
    /\ m = "setMax" => Above(r.lat, r.el)
    /\ overlap' \in BOOLEAN
    /\ UNCHANGED <<now, maps, tables, packets, changes, could, lived, counted>>

\* It keeps the invariant.
LEMMA LooksKeep ==
    ASSUME FInv, NEW c \in Cpus, NEW m, NEW r, Looks(c, m, r)
    PROVE  FInv'
<1> USE TypeParts DEF Parts
<1>1. could' \in [Cpus -> SUBSET Outcome] /\ lived' \in [Cpus -> 0 .. 2]
  BY DEF FInv, Looks, CpuType
<1>2. /\ ClockType' /\ CpuType' /\ Begun' /\ AddsTo' /\ UpdatesOf' /\ pc'[c] = m /\ reg'[c] = r
      /\ \A o \in Cpus : o # c => pc'[o] = pc[o] /\ reg'[o] = reg[o]
  BY <1>1, CpuStep DEF FInv, Looks, tables
<1>3. TypeOK'
  BY <1>2 DEF FInv, Looks, MapType, CountType, StatsType, GhostType, BoundType, maps, tables
<1>4. LatencyOrdered' /\ Pending'
  BY <1>2 DEF FInv, Looks, LatencyOrdered, Pending, Below, Above, tables
<1> QED
  BY <1>2, <1>3, <1>4 DEF FInv

\* The entry a CPU updates, and its registers.
LEMMA RegType ==
    ASSUME FInv, NEW c \in Cpus
    PROVE  /\ reg[c] \in Registers /\ reg[c].start <= now /\ now \in Nat
           /\ now - reg[c].start \in Nat /\ overlap \in BOOLEAN
           /\ pc[c] \in Updating => /\ reg[c].el \in DOMAIN lat /\ E(c) \in Entry
                                    /\ E(c).min <= E(c).first /\ E(c).first <= E(c).max
<1> USE TypeParts DEF Parts
<1>1. reg[c] \in Registers /\ reg[c].start <= now /\ now \in Nat /\ overlap \in BOOLEAN
  BY Bounded DEF FInv, CpuType, Begun, GhostType
<1>2. ASSUME pc[c] \in Updating
      PROVE  /\ reg[c].el \in DOMAIN lat /\ E(c) \in Entry
             /\ E(c).min <= E(c).first /\ E(c).first <= E(c).max
  BY <1>2 DEF FInv, UpdatesOf, StatsType, E, LatencyOrdered
<1> QED
  BY <1>1, <1>2 DEF Registers

\* The lookups in the maps of policy_filter only look.
LEMMA LookupsLook ==
    ASSUME FInv, NEW c \in Cpus,
           \/ LookupPort(c) /\ protected
           \/ LookupBypass(c) \/ LookupBlock(c) \/ LookupCount(c) \/ CheckRateLimit(c) \/ LookupStats(c)
    PROVE  \E m, r : Looks(c, m, r)
<1> USE RegType, TypeParts DEF Parts
<1>1. CASE LookupPort(c) /\ protected
  <2>1. Looks(c, "bypass", [reg[c] EXCEPT !.t = now])
    BY <1>1 DEF LookupPort, Looks, Registers, Labels, Updating
  <2> QED
    BY <2>1
<1>2. CASE LookupBypass(c)
  <2>1. bypass \in BOOLEAN
    BY DEF FInv, MapType
  <2>2. Looks(c, IF bypass THEN "count" ELSE "block", [reg[c] EXCEPT !.skip = bypass])
    BY <1>2, <2>1 DEF LookupBypass, At, Looks, Registers, Labels, Updating, ghosts
  <2> QED
    BY <2>2
<1>3. CASE LookupBlock(c)
  <2>1. Blocked(until, reg[c].t) \in BOOLEAN
    BY DEF Blocked
  <2>2. Looks(c, IF Blocked(until, reg[c].t) THEN "latency" ELSE "count",
              [reg[c] EXCEPT !.drop = Blocked(until, reg[c].t)])
    BY <1>3, <2>1 DEF LookupBlock, At, Looks, Registers, Labels, Updating, ghosts
  <2> QED
    BY <2>2
<1>4. CASE LookupCount(c)
  <2>1. live \in Nat /\ (live # 0 => live \in DOMAIN counts)
    BY DEF FInv, CountType
  <2>2. Looks(c, IF live = 0 THEN "create" ELSE "add", [reg[c] EXCEPT !.el = live])
    BY <1>4, <2>1 DEF LookupCount, At, Looks, Registers, Labels, Updating, ghosts
  <2> QED
    BY <2>2
<1>5. CASE CheckRateLimit(c)
  <2>1. PICK d \in BOOLEAN : reg' = [reg EXCEPT ![c].drop = d]
    BY <1>5 DEF CheckRateLimit, FInv, MapType
  <2>2. Looks(c, "latency", [reg[c] EXCEPT !.drop = d])
    BY <1>5, <2>1 DEF CheckRateLimit, At, Looks, Registers, Labels, Updating, ghosts
  <2> QED
    BY <2>2
<1>6. CASE LookupStats(c)
  <2>1. stats \in Nat /\ (stats # 0 => stats \in DOMAIN lat)
    BY DEF FInv, StatsType
  <2>2. overlap' \in BOOLEAN
    BY <1>6 DEF LookupStats
  <2>3. Looks(c, IF stats = 0 THEN "createStats" ELSE "total",
              [reg[c] EXCEPT !.lat = Latency(c), !.el = stats])
    BY <1>6, <2>1, <2>2 DEF LookupStats, Latency, At, Looks, Registers, Labels, Updating
  <2> QED
    BY <2>3
<1> QED
  BY <1>1, <1>2, <1>3, <1>4, <1>5, <1>6

\* So do the reads of update_latency.
LEMMA ReadsLook ==
    ASSUME FInv, NEW c \in Cpus,
           ReadTotal(c) \/ ReadN(c) \/ CompareMin(c) \/ (CompareMax(c) /\ reg[c].lat > E(c).max)
    PROVE  \E m, r : Looks(c, m, r)
<1>1. pc[c] \in Updating
  BY DEF ReadTotal, ReadN, CompareMin, CompareMax, Read, At, Updating
<1>2. /\ reg[c] \in Registers /\ reg[c].start <= now /\ now \in Nat /\ overlap \in BOOLEAN
      /\ reg[c].el \in DOMAIN lat /\ E(c) \in Entry
      /\ E(c).min <= E(c).first /\ E(c).first <= E(c).max
  BY <1>1, RegType
<1>3. CASE ReadTotal(c)
  <2>1. Looks(c, "addTotal", [reg[c] EXCEPT !.v = E(c).total])
    BY <1>2, <1>3 DEF ReadTotal, Read, At, Looks, Entry, Registers, Labels, Updating, ghosts
  <2> QED
    BY <2>1
<1>4. CASE ReadN(c)
  <2>1. Looks(c, "addN", [reg[c] EXCEPT !.v = E(c).n])
    BY <1>2, <1>4 DEF ReadN, Read, At, Looks, Entry, Registers, Labels, Updating, ghosts
  <2> QED
    BY <2>1
<1>5. CASE CompareMin(c)
  <2>1. reg[c].lat < E(c).min => Below(reg[c].lat, reg[c].el)
    BY <1>2 DEF Below, E, Entry, Registers
  <2>2. Looks(c, IF reg[c].lat < E(c).min THEN "setMin" ELSE "max", [reg[c] EXCEPT !.v = E(c).min])
    BY <1>2, <1>5, <2>1 DEF CompareMin, Read, At, Looks, Entry, Registers, Labels, Updating, ghosts
  <2> QED
    BY <2>2
<1>6. CASE CompareMax(c) /\ reg[c].lat > E(c).max
  <2>1. Above(reg[c].lat, reg[c].el)
    BY <1>2, <1>6 DEF Above, E, Entry, Registers
  <2>2. Looks(c, "setMax", reg[c])
    BY <1>2, <1>6, <2>1 DEF CompareMax, Looks, Labels, Updating, FInv, TypeOK
  <2> QED
    BY <2>2
<1> QED
  BY <1>3, <1>4, <1>5, <1>6

\* The packet ends without a write.
LEMMA EndKeeps ==
    ASSUME FInv, NEW c \in Cpus,
           (LookupPort(c) /\ ~protected) \/ (CompareMax(c) /\ ~(reg[c].lat > E(c).max))
    PROVE  FInv'
<1> USE TypeParts DEF Parts
<1>1. Return(c) /\ UNCHANGED <<now, maps, tables, packets, changes, counted, overlap>>
  BY DEF LookupPort, CompareMax
<1>2. /\ ClockType' /\ CpuType' /\ Begun' /\ AddsTo' /\ UpdatesOf' /\ pc'[c] = "idle"
      /\ \A o \in Cpus : o # c => pc'[o] = pc[o] /\ reg'[o] = reg[o]
  BY <1>1, ReturnStep DEF FInv, tables
<1>3. TypeOK'
  BY <1>1, <1>2 DEF FInv, MapType, CountType, StatsType, GhostType, BoundType, maps, tables
<1>4. LatencyOrdered' /\ Pending'
  BY <1>1, <1>2 DEF FInv, LatencyOrdered, Pending, Below, Above, tables
<1> QED
  BY <1>2, <1>3, <1>4 DEF FInv

\* A new counter, or an addition to one.
LEMMA CountKeeps ==
    ASSUME FInv, NEW c \in Cpus, CreateCount(c) \/ AddCount(c)
    PROVE  FInv'
<1> USE TypeParts DEF Parts
<1> DEFINE m == IF reg[c].skip THEN "latency" ELSE "limit"
           r == [reg[c] EXCEPT !.counted = TRUE]
<1>1. /\ Count(c) /\ pc' = [pc EXCEPT ![c] = m] /\ reg' = [reg EXCEPT ![c] = r]
      /\ UNCHANGED <<now, maps, lat, stats, packets, changes, could, lived, overlap>>
      /\ counted' = counted + 1
  BY DEF CreateCount, AddCount, Count
<1>2. counts \in Seq(Nat) /\ live \in 0 .. Len(counts) /\ AddsTo
  BY DEF FInv, CountType
<1>3. m \in Labels /\ m \notin Updating /\ m # "add"
  BY DEF Labels, Updating
<1>4. r \in Registers /\ r.start <= now
  BY RegType DEF Registers
<1>5. CountType' /\ DOMAIN counts \subseteq DOMAIN counts'
  <2>1. CASE CreateCount(c)
    BY <1>2, <2>1 DEF CreateCount, CountType
  <2>2. CASE AddCount(c)
    <3>1. reg[c].el \in DOMAIN counts
      BY <1>2, <2>2 DEF AddCount, AddsTo
    <3>2. counts' = [counts EXCEPT ![reg[c].el] = counts[reg[c].el] + 1] /\ live' = live
      BY <2>2 DEF AddCount
    <3> QED
      BY <1>2, <3>1, <3>2 DEF CountType
  <2> QED
    BY <2>1, <2>2
<1>6. could' \in [Cpus -> SUBSET Outcome] /\ lived' \in [Cpus -> 0 .. 2]
  BY <1>1 DEF FInv, CpuType
<1> HIDE DEF m, r
<1>7. /\ ClockType' /\ CpuType' /\ Begun' /\ AddsTo' /\ UpdatesOf' /\ pc'[c] = m
      /\ \A o \in Cpus : o # c => pc'[o] = pc[o] /\ reg'[o] = reg[o]
  BY <1>1, <1>3, <1>4, <1>5, <1>6, CpuStep DEF FInv
<1>8. TypeOK'
  BY <1>1, <1>5, <1>7 DEF FInv, MapType, StatsType, GhostType, BoundType, maps
<1>9. m # "setMin" /\ m # "setMax"
  BY DEF m
<1>10. LatencyOrdered' /\ Pending'
  BY <1>1, <1>7, <1>9 DEF FInv, LatencyOrdered, Pending, Below, Above
<1> QED
  BY <1>7, <1>8, <1>10 DEF FInv

\* Entry i becomes e, with the same first latency.
Puts(i, e) ==
    /\ i \in DOMAIN lat /\ e \in Entry /\ e.first = lat[i].first
    /\ e.min <= e.first /\ e.first <= e.max
    /\ lat' = [lat EXCEPT ![i] = e] /\ stats' = stats

\* A put, or a new entry of one latency, keeps the latencies in order.
LEMMA PutKeeps ==
    ASSUME FInv,
           \/ \E i, e : Puts(i, e)
           \/ \E l \in Nat : /\ lat' = Append(lat, [total |-> l, n |-> 1, min |-> l, max |-> l, first |-> l])
                             /\ stats' = Len(lat')
    PROVE  /\ StatsType' /\ LatencyOrdered' /\ DOMAIN lat \subseteq DOMAIN lat'
           /\ \A i \in DOMAIN lat : lat'[i].first = lat[i].first
<1>1. lat \in Seq(Entry) /\ stats \in 0 .. Len(lat) /\ LatencyOrdered
  BY TypeParts DEF Parts, FInv, StatsType
<1>2. CASE \E i, e : Puts(i, e)
  <2>1. PICK i, e : Puts(i, e)
    BY <1>2
  <2>2. lat' \in Seq(Entry) /\ Len(lat') = Len(lat) /\ DOMAIN lat' = DOMAIN lat
    BY <1>1, <2>1 DEF Puts
  <2>3. \A j \in DOMAIN lat : lat'[j] = IF j = i THEN e ELSE lat[j]
    BY <1>1, <2>1 DEF Puts
  <2>4. \A j \in DOMAIN lat : lat'[j].first = lat[j].first
    BY <2>1, <2>3 DEF Puts
  <2>5. LatencyOrdered'
    BY <1>1, <2>1, <2>2, <2>3 DEF Puts, LatencyOrdered
  <2> QED
    BY <1>1, <2>1, <2>2, <2>4, <2>5 DEF Puts, StatsType
<1>3. ASSUME NEW l \in Nat,
             lat' = Append(lat, [total |-> l, n |-> 1, min |-> l, max |-> l, first |-> l]),
             stats' = Len(lat')
      PROVE  /\ StatsType' /\ LatencyOrdered' /\ DOMAIN lat \subseteq DOMAIN lat'
             /\ \A i \in DOMAIN lat : lat'[i].first = lat[i].first
  <2> DEFINE e == [total |-> l, n |-> 1, min |-> l, max |-> l, first |-> l]
  <2>1. e \in Entry /\ e.min <= e.first /\ e.first <= e.max
    BY DEF Entry
  <2>2. lat' = Append(lat, e)
    BY <1>3
  <2> HIDE DEF e
  <2>3. lat' \in Seq(Entry) /\ Len(lat') = Len(lat) + 1
    BY <1>1, <2>1, <2>2
  <2>4. \A j \in DOMAIN lat' : lat'[j] = IF j = Len(lat) + 1 THEN e ELSE lat[j]
    BY <1>1, <2>2
  <2>5. DOMAIN lat \subseteq DOMAIN lat' /\ Len(lat) + 1 \notin DOMAIN lat
    BY <1>1, <2>3
  <2>6. \A j \in DOMAIN lat' : j = Len(lat) + 1 \/ j \in DOMAIN lat
    BY <1>1, <2>3
  <2>7. LatencyOrdered'
    BY <1>1, <2>1, <2>4, <2>6 DEF LatencyOrdered
  <2> QED
    BY <1>3, <2>3, <2>4, <2>5, <2>7 DEF StatsType
<1> QED
  BY <1>2, <1>3

\* A write to a field.
LEMMA WriteKeeps ==
    ASSUME FInv, NEW c \in Cpus, AddTotal(c) \/ AddN(c) \/ SetMin(c)
    PROVE  FInv'
<1> USE TypeParts DEF Parts
<1>1. PICK m, e :
        /\ m \in {"n", "min", "max"}
        /\ e = [E(c) EXCEPT !.total = reg[c].v + reg[c].lat] \/ e = [E(c) EXCEPT !.n = reg[c].v + 1]
           \/ (pc[c] = "setMin" /\ e = [E(c) EXCEPT !.min = reg[c].lat])
        /\ pc[c] \in Updating /\ pc' = [pc EXCEPT ![c] = m]
        /\ lat' = [lat EXCEPT ![reg[c].el] = e]
        /\ UNCHANGED <<now, maps, counts, live, stats, reg, packets, changes, ghosts>>
  BY DEF AddTotal, AddN, SetMin, Write, At, Updating
<1>2. /\ reg[c] \in Registers /\ reg[c].start <= now
      /\ reg[c].el \in DOMAIN lat /\ E(c) \in Entry /\ E(c) = lat[reg[c].el]
      /\ E(c).min <= E(c).first /\ E(c).first <= E(c).max
  BY <1>1, RegType DEF E
<1>3. pc[c] = "setMin" => reg[c].lat <= E(c).first
  <2>1. Pending
    BY DEF FInv
  <2>2. pc[c] = "setMin" => Below(reg[c].lat, reg[c].el)
    BY <2>1 DEF Pending
  <2> QED
    BY <2>2 DEF Below, E
<1>4. e \in Entry /\ e.first = E(c).first /\ e.min <= e.first /\ e.first <= e.max
  BY <1>1, <1>2, <1>3 DEF Entry, Registers
<1>5. Puts(reg[c].el, e)
  BY <1>1, <1>2, <1>4 DEF Puts, ghosts
<1>6. /\ StatsType' /\ LatencyOrdered' /\ DOMAIN lat \subseteq DOMAIN lat'
      /\ \A i \in DOMAIN lat : lat'[i].first = lat[i].first
  BY <1>5, PutKeeps
<1>7. /\ m \in Labels /\ m # "add" /\ m # "setMin" /\ m # "setMax"
  BY <1>1 DEF Labels, Updating
<1>8. reg' = [reg EXCEPT ![c] = reg[c]]
  BY <1>1 DEF FInv, CpuType
<1>9. could' \in [Cpus -> SUBSET Outcome] /\ lived' \in [Cpus -> 0 .. 2]
  BY <1>1 DEF FInv, CpuType, ghosts
<1>10. /\ ClockType' /\ CpuType' /\ Begun' /\ AddsTo' /\ UpdatesOf' /\ pc'[c] = m
       /\ \A o \in Cpus : o # c => pc'[o] = pc[o] /\ reg'[o] = reg[o]
  <2>1. ClockType /\ CpuType /\ Begun /\ AddsTo /\ UpdatesOf
    BY DEF FInv
  <2>2. now' = now /\ DOMAIN counts \subseteq DOMAIN counts' /\ pc' = [pc EXCEPT ![c] = m]
    BY <1>1
  <2>3. reg[c].el \in DOMAIN lat'
    BY <1>2, <1>6
  <2> QED
    BY <1>2, <1>6, <1>7, <1>8, <1>9, <2>1, <2>2, <2>3, CpuStep
<1>11. TypeOK'
  BY <1>1, <1>6, <1>10 DEF FInv, MapType, CountType, GhostType, BoundType, maps, ghosts
<1>12. Pending'
  BY <1>6, <1>7, <1>10 DEF FInv, Pending, Below, Above, UpdatesOf, Updating
<1> QED
  BY <1>6, <1>10, <1>11, <1>12 DEF FInv

\* The last write of a packet.
LEMMA LastKeeps ==
    ASSUME FInv, NEW c \in Cpus, CreateStats(c) \/ SetMax(c)
    PROVE  FInv'
<1> USE TypeParts DEF Parts
<1>1. Return(c) /\ UNCHANGED <<now, maps, counts, live, packets, changes, counted, overlap>>
  BY DEF CreateStats, SetMax
<1>2. /\ StatsType' /\ LatencyOrdered' /\ DOMAIN lat \subseteq DOMAIN lat'
      /\ \A i \in DOMAIN lat : lat'[i].first = lat[i].first
  <2>1. CASE CreateStats(c)
    <3>1. reg[c].lat \in Nat
      BY RegType DEF Registers
    <3> QED
      BY <2>1, <3>1, PutKeeps DEF CreateStats
  <2>2. CASE SetMax(c)
    <3>1. pc[c] = "setMax" /\ pc[c] \in Updating
      BY <2>2 DEF SetMax, Updating
    <3>2. /\ reg[c] \in Registers /\ reg[c].el \in DOMAIN lat /\ E(c) \in Entry /\ E(c) = lat[reg[c].el]
          /\ E(c).min <= E(c).first
      BY <3>1, RegType DEF E
    <3>3. E(c).first <= reg[c].lat
      <4>1. Pending
        BY DEF FInv
      <4>2. Above(reg[c].lat, reg[c].el)
        BY <3>1, <4>1 DEF Pending
      <4> QED
        BY <4>2 DEF Above, E
    <3> DEFINE e == [E(c) EXCEPT !.max = reg[c].lat]
    <3>4. e \in Entry /\ e.first = E(c).first /\ e.min <= e.first /\ e.first <= e.max
      BY <3>2, <3>3 DEF Entry, Registers
    <3>5. lat' = [lat EXCEPT ![reg[c].el] = e] /\ stats' = stats
      BY <1>1, <2>2, <3>2 DEF SetMax
    <3> HIDE DEF e
    <3>6. Puts(reg[c].el, e)
      BY <3>2, <3>4, <3>5 DEF Puts
    <3> QED
      BY <3>6, PutKeeps
  <2> QED
    BY <2>1, <2>2
<1>3. /\ ClockType' /\ CpuType' /\ Begun' /\ AddsTo' /\ UpdatesOf' /\ pc'[c] = "idle"
      /\ \A o \in Cpus : o # c => pc'[o] = pc[o] /\ reg'[o] = reg[o]
  BY <1>1, <1>2, ReturnStep DEF FInv
<1>4. TypeOK'
  BY <1>1, <1>2, <1>3 DEF FInv, MapType, CountType, GhostType, BoundType, maps
<1>5. Pending'
  BY <1>2, <1>3 DEF FInv, Pending, Below, Above, UpdatesOf, Updating
<1> QED
  BY <1>2, <1>3, <1>4, <1>5 DEF FInv

\* At the start no entry exists and every CPU is idle.
LEMMA FInvInit == Init => FInv
<1> SUFFICES ASSUME Init PROVE FInv
  OBVIOUS
<1> USE FilterAssumption
<1>1. ClearReg \in Registers /\ ClearReg.start = 0
  BY DEF ClearReg, Registers
<1>2. "idle" \in Labels /\ "idle" \notin Updating
  BY DEF Labels, Updating
<1>3. CpuType /\ AddsTo /\ UpdatesOf /\ Begun /\ Pending
  BY <1>1, <1>2 DEF Init, CpuType, AddsTo, UpdatesOf, Begun, Pending
<1>4. ClockType /\ BoundType /\ GhostType
  <2>1. now = 0 /\ packets = 0 /\ changes = 0 /\ counted = 0 /\ overlap = FALSE
    BY DEF Init
  <2>2. overlap \in BOOLEAN
    BY <2>1
  <2> QED
    BY <2>1, <2>2 DEF ClockType, BoundType, GhostType
<1>5. MapType
  BY DEF Init, MapType
<1>6. CountType /\ StatsType /\ LatencyOrdered
  BY DEF Init, CountType, StatsType, LatencyOrdered
<1> QED
  BY <1>3, <1>4, <1>5, <1>6, TypeParts DEF Parts, FInv

\* Every step keeps the invariant.
LEMMA FInvStep == FInv /\ [Next]_vars => FInv'
<1> SUFFICES ASSUME FInv, [Next]_vars PROVE FInv'
  OBVIOUS
<1>1. CASE Tick \/ (\E d \in Durations : BlockIP(d)) \/ UnblockIP
           \/ (\E on \in BOOLEAN : SetRateLimit(on) \/ SetBypass(on) \/ SetProtectedPort(on))
  <2>1. TypeOK' /\ Begun' /\ UNCHANGED <<pc, reg, lat>>
    BY <1>1, TickType, ChangeType DEF FInv
  <2>2. LatencyOrdered' /\ Pending'
    BY <2>1 DEF FInv, LatencyOrdered, Pending, Below, Above
  <2> QED
    BY <2>1, <2>2 DEF FInv
<1>2. ASSUME NEW c \in Cpus, Arrive(c) PROVE FInv'
  <2>1. /\ TypeOK' /\ Begun' /\ UNCHANGED lat /\ pc'[c] = "port"
        /\ \A o \in Cpus : o # c => pc'[o] = pc[o] /\ reg'[o] = reg[o]
    BY <1>2, ArriveType DEF FInv
  <2>2. LatencyOrdered' /\ Pending'
    BY <2>1 DEF FInv, LatencyOrdered, Pending, Below, Above
  <2> QED
    BY <2>1, <2>2 DEF FInv
<1>3. ASSUME NEW c \in Cpus,
             LookupPort(c) \/ LookupBypass(c) \/ LookupBlock(c) \/ LookupCount(c)
             \/ CheckRateLimit(c) \/ LookupStats(c)
      PROVE  FInv'
  BY <1>3, LookupsLook, LooksKeep, EndKeeps
<1>4. ASSUME NEW c \in Cpus, ReadTotal(c) \/ ReadN(c) \/ CompareMin(c) \/ CompareMax(c) PROVE FInv'
  BY <1>4, ReadsLook, LooksKeep, EndKeeps
<1>5. ASSUME NEW c \in Cpus, CreateCount(c) \/ AddCount(c) \/ AddTotal(c) \/ AddN(c) \/ SetMin(c)
                             \/ CreateStats(c) \/ SetMax(c)
      PROVE  FInv'
  BY <1>5, CountKeeps, WriteKeeps, LastKeeps
<1>6. CASE UNCHANGED vars
  BY <1>6 DEF FInv, TypeOK, Begun, LatencyOrdered, Pending, Below, Above, vars, maps, tables, ghosts
<1> QED
  BY <1>1, <1>2, <1>3, <1>4, <1>5, <1>6 DEF Next

\* So it always holds.
LEMMA FInvAlways == Spec => []FInv
<1> QED
  BY FInvInit, FInvStep, PTL DEF Spec

\* Every variable keeps its type; registers refer to entries that exist, and a
\* latency is not negative (policy.c:165-292).
THEOREM TypeCorrect == Spec => []TypeOK
<1>1. FInv => TypeOK
  BY DEF FInv
<1> QED
  BY <1>1, FInvAlways, PTL

\* On any number of CPUs whose updates overlap, the smallest latency of an entry
\* is at most the first one and the largest is at least the first one, as no
\* CPU writes one of them without having compared it (policy.c:165-188).
THEOREM LatencyAlwaysOrdered == Spec => []LatencyOrdered
<1>1. FInv => LatencyOrdered
  BY DEF FInv
<1> QED
  BY <1>1, FInvAlways, PTL

-----------------------------------------------------------------------------
\* What happens to the counter of the address, if anything.
CountsOnce == Steady' /\ counts'[live'] - counts[live] = counted' - counted

\* A step of c that leaves the counters alone keeps them steady.
LEMMA IdleCount ==
    ASSUME FInv, Steady, UNCHANGED <<counts, live, counted>>, NEW c \in Cpus,
           \A o \in Cpus : o # c => pc'[o] = pc[o] /\ reg'[o] = reg[o],
           pc'[c] # "create", pc'[c] = "add" => reg'[c].el = live
    PROVE  CountsOnce
<1>1. Steady'
  BY DEF Steady
<1>2. counts[live] \in Nat /\ counted \in Nat
  BY TypeParts DEF FInv, Parts, CountType, GhostType, Steady
<1> QED
  BY <1>1, <1>2 DEF CountsOnce

\* Every step from a steady state counts once what it counts.
LEMMA CountStep == FInv /\ Steady /\ Next => CountsOnce
<1> SUFFICES ASSUME FInv, Steady, Next PROVE CountsOnce
  OBVIOUS
<1>0. /\ pc \in [Cpus -> Labels] /\ reg \in [Cpus -> Registers] /\ CountType /\ AddsTo
      /\ counted \in Nat
  BY TypeParts DEF FInv, Parts, CpuType, GhostType
<1>1. CASE Tick \/ (\E d \in Durations : BlockIP(d)) \/ UnblockIP
           \/ (\E on \in BOOLEAN : SetRateLimit(on) \/ SetBypass(on) \/ SetProtectedPort(on))
  <2>1. UNCHANGED <<counts, live, counted, pc, reg>>
    BY <1>1 DEF Tick, BlockIP, UnblockIP, SetRateLimit, SetBypass, SetProtectedPort, Change, tables
  <2>2. Steady'
    BY <2>1 DEF Steady
  <2>3. counts[live] \in Nat
    BY <1>0 DEF CountType, Steady
  <2> QED
    BY <1>0, <2>1, <2>2, <2>3 DEF CountsOnce
<1>2. ASSUME NEW c \in Cpus, Arrive(c) PROVE CountsOnce
  <2>1. UNCHANGED <<counts, live, counted>> /\ pc' = [pc EXCEPT ![c] = "port"]
    BY <1>2 DEF Arrive, At, tables
  <2>2. reg' = [reg EXCEPT ![c].start = now]
    BY <1>2 DEF Arrive
  <2> QED
    BY <1>0, <2>1, <2>2, IdleCount
<1>3. ASSUME NEW c \in Cpus, NEW m, NEW r, Looks(c, m, r) PROVE CountsOnce
  <2>1. UNCHANGED <<counts, live, counted>> /\ pc'[c] = m /\ reg'[c] = r
    BY <1>0, <1>3 DEF Looks, tables
  <2>2. \A o \in Cpus : o # c => pc'[o] = pc[o] /\ reg'[o] = reg[o]
    BY <1>0, <1>3 DEF Looks
  <2>3. m # "create" /\ (m = "add" => r.el = live)
    BY <1>3 DEF Looks, Steady
  <2> QED
    BY <2>1, <2>2, <2>3, IdleCount
<1>4. ASSUME NEW c \in Cpus, Return(c), UNCHANGED <<counts, live, counted>> PROVE CountsOnce
  <2>1. pc'[c] = "idle" /\ \A o \in Cpus : o # c => pc'[o] = pc[o] /\ reg'[o] = reg[o]
    BY <1>0, <1>4 DEF Return
  <2> QED
    BY <1>4, <2>1, IdleCount
<1>5. ASSUME NEW c \in Cpus, AddTotal(c) \/ AddN(c) \/ SetMin(c) PROVE CountsOnce
  <2>1. PICK m \in {"n", "min", "max"} : pc' = [pc EXCEPT ![c] = m]
    BY <1>5 DEF AddTotal, AddN, SetMin, Write, At
  <2>2. UNCHANGED <<counts, live, counted, reg>>
    BY <1>5 DEF AddTotal, AddN, SetMin, Write, ghosts
  <2>3. pc'[c] = m /\ \A o \in Cpus : o # c => pc'[o] = pc[o] /\ reg'[o] = reg[o]
    BY <1>0, <2>1, <2>2
  <2> QED
    BY <2>2, <2>3, IdleCount
<1>6. ASSUME NEW c \in Cpus, AddCount(c) PROVE CountsOnce
  <2>1. reg[c].el = live /\ live \in DOMAIN counts /\ counts \in Seq(Nat)
    BY <1>0, <1>6 DEF AddCount, Steady, AddsTo, CountType
  <2>2. /\ counts' = [counts EXCEPT ![live] = counts[live] + 1] /\ live' = live
        /\ counted' = counted + 1
    BY <1>6, <2>1 DEF AddCount, Count
  <2>3. counts'[live] = counts[live] + 1 /\ counts[live] \in Nat
    BY <2>1, <2>2
  <2>4. pc'[c] \in {"latency", "limit"} /\ \A o \in Cpus : o # c => pc'[o] = pc[o] /\ reg'[o] = reg[o]
    BY <1>0, <1>6 DEF AddCount, Count
  <2>5. Steady'
    BY <2>2, <2>4 DEF Steady
  <2> QED
    BY <1>0, <2>2, <2>3, <2>5 DEF CountsOnce
<1>7. ASSUME NEW c \in Cpus PROVE ~CreateCount(c)
  BY DEF CreateCount, Steady
<1>8. ASSUME NEW c \in Cpus,
             \/ LookupPort(c) \/ LookupBypass(c) \/ LookupBlock(c) \/ LookupCount(c)
             \/ CheckRateLimit(c) \/ LookupStats(c)
      PROVE  CountsOnce
  <2>1. CASE LookupPort(c) /\ ~protected
    BY <1>4, <2>1 DEF LookupPort, tables
  <2> QED
    BY <1>3, <1>8, <2>1, LookupsLook
<1>9. ASSUME NEW c \in Cpus, ReadTotal(c) \/ ReadN(c) \/ CompareMin(c) \/ CompareMax(c) PROVE CountsOnce
  <2>1. CASE CompareMax(c) /\ ~(reg[c].lat > E(c).max)
    BY <1>4, <2>1 DEF CompareMax, tables
  <2> QED
    BY <1>3, <1>9, <2>1, ReadsLook
<1>10. ASSUME NEW c \in Cpus, CreateStats(c) \/ SetMax(c) PROVE CountsOnce
  BY <1>4, <1>10 DEF CreateStats, SetMax
<1> QED
  BY <1>1, <1>2, <1>5, <1>6, <1>7, <1>8, <1>9, <1>10 DEF Next

\* Once an address has a counter that no CPU is about to replace, every packet
\* that is counted raises it by one and nothing else changes it, however the
\* CPUs and the agent interleave (policy.c:248-277).
THEOREM CountsExact == Spec => CountsEveryPacket
<1>1. FInv /\ [Next]_vars => [Steady => Steady' /\ counts'[live'] - counts[live] = counted' - counted]_vars
  BY CountStep DEF CountsOnce
<1> QED
  BY <1>1, FInvAlways, PTL DEF Spec, CountsEveryPacket

-----------------------------------------------------------------------------
(* What a packet may still become. *)

\* What has been decided of the packet of CPU c.
Verdict(c) == [drop |-> reg[c].drop, counted |-> reg[c].counted]

\* A packet that the maps let through, or the rate limiter holds back.
Passed == [drop |-> FALSE, counted |-> TRUE]
OverLimit == [drop |-> TRUE, counted |-> TRUE]

Counting == {"count", "create", "add", "limit"}
Decided == Updating \cup {"latency", "createStats"}

\* The registers of a packet not yet decided.
RegistersFit(c) ==
    /\ pc[c] \notin Decided => reg[c].drop = FALSE /\ reg[c].counted = (pc[c] = "limit")
    /\ pc[c] \in {"block", "limit"} => reg[c].skip = FALSE

\* With the lookups made so far, the maps as they are decide for an outcome the
\* packet could have had at one moment.  Before any change the lookups made
\* have found what the maps still say.
Fits(c) ==
    /\ pc[c] = "bypass" =>
         /\ Outcomes(TRUE, bypass, until, limited, reg[c].t) \subseteq could[c]
         /\ lived[c] = 0 => protected
    /\ pc[c] = "block" =>
         /\ Outcomes(TRUE, FALSE, until, limited, reg[c].t) \subseteq could[c]
         /\ lived[c] = 0 => protected /\ ~bypass
    /\ pc[c] \in Counting =>
         /\ Passed \in could[c]
         /\ ~reg[c].skip =>
              /\ limited => OverLimit \in could[c]
              /\ lived[c] = 0 => protected /\ ~bypass /\ ~Blocked(until, reg[c].t)
    /\ pc[c] \in Decided => Verdict(c) \in could[c]

FitsAt(c) ==
    /\ RegistersFit(c)
    /\ pc[c] = "port" => Current(now) \subseteq could[c]
    /\ lived[c] <= 1 => Fits(c)

Possible == \A c \in Cpus : FitsAt(c)

\* What one look at the maps decides, case by case.
LEMMA OutcomesAre ==
    ASSUME NEW b, NEW u, NEW l, NEW t
    PROVE  /\ Outcomes(FALSE, b, u, l, t) = {[drop |-> FALSE, counted |-> FALSE]}
           /\ Outcomes(TRUE, TRUE, u, l, t) = {Passed}
           /\ Blocked(u, t) => Outcomes(TRUE, FALSE, u, l, t) = {[drop |-> TRUE, counted |-> FALSE]}
           /\ ~Blocked(u, t) => /\ Passed \in Outcomes(TRUE, FALSE, u, l, t)
                                /\ l => OverLimit \in Outcomes(TRUE, FALSE, u, l, t)
BY DEF Outcomes, Passed, OverLimit

\* Nothing changes for a CPU whose packet takes no step.
LEMMA FitsKept ==
    ASSUME NEW c \in Cpus, FitsAt(c), UNCHANGED <<now, maps, pc[c], reg[c], could[c], lived[c]>>
    PROVE  FitsAt(c)'
BY DEF FitsAt, RegistersFit, Fits, Verdict, Current, maps

\* The labels are what they are.
LEMMA LabelsDiffer ==
    /\ Decided \cap ({"idle", "port", "bypass", "block"} \cup Counting) = {}
    /\ Counting \cap {"idle", "port", "bypass", "block"} = {}
BY DEF Decided, Counting, Updating

\* After a first change a packet fits if the lookups left to make do.
LEMMA FitsGrow ==
    ASSUME NEW c \in Cpus, Fits(c), UNCHANGED <<pc, reg>>, lived'[c] = 1, could[c] \subseteq could'[c],
           pc[c] = "bypass" => Outcomes(TRUE, bypass', until', limited', reg[c].t) \subseteq could'[c],
           pc[c] = "block" => Outcomes(TRUE, FALSE, until', limited', reg[c].t) \subseteq could'[c],
           pc[c] \in Counting /\ ~reg[c].skip /\ limited' => OverLimit \in could'[c]
    PROVE  Fits(c)'
<1>1. ASSUME pc[c] \in Counting
      PROVE  /\ Passed \in could'[c]
             /\ ~reg[c].skip => /\ limited' => OverLimit \in could'[c]
                                /\ lived'[c] = 0 => FALSE
  BY <1>1 DEF Fits
<1>2. ASSUME pc[c] \in Decided PROVE Verdict(c)' \in could'[c]
  BY <1>2 DEF Fits, Verdict
<1>3. pc'[c] = pc[c] /\ reg'[c] = reg[c] /\ lived'[c] # 0
  OBVIOUS
<1>4. ASSUME pc[c] = "bypass" PROVE Outcomes(TRUE, bypass', until', limited', reg'[c].t) \subseteq could'[c]
  BY <1>3, <1>4, Zenon
<1>5. ASSUME pc[c] = "block" PROVE Outcomes(TRUE, FALSE, until', limited', reg'[c].t) \subseteq could'[c]
  BY <1>3, <1>5, Zenon
<1> QED
  BY <1>1, <1>2, <1>3, <1>4, <1>5, Zenon DEF Fits, Passed, OverLimit

\* A change the agent makes is one more moment the lookups could have been made at.
LEMMA FitsChange ==
    ASSUME TypeOK, NEW c \in Cpus, FitsAt(c),
           \/ \E d \in Durations : BlockIP(d)
           \/ UnblockIP
           \/ \E on \in BOOLEAN : SetRateLimit(on) \/ SetBypass(on) \/ SetProtectedPort(on)
    PROVE  FitsAt(c)'
<1> DEFINE new == Outcomes(protected', bypass', until', limited', Stamp(c))
<1>1. /\ UNCHANGED <<now, pc, reg>>
      /\ pc[c] # "idle" => could'[c] = could[c] \cup new
      /\ lived'[c] = IF pc[c] = "idle" THEN 0 ELSE IF lived[c] = 0 THEN 1 ELSE 2
      /\ lived[c] \in 0 .. 2
  BY DEF BlockIP, UnblockIP, SetRateLimit, SetBypass, SetProtectedPort, Change, TypeOK
<1>2. RegistersFit(c)'
  BY <1>1 DEF FitsAt, RegistersFit
<1>3. ASSUME pc[c] = "port" PROVE Current(now)' \subseteq could'[c]
  BY <1>1, <1>3 DEF Current, Stamp
<1>4. ASSUME lived'[c] <= 1, pc[c] # "idle", pc[c] # "port" PROVE Fits(c)'
  <2>1. lived[c] = 0 /\ lived'[c] = 1 /\ Fits(c) /\ Stamp(c) = reg[c].t
    BY <1>1, <1>4 DEF FitsAt, Stamp
  <2>2. could[c] \subseteq could'[c] /\ new \subseteq could'[c]
    BY <1>1, <1>4
  <2> DEFINE seen(p, b) == Outcomes(p, b, until', limited', reg[c].t)
  <2>3. seen(protected', bypass') \subseteq could'[c]
    BY <2>1, <2>2
  <2>4. CASE UNCHANGED <<until, limited, bypass>>
    <3>1. ASSUME pc[c] = "bypass" PROVE seen(TRUE, bypass') \subseteq could'[c]
      BY <2>1, <2>2, <2>4, <3>1 DEF Fits
    <3>2. ASSUME pc[c] = "block" PROVE seen(TRUE, FALSE) \subseteq could'[c]
      BY <2>1, <2>2, <2>4, <3>2 DEF Fits
    <3>3. ASSUME pc[c] \in Counting, ~reg[c].skip, limited' PROVE OverLimit \in could'[c]
      BY <2>1, <2>2, <2>4, <3>3 DEF Fits
    <3> QED
      BY <1>1, <2>1, <2>2, <3>1, <3>2, <3>3, FitsGrow
  <2>5. CASE UNCHANGED <<protected, until, limited>>
    <3>1. ASSUME pc[c] = "bypass" PROVE seen(TRUE, bypass') \subseteq could'[c]
      <4>1. protected' = TRUE
        BY <2>1, <2>5, <3>1 DEF Fits, TypeOK
      <4> QED
        BY <2>3, <4>1, Zenon
    <3>2. ASSUME pc[c] = "block" PROVE seen(TRUE, FALSE) \subseteq could'[c]
      BY <2>1, <2>2, <2>5, <3>2 DEF Fits
    <3>3. ASSUME pc[c] \in Counting, ~reg[c].skip, limited' PROVE OverLimit \in could'[c]
      BY <2>1, <2>2, <2>5, <3>3 DEF Fits
    <3> QED
      BY <1>1, <2>1, <2>2, <3>1, <3>2, <3>3, FitsGrow
  <2>6. CASE UNCHANGED <<protected, bypass>>
    <3>1. ASSUME pc[c] = "bypass" PROVE seen(TRUE, bypass') \subseteq could'[c]
      <4>1. protected' = TRUE
        BY <2>1, <2>6, <3>1 DEF Fits, TypeOK
      <4> QED
        BY <2>3, <4>1, Zenon
    <3>2. ASSUME pc[c] = "block" PROVE seen(TRUE, FALSE) \subseteq could'[c]
      <4>1. protected' = TRUE /\ bypass' = FALSE
        BY <2>1, <2>6, <3>2 DEF Fits, TypeOK
      <4> QED
        BY <2>3, <4>1, Zenon
    <3>3. ASSUME pc[c] \in Counting, ~reg[c].skip, limited' PROVE OverLimit \in could'[c]
      <4>1. protected' = TRUE /\ bypass' = FALSE /\ ~Blocked(until, reg[c].t)
        BY <2>1, <2>6, <3>3 DEF Fits, TypeOK
      <4>2. CASE until' = until
        <5>1. seen(TRUE, FALSE) \subseteq could'[c]
          BY <2>3, <4>1, Zenon
        <5>2. OverLimit \in seen(TRUE, FALSE)
          BY <3>3, <4>1, <4>2, OutcomesAre
        <5> QED
          BY <5>1, <5>2
      <4>3. CASE limited' = limited
        BY <2>1, <2>2, <3>3, <4>3 DEF Fits
      <4> QED
        BY <4>2, <4>3 DEF BlockIP, UnblockIP, SetRateLimit, SetBypass, SetProtectedPort
    <3> QED
      BY <1>1, <2>1, <2>2, <3>1, <3>2, <3>3, FitsGrow
  <2> QED
    BY <2>4, <2>5, <2>6 DEF BlockIP, UnblockIP, SetRateLimit, SetBypass, SetProtectedPort
<1>5. CASE pc[c] \in {"idle", "port"}
  BY <1>1, <1>2, <1>3, <1>5, LabelsDiffer DEF FitsAt, Fits
<1> QED
  BY <1>1, <1>2, <1>3, <1>4, <1>5 DEF FitsAt

\* The clock moves on: a packet that has not looked yet is stamped later.
LEMMA FitsTick ==
    ASSUME TypeOK, NEW c \in Cpus, FitsAt(c), Tick
    PROVE  FitsAt(c)'
<1>1. /\ UNCHANGED <<maps, pc, reg, lived>>
      /\ could'[c] = IF pc[c] = "port" THEN could[c] \cup Current(now') ELSE could[c]
  BY DEF Tick, TypeOK
<1>2. Current(now)' = Current(now')
  BY <1>1 DEF Current, maps
<1> QED
  BY <1>1, <1>2 DEF FitsAt, RegistersFit, Fits, Verdict, maps

\* If the step ends a packet, its verdict is one that it could have had.
Answered(c) == pc[c] # "idle" /\ pc'[c] = "idle" /\ lived[c] <= 1 => Verdict(c) \in could[c]

\* A CPU whose packet is done is ready for another.
LEMMA FitsReturn == ASSUME TypeOK, NEW c \in Cpus, Return(c) PROVE FitsAt(c)'
<1>1. pc'[c] = "idle" /\ reg'[c] = ClearReg
  BY DEF Return, TypeOK
<1>2. reg'[c].drop = FALSE /\ reg'[c].counted = FALSE
  BY <1>1 DEF ClearReg
<1> QED
  BY <1>1, <1>2, LabelsDiffer DEF FitsAt, RegistersFit, Fits

\* The lookups that decide what becomes of a packet.
LEMMA FitsLookups ==
    ASSUME TypeOK, NEW c \in Cpus, FitsAt(c),
           \/ Arrive(c) \/ LookupPort(c) \/ LookupBypass(c) \/ LookupBlock(c) \/ LookupCount(c)
           \/ CheckRateLimit(c)
    PROVE  FitsAt(c)' /\ Answered(c)
<1>1. /\ DOMAIN pc = Cpus /\ DOMAIN reg = Cpus /\ DOMAIN could = Cpus /\ DOMAIN lived = Cpus
      /\ reg[c] \in Registers /\ UNCHANGED <<now, maps>> /\ RegistersFit(c)
      /\ protected \in BOOLEAN /\ bypass \in BOOLEAN /\ limited \in BOOLEAN
  BY DEF TypeOK, Registers, Arrive, LookupPort, LookupBypass, LookupBlock, LookupCount,
     CheckRateLimit, FitsAt
<1>2. UNCHANGED <<protected, bypass, until, limited, now>>
  BY <1>1 DEF maps
<1>3. CASE Arrive(c)
  <2>1. /\ pc[c] = "idle" /\ pc'[c] = "port" /\ could'[c] = Current(now)
        /\ reg'[c] = [reg[c] EXCEPT !.start = now]
    BY <1>1, <1>3 DEF Arrive, At
  <2>2. reg'[c].drop = FALSE /\ reg'[c].counted = FALSE
    BY <1>1, <2>1, LabelsDiffer DEF RegistersFit, Registers
  <2>3. Current(now)' = Current(now)
    BY <1>2 DEF Current
  <2> QED
    BY <2>1, <2>2, <2>3, LabelsDiffer DEF FitsAt, RegistersFit, Fits, Answered
<1>4. CASE LookupPort(c)
  <2>1. pc[c] = "port" /\ Current(now) \subseteq could[c]
    BY <1>4 DEF LookupPort, FitsAt
  <2>2. reg[c].drop = FALSE /\ reg[c].counted = FALSE
    BY <1>1, <2>1, LabelsDiffer DEF RegistersFit
  <2>3. CASE protected
    <3>1. /\ pc'[c] = "bypass" /\ reg'[c] = [reg[c] EXCEPT !.t = now]
          /\ UNCHANGED <<could, lived>>
      BY <1>1, <1>4, <2>3 DEF LookupPort
    <3>2. reg'[c].drop = FALSE /\ reg'[c].counted = FALSE /\ reg'[c].t = now
      BY <1>1, <2>2, <3>1 DEF Registers
    <3>3. protected = TRUE
      BY <2>3
    <3>4. Outcomes(TRUE, bypass, until, limited, now) \subseteq could[c]
      BY <2>1, <3>3, Zenon DEF Current
    <3>5. Outcomes(TRUE, bypass', until', limited', reg'[c].t) \subseteq could'[c]
      BY <1>2, <3>1, <3>2, <3>4, Zenon
    <3> QED
      BY <1>2, <2>3, <3>1, <3>2, <3>5, LabelsDiffer DEF FitsAt, RegistersFit, Fits, Answered
  <2>4. CASE ~protected
    <3>1. Return(c)
      BY <1>4, <2>4 DEF LookupPort
    <3>2. protected = FALSE
      BY <1>1, <2>4
    <3>3. [drop |-> FALSE, counted |-> FALSE] \in Current(now)
      BY <3>2, OutcomesAre, Zenon DEF Current
    <3>4. Verdict(c) \in could[c]
      BY <2>1, <2>2, <3>3, Zenon DEF Verdict
    <3> QED
      BY <3>1, <3>4, FitsReturn DEF Answered
  <2> QED
    BY <2>3, <2>4
<1>5. ASSUME NEW m, pc' = [pc EXCEPT ![c] = m], UNCHANGED ghosts, m # "idle", m # "port",
             RegistersFit(c)', lived[c] <= 1 /\ Fits(c) => Fits(c)'
      PROVE  FitsAt(c)' /\ Answered(c)
  BY <1>1, <1>5 DEF FitsAt, Answered, ghosts
<1>6. CASE LookupBypass(c)
  <2> DEFINE m == IF bypass THEN "count" ELSE "block"
  <2>1. /\ pc[c] = "bypass" /\ pc' = [pc EXCEPT ![c] = m] /\ UNCHANGED ghosts
        /\ reg'[c] = [reg[c] EXCEPT !.skip = bypass] /\ pc'[c] = m
        /\ could' = could /\ lived' = lived
    BY <1>1, <1>6 DEF LookupBypass, At, ghosts
  <2>2. /\ reg'[c].drop = FALSE /\ reg'[c].counted = FALSE /\ reg'[c].skip = bypass
        /\ reg'[c].t = reg[c].t
    BY <1>1, <2>1, LabelsDiffer DEF RegistersFit, Registers
  <2>3. ASSUME Fits(c) PROVE Fits(c)'
    <3>1. /\ Outcomes(TRUE, bypass, until, limited, reg[c].t) \subseteq could[c]
          /\ lived[c] = 0 => protected
      BY <2>1, <2>3 DEF Fits
    <3>2. CASE bypass = TRUE
      <4>1. Outcomes(TRUE, TRUE, until, limited, reg[c].t) \subseteq could[c]
        BY <3>1, <3>2, Zenon
      <4>2. Passed \in could[c]
        BY <4>1, OutcomesAre
      <4>3. pc'[c] = "count" /\ reg'[c].skip = TRUE
        BY <2>1, <2>2, <3>2
      <4> QED
        BY <2>1, <4>2, <4>3, LabelsDiffer DEF Fits, Passed, Counting
    <3>3. CASE bypass = FALSE
      <4>1. Outcomes(TRUE, FALSE, until, limited, reg[c].t) \subseteq could[c]
        BY <3>1, <3>3, Zenon
      <4>2. Outcomes(TRUE, FALSE, until', limited', reg'[c].t) \subseteq could'[c]
        BY <1>2, <2>1, <2>2, <4>1, Zenon
      <4>3. pc'[c] = "block"
        BY <2>1, <3>3
      <4> QED
        BY <1>2, <2>1, <3>1, <3>3, <4>2, <4>3, LabelsDiffer DEF Fits
    <3> QED
      BY <1>1, <3>2, <3>3
  <2>4. RegistersFit(c)'
    BY <1>1, <2>1, <2>2 DEF RegistersFit
  <2> QED
    BY <1>5, <2>1, <2>3, <2>4
<1>7. CASE LookupBlock(c)
  <2> DEFINE hit == Blocked(until, reg[c].t)
             m == IF hit THEN "latency" ELSE "count"
  <2>1. /\ pc[c] = "block" /\ pc' = [pc EXCEPT ![c] = m] /\ UNCHANGED ghosts
        /\ reg'[c] = [reg[c] EXCEPT !.drop = hit] /\ pc'[c] = m
        /\ could' = could /\ lived' = lived
    BY <1>1, <1>7 DEF LookupBlock, At, ghosts
  <2>2. /\ reg'[c].drop = hit /\ reg'[c].counted = FALSE /\ reg'[c].skip = FALSE
        /\ reg'[c].t = reg[c].t /\ hit \in BOOLEAN
    BY <1>1, <2>1, LabelsDiffer DEF RegistersFit, Registers, Blocked
  <2> HIDE DEF hit
  <2>3. ASSUME Fits(c) PROVE Fits(c)'
    <3>1. /\ Outcomes(TRUE, FALSE, until, limited, reg[c].t) \subseteq could[c]
          /\ lived[c] = 0 => protected /\ ~bypass
      BY <2>1, <2>3 DEF Fits
    <3>2. CASE hit = TRUE
      <4>1. [drop |-> TRUE, counted |-> FALSE] \in could[c]
        BY <3>1, <3>2, OutcomesAre DEF hit
      <4>2. Verdict(c)' \in could'[c]
        BY <2>1, <2>2, <3>2, <4>1 DEF Verdict
      <4>3. pc'[c] = "latency"
        BY <2>1, <3>2
      <4> QED
        BY <4>2, <4>3, LabelsDiffer DEF Fits, Counting
    <3>3. CASE hit = FALSE
      <4>1. Passed \in could[c] /\ (limited => OverLimit \in could[c])
        BY <3>1, <3>3, OutcomesAre DEF hit
      <4>2. pc'[c] = "count" /\ ~Blocked(until', reg'[c].t)
        BY <1>2, <2>1, <2>2, <3>3 DEF hit
      <4> QED
        BY <1>2, <2>1, <3>1, <4>1, <4>2, LabelsDiffer DEF Fits, Passed, OverLimit, Counting
    <3> QED
      BY <2>2, <3>2, <3>3
  <2>4. RegistersFit(c)'
    <3>1. CASE hit = TRUE
      BY <2>1, <3>1 DEF RegistersFit, Decided
    <3>2. CASE hit = FALSE
      <4>1. pc'[c] = "count"
        BY <2>1, <3>2
      <4>2. reg'[c].drop = FALSE
        BY <2>2, <3>2
      <4>3. reg'[c].counted = (pc'[c] = "limit")
        BY <2>2, <4>1
      <4> QED
        BY <4>1, <4>2, <4>3 DEF RegistersFit
    <3> QED
      BY <2>2, <3>1, <3>2
  <2>5. m # "idle" /\ m # "port"
    OBVIOUS
  <2> HIDE DEF m
  <2> QED
    BY <1>5, <2>1, <2>3, <2>4, <2>5
<1>8. CASE LookupCount(c)
  <2> DEFINE m == IF live = 0 THEN "create" ELSE "add"
  <2>1. /\ pc[c] = "count" /\ pc' = [pc EXCEPT ![c] = m] /\ UNCHANGED ghosts
        /\ reg'[c] = [reg[c] EXCEPT !.el = live] /\ pc'[c] = m
        /\ could' = could /\ lived' = lived
    BY <1>1, <1>8 DEF LookupCount, At, ghosts
  <2>2. /\ reg'[c].drop = FALSE /\ reg'[c].counted = FALSE /\ reg'[c].skip = reg[c].skip
        /\ reg'[c].t = reg[c].t
    BY <1>1, <2>1, LabelsDiffer DEF RegistersFit, Registers, Counting
  <2>3. m \in {"create", "add"}
    OBVIOUS
  <2> HIDE DEF m
  <2>4. Fits(c) => Fits(c)'
    BY <1>2, <2>1, <2>2, <2>3, LabelsDiffer DEF Fits, Passed, OverLimit, Counting
  <2>5. RegistersFit(c)'
    BY <2>1, <2>2, <2>3 DEF RegistersFit
  <2> QED
    BY <1>5, <2>1, <2>3, <2>4, <2>5
<1>9. CASE CheckRateLimit(c)
  <2>1. PICK d \in {FALSE} \cup {limited} : reg' = [reg EXCEPT ![c].drop = d]
    BY <1>9 DEF CheckRateLimit
  <2>2. /\ pc[c] = "limit" /\ pc' = [pc EXCEPT ![c] = "latency"] /\ UNCHANGED ghosts
        /\ reg'[c] = [reg[c] EXCEPT !.drop = d] /\ pc'[c] = "latency"
        /\ could' = could /\ lived' = lived
    BY <1>1, <1>9, <2>1 DEF CheckRateLimit, At, ghosts
  <2>3. reg[c].skip = FALSE /\ reg[c].counted = TRUE
    BY <1>1, <2>2, LabelsDiffer DEF RegistersFit, Counting
  <2>4. reg'[c].drop = d /\ reg'[c].counted = TRUE /\ d \in BOOLEAN
    BY <1>1, <2>2, <2>3 DEF Registers
  <2>5. ASSUME Fits(c) PROVE Fits(c)'
    <3>1. Passed \in could[c] /\ (limited => OverLimit \in could[c])
      BY <2>2, <2>3, <2>5 DEF Fits, Counting
    <3>2. CASE d = FALSE
      BY <2>2, <2>4, <3>1, <3>2, LabelsDiffer DEF Fits, Verdict, Passed, Counting
    <3>3. CASE d = TRUE
      <4>1. limited
        BY <2>1, <3>3
      <4> QED
        BY <2>2, <2>4, <3>1, <3>3, <4>1, LabelsDiffer DEF Fits, Verdict, OverLimit, Counting
    <3> QED
      BY <2>4, <3>2, <3>3
  <2>6. RegistersFit(c)'
    BY <2>2 DEF RegistersFit, Decided
  <2> QED
    BY <1>5, <2>2, <2>5, <2>6
<1> QED
  BY <1>3, <1>4, <1>6, <1>7, <1>8, <1>9

\* The steps after the verdict keep it, and those that count a packet count it.
LEMMA FitsDecided ==
    ASSUME TypeOK, NEW c \in Cpus, FitsAt(c), NEW m \in Decided, NEW r \in Registers,
           pc' = [pc EXCEPT ![c] = m], reg' = [reg EXCEPT ![c] = r], UNCHANGED <<could, lived>>,
           lived[c] <= 1 => [drop |-> r.drop, counted |-> r.counted] \in could[c]
    PROVE  FitsAt(c)' /\ Answered(c)
<1>1. pc'[c] = m /\ reg'[c] = r /\ could'[c] = could[c] /\ lived'[c] = lived[c]
  BY DEF TypeOK, Registers
<1>2. m \notin Counting /\ m \notin {"idle", "port", "bypass", "block"}
  BY LabelsDiffer
<1> QED
  BY <1>1, <1>2 DEF FitsAt, RegistersFit, Fits, Verdict, Answered, Counting

\* Counting a packet.
LEMMA FitsCount ==
    ASSUME TypeOK, NEW c \in Cpus, FitsAt(c), CreateCount(c) \/ AddCount(c)
    PROVE  FitsAt(c)' /\ Answered(c)
<1> DEFINE m == IF reg[c].skip THEN "latency" ELSE "limit"
           r == [reg[c] EXCEPT !.counted = TRUE]
<1>1. /\ pc[c] \in {"create", "add"} /\ pc' = [pc EXCEPT ![c] = m] /\ reg' = [reg EXCEPT ![c] = r]
      /\ UNCHANGED <<now, maps, could, lived>>
  BY DEF CreateCount, AddCount, Count
<1>2. reg[c] \in Registers /\ reg[c].drop = FALSE /\ RegistersFit(c)
  BY <1>1, LabelsDiffer DEF TypeOK, Registers, FitsAt, RegistersFit, Counting
<1>3. r \in Registers /\ r.drop = FALSE /\ r.counted = TRUE /\ r.skip = reg[c].skip /\ r.t = reg[c].t
  BY <1>2 DEF Registers
<1>4. lived[c] <= 1 => Passed \in could[c]
  BY <1>1 DEF FitsAt, Fits, Counting
<1> HIDE DEF r
<1>5. CASE reg[c].skip
  <2>1. [drop |-> r.drop, counted |-> r.counted] = Passed
    BY <1>3 DEF Passed
  <2>2. m = "latency" /\ "latency" \in Decided
    BY <1>5 DEF Decided
  <2> HIDE DEF m
  <2> QED
    BY <1>1, <1>3, <1>4, <2>1, <2>2, FitsDecided
<1>6. CASE ~reg[c].skip
  <2>1. pc'[c] = "limit" /\ reg'[c] = r /\ reg[c].skip = FALSE
    BY <1>1, <1>2, <1>6 DEF TypeOK, Registers
  <2>2. RegistersFit(c)'
    BY <1>3, <2>1 DEF RegistersFit
  <2>3. Fits(c) => Fits(c)'
    BY <1>1, <1>3, <1>6, <2>1, LabelsDiffer DEF Fits, Passed, OverLimit, Counting, maps
  <2> QED
    BY <1>1, <2>1, <2>2, <2>3 DEF FitsAt, Answered
<1> QED
  BY <1>5, <1>6

\* The steps of update_latency.
LEMMA FitsLatency ==
    ASSUME FInv, NEW c \in Cpus, FitsAt(c),
           \/ LookupStats(c) \/ CreateStats(c) \/ ReadTotal(c) \/ AddTotal(c) \/ ReadN(c) \/ AddN(c)
           \/ CompareMin(c) \/ SetMin(c) \/ CompareMax(c) \/ SetMax(c)
    PROVE  FitsAt(c)' /\ Answered(c)
<1>1. TypeOK /\ reg[c] \in Registers /\ Latency(c) \in Nat /\ stats \in Nat
  BY RegType, TypeParts DEF FInv, Latency, Parts, StatsType
<1>2. pc[c] \in Decided
  BY DEF LookupStats, CreateStats, ReadTotal, AddTotal, ReadN, AddN, CompareMin, SetMin,
     CompareMax, SetMax, Read, Write, At, Decided, Updating
<1>3. lived[c] <= 1 => Verdict(c) \in could[c]
  BY <1>2 DEF FitsAt, Fits
<1>4. ASSUME NEW m \in Decided, NEW r \in Registers, r.drop = reg[c].drop, r.counted = reg[c].counted,
             pc' = [pc EXCEPT ![c] = m], reg' = [reg EXCEPT ![c] = r], UNCHANGED <<could, lived>>
      PROVE  FitsAt(c)' /\ Answered(c)
  BY <1>1, <1>3, <1>4, FitsDecided DEF Verdict
<1>5. CASE Return(c)
  BY <1>1, <1>3, <1>5, FitsReturn DEF Answered
<1>6. CASE LookupStats(c)
  <2> DEFINE m == IF stats = 0 THEN "createStats" ELSE "total"
             r == [reg[c] EXCEPT !.lat = Latency(c), !.el = stats]
  <2>1. pc' = [pc EXCEPT ![c] = m] /\ reg' = [reg EXCEPT ![c] = r] /\ UNCHANGED <<could, lived>>
    BY <1>6 DEF LookupStats, At
  <2>2. r \in Registers /\ r.drop = reg[c].drop /\ r.counted = reg[c].counted
    BY <1>1 DEF Registers
  <2>3. m \in Decided
    BY DEF Decided, Updating
  <2> HIDE DEF m, r
  <2> QED
    BY <1>4, <2>1, <2>2, <2>3
<1>7. ASSUME NEW m \in {"addTotal", "addN", "setMin", "max"}, NEW v \in Nat,
             pc' = [pc EXCEPT ![c] = m], reg' = [reg EXCEPT ![c].v = v], UNCHANGED <<could, lived>>
      PROVE  FitsAt(c)' /\ Answered(c)
  <2> DEFINE r == [reg[c] EXCEPT !.v = v]
  <2>1. reg' = [reg EXCEPT ![c] = r]
    BY <1>7
  <2>2. r \in Registers /\ r.drop = reg[c].drop /\ r.counted = reg[c].counted
    BY <1>1 DEF Registers
  <2>3. m \in Decided
    BY DEF Decided, Updating
  <2> HIDE DEF r
  <2> QED
    BY <1>4, <1>7, <2>1, <2>2, <2>3
<1>8. CASE ReadTotal(c) \/ ReadN(c) \/ CompareMin(c)
  <2>1. pc[c] \in Updating
    BY <1>8 DEF ReadTotal, ReadN, CompareMin, Read, At, Updating
  <2>2. E(c).total \in Nat /\ E(c).n \in Nat /\ E(c).min \in Nat
    BY <2>1, RegType DEF Entry
  <2>3. PICK m \in {"addTotal", "addN", "setMin", "max"}, v \in Nat :
            /\ pc' = [pc EXCEPT ![c] = m] /\ reg' = [reg EXCEPT ![c].v = v]
            /\ UNCHANGED <<could, lived>>
    BY <1>8, <2>2 DEF ReadTotal, ReadN, CompareMin, Read, At, ghosts
  <2> QED
    BY <1>7, <2>3
<1>9. ASSUME NEW m \in Updating, pc' = [pc EXCEPT ![c] = m], UNCHANGED <<reg, could, lived>>
      PROVE  FitsAt(c)' /\ Answered(c)
  <2>1. reg' = [reg EXCEPT ![c] = reg[c]]
    BY <1>1, <1>9 DEF TypeOK, Registers
  <2>2. m \in Decided
    BY <1>9 DEF Decided
  <2> QED
    BY <1>1, <1>4, <1>9, <2>1, <2>2
<1>10. CASE AddTotal(c) \/ AddN(c) \/ SetMin(c)
  <2>1. /\ pc' = [pc EXCEPT ![c] = IF pc[c] = "addTotal" THEN "n" ELSE IF pc[c] = "addN" THEN "min" ELSE "max"]
        /\ UNCHANGED <<reg, could, lived>>
    BY <1>10 DEF AddTotal, AddN, SetMin, Write, At, ghosts
  <2> QED
    BY <1>9, <2>1 DEF Updating
<1>11. CASE CompareMax(c) /\ ~Return(c)
  BY <1>9, <1>11 DEF CompareMax, Updating
<1>12. CASE CreateStats(c) \/ SetMax(c)
  BY <1>5, <1>12 DEF CreateStats, SetMax
<1> QED
  BY <1>5, <1>6, <1>8, <1>10, <1>11, <1>12

\* The steps of one CPU leave the packets of the others alone.
LEMMA OthersFit ==
    ASSUME TypeOK, NEW c \in Cpus, NEW o \in Cpus, o # c,
           \/ Arrive(c) \/ LookupPort(c) \/ LookupBypass(c) \/ LookupBlock(c) \/ LookupCount(c)
           \/ CreateCount(c) \/ AddCount(c) \/ CheckRateLimit(c) \/ LookupStats(c) \/ CreateStats(c)
           \/ ReadTotal(c) \/ AddTotal(c) \/ ReadN(c) \/ AddN(c)
           \/ CompareMin(c) \/ SetMin(c) \/ CompareMax(c) \/ SetMax(c)
    PROVE  UNCHANGED <<now, maps, pc[o], reg[o], could[o], lived[o]>>
<1>1. /\ DOMAIN pc = Cpus /\ DOMAIN reg = Cpus /\ DOMAIN could = Cpus /\ DOMAIN lived = Cpus
  BY DEF TypeOK
<1>2. ASSUME Return(c) PROVE UNCHANGED <<pc[o], reg[o], could[o], lived[o]>>
  BY <1>1, <1>2 DEF Return
<1>3. ASSUME NEW m, pc' = [pc EXCEPT ![c] = m], \E r : reg' = [reg EXCEPT ![c] = r],
             UNCHANGED <<could, lived>>
      PROVE  UNCHANGED <<pc[o], reg[o], could[o], lived[o]>>
  BY <1>1, <1>3
<1>4. CASE Arrive(c)
  BY <1>1, <1>4 DEF Arrive, At
<1>5. CASE LookupPort(c)
  BY <1>1, <1>2, <1>5 DEF LookupPort
<1>6. CASE LookupBypass(c) \/ LookupBlock(c)
  BY <1>1, <1>6 DEF LookupBypass, LookupBlock, At, ghosts
<1>7. CASE LookupCount(c) \/ CheckRateLimit(c) \/ LookupStats(c)
  BY <1>1, <1>7 DEF LookupCount, CheckRateLimit, LookupStats, At, ghosts
<1>8. CASE CreateCount(c) \/ AddCount(c)
  BY <1>1, <1>8 DEF CreateCount, AddCount, Count
<1>9. CASE ReadTotal(c) \/ ReadN(c) \/ CompareMin(c)
  BY <1>1, <1>9 DEF ReadTotal, ReadN, CompareMin, Read, At, ghosts
<1>10. CASE AddTotal(c) \/ AddN(c) \/ SetMin(c)
  BY <1>1, <1>10 DEF AddTotal, AddN, SetMin, Write, At, ghosts
<1>11. CASE CompareMax(c)
  BY <1>1, <1>2, <1>11 DEF CompareMax
<1>12. CASE CreateStats(c) \/ SetMax(c)
  BY <1>2, <1>12 DEF CreateStats, SetMax
<1> QED
  BY <1>4, <1>5, <1>6, <1>7, <1>8, <1>9, <1>10, <1>11, <1>12

\* Every step leaves each packet an outcome it could have, and ends it with one.
LEMMA PossibleStep == FInv /\ Possible /\ [Next]_vars => Possible' /\ \A c \in Cpus : Answered(c)
<1> SUFFICES ASSUME FInv, Possible, [Next]_vars, NEW c \in Cpus PROVE FitsAt(c)' /\ Answered(c)
  BY DEF Possible
<1>1. TypeOK /\ FitsAt(c)
  BY DEF FInv, Possible
<1>2. CASE Tick \/ UNCHANGED vars
  <2>1. UNCHANGED pc => Answered(c)
    BY DEF Answered
  <2> QED
    BY <1>1, <1>2, <2>1, FitsTick, FitsKept DEF Tick, vars, ghosts
<1>3. CASE \/ \E d \in Durations : BlockIP(d)
           \/ UnblockIP
           \/ \E on \in BOOLEAN : SetRateLimit(on) \/ SetBypass(on) \/ SetProtectedPort(on)
  <2>1. UNCHANGED pc
    BY <1>3 DEF BlockIP, UnblockIP, SetRateLimit, SetBypass, SetProtectedPort, Change
  <2> QED
    BY <1>1, <1>3, <2>1, FitsChange DEF Answered
<1>4. ASSUME NEW b \in Cpus,
             \/ Arrive(b) \/ LookupPort(b) \/ LookupBypass(b) \/ LookupBlock(b) \/ LookupCount(b)
             \/ CreateCount(b) \/ AddCount(b) \/ CheckRateLimit(b) \/ LookupStats(b) \/ CreateStats(b)
             \/ ReadTotal(b) \/ AddTotal(b) \/ ReadN(b) \/ AddN(b)
             \/ CompareMin(b) \/ SetMin(b) \/ CompareMax(b) \/ SetMax(b)
      PROVE  FitsAt(c)' /\ Answered(c)
  <2>1. CASE b = c
    BY <1>1, <1>4, <2>1, FitsLookups, FitsCount, FitsLatency
  <2>2. CASE b # c
    <3>1. UNCHANGED <<now, maps, pc[c], reg[c], could[c], lived[c]>>
      BY <1>1, <1>4, <2>2, OthersFit
    <3> QED
      BY <1>1, <3>1, FitsKept DEF Answered
  <2> QED
    BY <2>1, <2>2
<1> QED
  BY <1>2, <1>3, <1>4 DEF Next

\* At the start no packet is being processed.
LEMMA PossibleInit == Init => Possible
<1>1. ASSUME Init, NEW c \in Cpus PROVE FitsAt(c)
  <2>1. pc[c] = "idle" /\ reg[c].drop = FALSE /\ reg[c].counted = FALSE
    BY <1>1 DEF Init, ClearReg
  <2> QED
    BY <2>1, LabelsDiffer DEF FitsAt, RegistersFit, Fits
<1> QED
  BY <1>1 DEF Possible

\* While the agent changes at most one map during the processing of a packet,
\* the packet is dropped or passed, and counted or not, as if all lookups had
\* been made at one moment, on any number of CPUs (policy.c:235-291).
THEOREM VerdictAsIfAtOnce == Spec => AsIfAtOnce
<1>1. FInv /\ Possible /\ [Next]_vars =>
        [\A c \in Cpus : pc[c] # "idle" /\ pc'[c] = "idle" /\ lived[c] <= 1
            => [drop |-> reg[c].drop, counted |-> reg[c].counted] \in could[c]]_vars
  BY PossibleStep DEF Answered, Verdict
<1> QED
  BY <1>1, FInvAlways, PossibleInit, PossibleStep, PTL DEF Spec, AsIfAtOnce

-----------------------------------------------------------------------------
(* The average latency. *)

Busy == Updating \cup {"createStats"}

\* k latencies that sum to x may lie between the extremes of entry e.
Between(e, k, x) == k * e.min <= x /\ x <= k * e.max

\* One CPU at a time updates the entry in the map, or makes it.
Exclusive ==
    /\ \A c, o \in Cpus : pc[c] \in Busy /\ pc[o] \in Busy => c = o
    /\ \A c \in Cpus : /\ pc[c] \in Updating => reg[c].el = stats /\ stats # 0
                       /\ pc[c] = "createStats" => stats = 0

\* Entry e during an update with registers r that has reached label l: the sum
\* comes first, then the number, then the extremes.
Halfway(l, e, r) ==
    /\ l \in {"total", "addTotal"} => e.n >= 1 /\ Between(e, e.n, e.total)
    /\ l \in {"n", "addN"} => e.n >= 1 /\ Between(e, e.n, e.total - r.lat)
    /\ l \in {"min", "setMin"} => e.n >= 2 /\ Between(e, e.n - 1, e.total - r.lat)
    /\ l \in {"max", "setMax"} =>
         e.n >= 2 /\ e.n * e.min <= e.total /\ e.total - r.lat <= (e.n - 1) * e.max
    /\ l = "addTotal" => r.v = e.total
    /\ l = "addN" => r.v = e.n
    /\ l = "setMin" => r.lat < e.min
    /\ l = "max" => e.min <= r.lat
    /\ l = "setMax" => r.lat > e.max

Summed ==
    /\ \A c \in Cpus : pc[c] \in Updating => Halfway(pc[c], lat[stats], reg[c])
    /\ stats # 0 /\ (\A c \in Cpus : pc[c] \notin Updating) =>
         lat[stats].n >= 1 /\ Between(lat[stats], lat[stats].n, lat[stats].total)

SumsFit == ~overlap => Exclusive /\ Summed

\* One latency more, or another extreme.
LEMMA Products ==
    ASSUME NEW n \in Nat, n >= 2, NEW a \in Nat, NEW b \in Nat
    PROVE  /\ n * a = (n - 1) * a + a
           /\ a <= b => n * a <= n * b /\ (n - 1) * a <= (n - 1) * b
OBVIOUS

\* A step that concerns no entry.
LEMMA SumsKept ==
    ASSUME SumsFit, UNCHANGED <<lat, stats, overlap>>,
           \A o \in Cpus : pc'[o] \in Busy \/ pc[o] \in Busy => pc'[o] = pc[o] /\ reg'[o] = reg[o]
    PROVE  SumsFit'
<1>1. \A o \in Cpus : pc[o] \in Updating \/ pc'[o] \in Updating => pc'[o] = pc[o] /\ reg'[o] = reg[o]
  BY DEF Busy
<1>2. Exclusive => Exclusive'
  BY <1>1 DEF Exclusive, Busy
<1>3. Summed => Summed'
  BY <1>1 DEF Summed
<1> QED
  BY <1>2, <1>3 DEF SumsFit

\* A step of the one CPU that updates the entry.
LEMMA SumsUpdate ==
    ASSUME SumsFit, ~overlap, NEW c \in Cpus, pc[c] \in Updating, UNCHANGED <<stats, overlap>>,
           \A o \in Cpus : o # c => pc'[o] = pc[o] /\ reg'[o] = reg[o],
           pc'[c] \in Updating => /\ reg'[c].el = reg[c].el
                                  /\ Halfway(pc'[c], lat'[stats], reg'[c]),
           pc'[c] \notin Updating => /\ pc'[c] = "idle" /\ lat'[stats].n >= 1
                                     /\ Between(lat'[stats], lat'[stats].n, lat'[stats].total)
    PROVE  SumsFit'
<1>1. Exclusive /\ Summed
  BY DEF SumsFit
<1>2. \A o \in Cpus : o # c => pc[o] \notin Busy /\ pc'[o] \notin Busy
  BY <1>1 DEF Exclusive, Busy
<1>3. \A o \in Cpus : o # c => pc[o] \notin Updating /\ pc'[o] \notin Updating
  BY <1>2 DEF Busy
<1>4. Exclusive'
  BY <1>1, <1>2, <1>3 DEF Exclusive, Busy, Updating
<1>5. Summed'
  BY <1>3 DEF Summed
<1> QED
  BY <1>4, <1>5 DEF SumsFit

\* A CPU starts to update the entry, or to make one.
LEMMA SumsLookup ==
    ASSUME FInv, SumsFit, NEW c \in Cpus, LookupStats(c)
    PROVE  SumsFit'
<1> SUFFICES ASSUME ~overlap' PROVE Exclusive' /\ Summed'
  BY DEF SumsFit
<1>1. /\ ~overlap /\ Exclusive /\ Summed
      /\ \A o \in Cpus : pc[o] \notin Busy
  BY DEF LookupStats, SumsFit, Busy
<1>2. UNCHANGED <<lat, stats>> /\ stats \in Nat
  BY TypeParts DEF LookupStats, tables, FInv, Parts, StatsType
<1>3. /\ pc'[c] = IF stats = 0 THEN "createStats" ELSE "total"
      /\ reg'[c].el = stats
      /\ \A o \in Cpus : o # c => pc'[o] = pc[o] /\ reg'[o] = reg[o]
  <2>1. pc \in [Cpus -> Labels] /\ reg \in [Cpus -> Registers]
    BY TypeParts DEF FInv, Parts, CpuType
  <2> QED
    BY <2>1 DEF LookupStats, At, Registers
<1>4. \A o \in Cpus : pc'[o] \in Busy => o = c
  BY <1>1, <1>3
<1>5. pc'[c] \in Updating => pc'[c] = "total" /\ stats # 0
  BY <1>3 DEF Updating
<1>6. Exclusive'
  BY <1>2, <1>3, <1>4, <1>5 DEF Exclusive, Busy
<1>7. stats # 0 => lat[stats].n >= 1 /\ Between(lat[stats], lat[stats].n, lat[stats].total)
  BY <1>1 DEF Summed, Busy
<1>8. Summed'
  <2>1. ASSUME NEW o \in Cpus, pc'[o] \in Updating PROVE Halfway(pc'[o], lat'[stats'], reg'[o])
    <3>1. o = c /\ pc'[o] = "total" /\ stats # 0
      BY <1>4, <1>5, <2>1 DEF Busy
    <3> QED
      BY <1>2, <1>7, <3>1 DEF Halfway
  <2> QED
    BY <1>2, <1>7, <2>1 DEF Summed
<1> QED
  BY <1>6, <1>8

\* The entry is new.
LEMMA SumsCreate ==
    ASSUME FInv, SumsFit, NEW c \in Cpus, CreateStats(c)
    PROVE  SumsFit'
<1> SUFFICES ASSUME ~overlap' PROVE Exclusive' /\ Summed'
  BY DEF SumsFit
<1> DEFINE l == reg[c].lat
           e == [total |-> l, n |-> 1, min |-> l, max |-> l, first |-> l]
<1>1. /\ ~overlap /\ Exclusive /\ pc[c] = "createStats" /\ Return(c)
      /\ lat' = Append(lat, e) /\ stats' = Len(lat')
  BY DEF CreateStats, SumsFit
<1>2. /\ l \in Nat /\ lat \in Seq(Entry) /\ pc \in [Cpus -> Labels] /\ reg \in [Cpus -> Registers]
  BY RegType, TypeParts DEF FInv, Parts, StatsType, CpuType, Registers
<1>3. e \in Entry /\ e.n = 1 /\ e.n * e.min <= e.total /\ e.total <= e.n * e.max
  BY <1>2 DEF Entry
<1> HIDE DEF e, l
<1>4. lat'[stats'] = e
  BY <1>1, <1>2, <1>3
<1>5. \A o \in Cpus : pc'[o] \notin Busy
  <2>1. pc'[c] = "idle" /\ \A o \in Cpus : o # c => pc'[o] = pc[o]
    BY <1>1, <1>2 DEF Return
  <2>2. \A o \in Cpus : o # c => pc[o] \notin Busy
    BY <1>1 DEF Exclusive, Busy
  <2> QED
    BY <2>1, <2>2 DEF Busy, Updating
<1>6. Exclusive'
  BY <1>5 DEF Exclusive, Busy
<1>7. Summed'
  BY <1>3, <1>4, <1>5 DEF Summed, Between, Busy
<1> QED
  BY <1>6, <1>7

\* The reads of update_latency, in the order of the fields.
LEMMA SumsRead ==
    ASSUME FInv, SumsFit, NEW c \in Cpus,
           ReadTotal(c) \/ ReadN(c) \/ CompareMin(c) \/ CompareMax(c)
    PROVE  SumsFit'
<1>1. pc[c] \in Updating /\ UNCHANGED <<lat, stats, overlap>>
  BY DEF ReadTotal, ReadN, CompareMin, CompareMax, Read, At, Updating, tables, ghosts
<1>2. CASE overlap
  BY <1>1, <1>2 DEF SumsFit
<1>3. CASE ~overlap
  <2>1. /\ reg[c].el = stats /\ Halfway(pc[c], lat[stats], reg[c]) /\ E(c) = lat[stats]
    BY <1>1, <1>3 DEF SumsFit, Exclusive, Summed, E
  <2>2. /\ lat[stats] \in Entry /\ reg[c] \in Registers /\ lat[stats].min <= lat[stats].max
    <3>1. E(c) \in Entry /\ E(c).min <= E(c).first /\ E(c).first <= E(c).max /\ reg[c] \in Registers
      BY <1>1, RegType
    <3>2. E(c).min <= E(c).max
      BY <3>1 DEF Entry
    <3> QED
      BY <2>1, <3>1, <3>2
  <2>3. pc \in [Cpus -> Labels] /\ reg \in [Cpus -> Registers]
    BY TypeParts DEF FInv, Parts, CpuType
  <2>4. \A o \in Cpus : o # c => pc'[o] = pc[o] /\ reg'[o] = reg[o]
    BY <2>3 DEF ReadTotal, ReadN, CompareMin, CompareMax, Read, At, Return
  <2> DEFINE e == lat[stats]
  <2>5. e.n \in Nat /\ e.min \in Nat /\ e.max \in Nat /\ e.total \in Nat /\ reg[c].lat \in Nat
    BY <2>2 DEF Entry, Registers
  <2>6. ASSUME NEW m \in Updating, pc'[c] = m, reg'[c].el = reg[c].el, Halfway(m, e, reg'[c])
        PROVE  SumsFit'
    BY <1>1, <1>3, <2>4, <2>6, SumsUpdate
  <2>7. CASE ReadTotal(c)
    <3>1. /\ pc[c] = "total" /\ pc'[c] = "addTotal" /\ reg'[c] = [reg[c] EXCEPT !.v = e.total]
      BY <2>1, <2>3, <2>7 DEF ReadTotal, Read, At
    <3>2. reg'[c].v = e.total /\ reg'[c].lat = reg[c].lat /\ reg'[c].el = reg[c].el
      BY <2>2, <3>1 DEF Registers
    <3>3. Halfway("addTotal", e, reg'[c])
      BY <2>1, <3>1, <3>2 DEF Halfway
    <3> QED
      BY <2>6, <3>1, <3>2, <3>3 DEF Updating
  <2>8. CASE ReadN(c)
    <3>1. /\ pc[c] = "n" /\ pc'[c] = "addN" /\ reg'[c] = [reg[c] EXCEPT !.v = e.n]
      BY <2>1, <2>3, <2>8 DEF ReadN, Read, At
    <3>2. reg'[c].v = e.n /\ reg'[c].lat = reg[c].lat /\ reg'[c].el = reg[c].el
      BY <2>2, <3>1 DEF Registers
    <3>3. Halfway("addN", e, reg'[c])
      BY <2>1, <3>1, <3>2 DEF Halfway
    <3> QED
      BY <2>6, <3>1, <3>2, <3>3 DEF Updating
  <2>9. CASE CompareMin(c)
    <3>1. /\ pc[c] = "min" /\ pc'[c] = IF reg[c].lat < e.min THEN "setMin" ELSE "max"
          /\ reg'[c] = [reg[c] EXCEPT !.v = e.min]
      BY <2>1, <2>3, <2>9 DEF CompareMin, Read, At
    <3>2. reg'[c].lat = reg[c].lat /\ reg'[c].el = reg[c].el
      BY <2>2, <3>1 DEF Registers
    <3>3. e.n >= 2 /\ (e.n - 1) * e.min <= e.total - reg[c].lat
          /\ e.total - reg[c].lat <= (e.n - 1) * e.max
      BY <2>1, <3>1 DEF Halfway, Between
    <3>4. CASE reg[c].lat < e.min
      <4>1. Halfway("setMin", e, reg'[c])
        BY <3>2, <3>3, <3>4 DEF Halfway, Between
      <4> QED
        BY <2>6, <3>1, <3>2, <3>4, <4>1 DEF Updating
    <3>5. CASE ~(reg[c].lat < e.min)
      <4>1. e.n * e.min = (e.n - 1) * e.min + e.min
        BY <2>5, <3>3, Products
      <4>2. e.n - 1 \in Nat /\ (e.n - 1) * e.min \in Nat
        BY <2>5, <3>3
      <4>3. e.min <= reg[c].lat /\ e.n * e.min <= e.total
        BY <2>5, <3>3, <3>5, <4>1, <4>2
      <4>4. Halfway("max", e, reg'[c])
        BY <3>2, <3>3, <4>3 DEF Halfway
      <4> QED
        BY <2>6, <3>1, <3>2, <3>5, <4>4 DEF Updating
    <3> QED
      BY <3>4, <3>5
  <2>10. CASE CompareMax(c)
    <3>1. pc[c] = "max" /\ e.n >= 2 /\ e.n * e.min <= e.total
          /\ e.total - reg[c].lat <= (e.n - 1) * e.max
      BY <2>1, <2>10 DEF CompareMax, Halfway
    <3>2. CASE reg[c].lat > e.max
      <4>1. pc'[c] = "setMax" /\ reg'[c] = reg[c]
        BY <2>1, <2>3, <2>10, <3>2 DEF CompareMax
      <4>2. Halfway("setMax", e, reg'[c])
        BY <3>1, <3>2, <4>1 DEF Halfway
      <4> QED
        BY <2>6, <4>1, <4>2 DEF Updating
    <3>3. CASE ~(reg[c].lat > e.max)
      <4>1. pc'[c] = "idle"
        BY <2>1, <2>3, <2>10, <3>3 DEF CompareMax, Return
      <4>2. e.n * e.max = (e.n - 1) * e.max + e.max /\ (e.n - 1) * e.max \in Nat
        BY <2>5, <3>1, Products
      <4>3. e.total <= e.n * e.max
        BY <2>5, <3>1, <3>3, <4>2
      <4>4. e.n >= 1 /\ Between(e, e.n, e.total)
        BY <2>5, <3>1, <4>3 DEF Between
      <4>5. pc'[c] \notin Updating
        BY <4>1 DEF Updating
      <4> QED
        BY <1>1, <1>3, <2>4, <4>1, <4>4, <4>5, SumsUpdate
    <3> QED
      BY <3>2, <3>3
  <2> QED
    BY <2>7, <2>8, <2>9, <2>10
<1> QED
  BY <1>2, <1>3

\* The writes of update_latency.
LEMMA SumsWrite ==
    ASSUME FInv, SumsFit, NEW c \in Cpus, AddTotal(c) \/ AddN(c) \/ SetMin(c) \/ SetMax(c)
    PROVE  SumsFit'
<1>1. pc[c] \in Updating /\ UNCHANGED <<stats, overlap>>
  BY DEF AddTotal, AddN, SetMin, SetMax, Write, At, Updating, ghosts
<1>2. CASE overlap
  BY <1>1, <1>2 DEF SumsFit
<1>3. CASE ~overlap
  <2>1. /\ reg[c].el = stats /\ Halfway(pc[c], lat[stats], reg[c]) /\ E(c) = lat[stats]
    BY <1>1, <1>3 DEF SumsFit, Exclusive, Summed, E
  <2>2. /\ lat[stats] \in Entry /\ reg[c] \in Registers /\ stats \in DOMAIN lat
        /\ lat[stats].min <= lat[stats].max
    <3>1. /\ E(c) \in Entry /\ E(c).min <= E(c).first /\ E(c).first <= E(c).max
          /\ reg[c] \in Registers /\ reg[c].el \in DOMAIN lat
      BY <1>1, RegType
    <3>2. E(c).min <= E(c).max
      BY <3>1 DEF Entry
    <3> QED
      BY <2>1, <3>1, <3>2
  <2>3. pc \in [Cpus -> Labels] /\ reg \in [Cpus -> Registers]
    BY TypeParts DEF FInv, Parts, CpuType
  <2>4. \A o \in Cpus : o # c => pc'[o] = pc[o] /\ reg'[o] = reg[o]
    BY <2>3 DEF AddTotal, AddN, SetMin, SetMax, Write, At, Return
  <2> DEFINE e == lat[stats]
             x == lat'[stats]
             l == reg[c].lat
  <2>5. /\ e.n \in Nat /\ e.min \in Nat /\ e.max \in Nat /\ e.total \in Nat /\ l \in Nat
        /\ e.min <= e.max
    BY <2>2 DEF Entry, Registers
  <2>6. ASSUME NEW m \in Updating, pc'[c] = m, reg' = reg, Halfway(m, x, reg[c])
        PROVE  SumsFit'
    BY <1>1, <1>3, <2>4, <2>6, SumsUpdate
  <2>7. CASE AddTotal(c)
    <3>1. /\ pc[c] = "addTotal" /\ pc'[c] = "n" /\ reg' = reg
          /\ x = [e EXCEPT !.total = reg[c].v + l]
      BY <2>1, <2>2, <2>3, <2>7 DEF AddTotal, Write, At
    <3>2. reg[c].v = e.total /\ e.n >= 1 /\ e.n * e.min <= e.total /\ e.total <= e.n * e.max
      BY <2>1, <3>1 DEF Halfway, Between
    <3>3. x.n = e.n /\ x.min = e.min /\ x.max = e.max /\ x.total = e.total + l
      BY <2>2, <3>1, <3>2 DEF Entry
    <3> HIDE DEF x
    <3>4. x.total - l = e.total
      BY <2>5, <3>3
    <3>5. Halfway("n", x, reg[c])
      BY <3>2, <3>3, <3>4 DEF Halfway, Between
    <3> QED
      BY <2>6, <3>1, <3>5 DEF Updating
  <2>8. CASE AddN(c)
    <3>1. /\ pc[c] = "addN" /\ pc'[c] = "min" /\ reg' = reg
          /\ x = [e EXCEPT !.n = reg[c].v + 1]
      BY <2>1, <2>2, <2>3, <2>8 DEF AddN, Write, At
    <3>2. reg[c].v = e.n /\ e.n >= 1 /\ Between(e, e.n, e.total - l)
      BY <2>1, <3>1 DEF Halfway
    <3>3. x.n = e.n + 1 /\ x.min = e.min /\ x.max = e.max /\ x.total = e.total
      BY <2>2, <3>1, <3>2 DEF Entry
    <3> HIDE DEF x
    <3>4. x.n - 1 = e.n /\ x.n >= 2
      BY <2>5, <3>2, <3>3
    <3>5. Halfway("min", x, reg[c])
      BY <3>2, <3>3, <3>4 DEF Halfway, Between
    <3> QED
      BY <2>6, <3>1, <3>5 DEF Updating
  <2>9. CASE SetMin(c)
    <3>1. /\ pc[c] = "setMin" /\ pc'[c] = "max" /\ reg' = reg /\ x = [e EXCEPT !.min = l]
      BY <2>1, <2>2, <2>3, <2>9 DEF SetMin, Write, At
    <3>2. /\ e.n >= 2 /\ (e.n - 1) * e.min <= e.total - l /\ e.total - l <= (e.n - 1) * e.max
          /\ l < e.min
      BY <2>1, <3>1 DEF Halfway, Between
    <3>3. x.n = e.n /\ x.min = l /\ x.max = e.max /\ x.total = e.total
      BY <2>2, <3>1 DEF Entry
    <3> HIDE DEF x
    <3>4. e.n * l = (e.n - 1) * l + l /\ (e.n - 1) * l <= (e.n - 1) * e.min
      <4>1. l <= e.min
        BY <2>5, <3>2
      <4>2. e.n * l = (e.n - 1) * l + l
        BY <2>5, <3>2, Products
      <4>3. (e.n - 1) * l <= (e.n - 1) * e.min
        <5> DEFINE k == e.n
                   u == e.min
        <5>1. k \in Nat /\ k >= 2 /\ u \in Nat /\ l \in Nat /\ l <= u
          BY <2>5, <3>2, <4>1
        <5> HIDE DEF k, u, l
        <5>2. (k - 1) * l <= (k - 1) * u
          BY <5>1, Products
        <5> QED
          BY <5>2 DEF k, u
      <4> QED
        BY <4>2, <4>3
    <3>5. (e.n - 1) * l \in Nat /\ (e.n - 1) * e.min \in Nat
      BY <2>5, <3>2
    <3>6. e.n * l <= e.total
      BY <2>5, <3>2, <3>4, <3>5
    <3>7. Halfway("max", x, reg[c])
      BY <2>5, <3>2, <3>3, <3>6 DEF Halfway
    <3> QED
      BY <2>6, <3>1, <3>7 DEF Updating
  <2>10. CASE SetMax(c)
    <3>1. pc[c] = "setMax" /\ pc'[c] = "idle" /\ x = [e EXCEPT !.max = l]
      BY <2>1, <2>2, <2>3, <2>10 DEF SetMax, Return
    <3>2. /\ e.n >= 2 /\ e.n * e.min <= e.total /\ e.total - l <= (e.n - 1) * e.max
          /\ l > e.max
      BY <2>1, <3>1 DEF Halfway
    <3>3. x.n = e.n /\ x.min = e.min /\ x.max = l /\ x.total = e.total
      BY <2>2, <3>1 DEF Entry
    <3> HIDE DEF x
    <3>4. e.n * l = (e.n - 1) * l + l /\ (e.n - 1) * e.max <= (e.n - 1) * l
      BY <2>5, <3>2, Products
    <3>5. (e.n - 1) * l \in Nat /\ (e.n - 1) * e.max \in Nat
      BY <2>5, <3>2
    <3>6. e.total <= e.n * l
      BY <2>5, <3>2, <3>4, <3>5
    <3>7. x.n >= 1 /\ Between(x, x.n, x.total)
      BY <2>5, <3>2, <3>3, <3>6 DEF Between
    <3>8. pc'[c] \notin Updating
      BY <3>1 DEF Updating
    <3> QED
      BY <1>1, <1>3, <2>4, <3>1, <3>7, <3>8, SumsUpdate DEF x
  <2> QED
    BY <2>7, <2>8, <2>9, <2>10
<1> QED
  BY <1>2, <1>3

\* The steps before update_latency concern no entry.
LEMMA SumsOther ==
    ASSUME FInv, SumsFit, NEW c \in Cpus,
           \/ Arrive(c) \/ LookupPort(c) \/ LookupBypass(c) \/ LookupBlock(c) \/ LookupCount(c)
           \/ CreateCount(c) \/ AddCount(c) \/ CheckRateLimit(c)
    PROVE  SumsFit'
<1>1. pc \in [Cpus -> Labels] /\ reg \in [Cpus -> Registers]
  BY TypeParts DEF FInv, Parts, CpuType
<1>2. UNCHANGED <<lat, stats, overlap>>
  BY DEF Arrive, LookupPort, LookupBypass, LookupBlock, LookupCount, CreateCount, AddCount, Count,
     CheckRateLimit, tables, ghosts
<1>3. \A o \in Cpus : o # c => pc'[o] = pc[o] /\ reg'[o] = reg[o]
  BY <1>1 DEF Arrive, LookupPort, LookupBypass, LookupBlock, LookupCount, CreateCount, AddCount,
     Count, CheckRateLimit, At, Return
<1>4. /\ pc[c] \in {"idle", "port", "bypass", "block", "count", "create", "add", "limit"}
      /\ pc'[c] \in {"idle", "port", "bypass", "block", "count", "create", "add", "limit", "latency"}
  BY <1>1 DEF Arrive, LookupPort, LookupBypass, LookupBlock, LookupCount, CreateCount, AddCount,
     Count, CheckRateLimit, At, Return
<1>5. pc[c] \notin Busy /\ pc'[c] \notin Busy
  BY <1>4 DEF Busy, Updating
<1> QED
  BY <1>2, <1>3, <1>5, SumsKept

\* While no updates overlap, the entry's fields add up.
LEMMA SumsInductive == (Init => SumsFit) /\ (FInv /\ SumsFit /\ [Next]_vars => SumsFit')
<1>1. Init => SumsFit
  BY DEF Init, SumsFit, Exclusive, Summed, Busy, Updating
<1>2. ASSUME FInv, SumsFit, [Next]_vars PROVE SumsFit'
  <2>1. ASSUME UNCHANGED <<lat, stats, overlap, pc, reg>> PROVE SumsFit'
    BY <1>2, <2>1, SumsKept
  <2>2. CASE \/ Tick \/ UNCHANGED vars
             \/ \E d \in Durations : BlockIP(d)
             \/ UnblockIP
             \/ \E on \in BOOLEAN : SetRateLimit(on) \/ SetBypass(on) \/ SetProtectedPort(on)
    <3>1. UNCHANGED <<lat, stats, overlap, pc, reg>>
      BY <2>2 DEF Tick, vars, tables, ghosts, BlockIP, UnblockIP, SetRateLimit, SetBypass,
         SetProtectedPort, Change
    <3> QED
      BY <2>1, <3>1
  <2> QED
    BY <1>2, <2>2, SumsOther, SumsLookup, SumsCreate, SumsRead, SumsWrite DEF Next
<1> QED
  BY <1>1, <1>2

\* The average of an entry at rest, and at each point of an update.
LEMMA HalfwayAverage ==
    ASSUME NEW e \in Entry, NEW x \in Nat, e.n >= 1
    PROVE  /\ Between(e, e.n, e.total) => e.min <= Average(e) /\ Average(e) <= e.max
           /\ Between(e, e.n, e.total - x) => e.min <= Average(e) /\ Average(e) <= e.max + x
           /\ e.n >= 2 /\ Between(e, e.n - 1, e.total - x) =>
                 /\ e.min <= Average(e) \/ x <= Average(e)
                 /\ Average(e) <= e.max \/ Average(e) <= x
           /\ e.n >= 2 /\ e.n * e.min <= e.total /\ e.total - x <= (e.n - 1) * e.max =>
                 /\ e.min <= Average(e)
                 /\ Average(e) <= e.max \/ Average(e) <= x
<1> DEFINE n == e.n
           t == e.total
           a == e.min
           b == e.max
           q == t \div n
<1>1. n \in Nat /\ t \in Nat /\ a \in Nat /\ b \in Nat /\ n >= 1
  BY DEF Entry
<1>2. Average(e) = q
  BY <1>1 DEF Average
<1>3. q \in Nat
  BY <1>1
<1> HIDE DEF n, t, a, b, q
\* The quotient against any bound.
<1>4. /\ \A l \in Nat : n * l <= t => l <= q
      /\ \A u \in Nat : t <= n * u => q <= u
  <2>1. ASSUME NEW l \in Nat, n * l <= t PROVE l <= q
    <3>1. l <= t \div n
      BY <1>1, <2>1
    <3> QED
      BY <3>1 DEF q
  <2>2. ASSUME NEW u \in Nat, t <= n * u PROVE q <= u
    <3>1. t \div n <= u
      BY <1>1, <2>2
    <3> QED
      BY <3>1 DEF q
  <2> QED
    BY <2>1, <2>2
<1>5. ASSUME n * a <= t, t <= n * b PROVE a <= q /\ q <= b
  BY <1>1, <1>4, <1>5
<1>6. ASSUME n * a <= t - x, t - x <= n * b PROVE a <= q /\ q <= b + x
  <2>1. n * (b + x) = n * b + n * x /\ n * x >= x /\ n * a \in Nat /\ n * b \in Nat /\ n * x \in Nat
    <3>1. n * (b + x) = n * b + n * x /\ n * a \in Nat /\ n * b \in Nat /\ n * x \in Nat
      BY <1>1
    <3>2. n * x = (n - 1) * x + x /\ n - 1 \in Nat
      BY <1>1
    <3>3. (n - 1) * x \in Nat
      BY <3>2
    <3> QED
      BY <3>1, <3>2, <3>3
  <2>2. n * a <= t /\ t <= n * (b + x) /\ b + x \in Nat
    BY <1>1, <1>6, <2>1
  <2> QED
    BY <1>1, <1>4, <2>2
<1>7. ASSUME n >= 2, t - x <= (n - 1) * b PROVE q <= b \/ q <= x
  <2>1. n * b = (n - 1) * b + b /\ (n - 1) * b \in Nat /\ n * x = (n - 1) * x + x /\ (n - 1) * x \in Nat
    BY <1>1, <1>7, Products
  <2>2. CASE x <= b
    <3>1. t <= n * b
      BY <1>1, <1>7, <2>1, <2>2
    <3> QED
      BY <1>1, <1>4, <3>1
  <2>3. CASE b <= x
    <3>1. (n - 1) * b <= (n - 1) * x
      BY <1>1, <1>7, <2>3, Products
    <3>2. t <= n * x
      BY <1>1, <1>7, <2>1, <3>1
    <3> QED
      BY <1>4, <3>2
  <2> QED
    BY <1>1, <2>2, <2>3
<1>8. ASSUME n >= 2, (n - 1) * a <= t - x PROVE a <= q \/ x <= q
  <2>1. n * a = (n - 1) * a + a /\ (n - 1) * a \in Nat /\ n * x = (n - 1) * x + x /\ (n - 1) * x \in Nat
    BY <1>1, <1>8, Products
  <2>2. CASE a <= x
    <3>1. n * a <= t
      BY <1>1, <1>8, <2>1, <2>2
    <3> QED
      BY <1>1, <1>4, <3>1
  <2>3. CASE x <= a
    <3>1. (n - 1) * x <= (n - 1) * a
      BY <1>1, <1>8, <2>3, Products
    <3>2. n * x <= t
      BY <1>1, <1>8, <2>1, <3>1
    <3> QED
      BY <1>4, <3>2
  <2> QED
    BY <1>1, <2>2, <2>3
<1>9. n * a <= t => a <= q
  BY <1>1, <1>4
<1> QED
  BY <1>2, <1>5, <1>6, <1>7, <1>8, <1>9 DEF Between, n, t, a, b

\* While the updates of an entry have not overlapped, the average the agent
\* reads, be it in the middle of an update, lies between the extremes it reads
\* but for the latency being recorded (policy.c:165-188; loader.go:198-231).
THEOREM AverageBetweenExtremes == Spec => []AverageWithin
<1>1. FInv /\ SumsFit => AverageWithin
  <2> DEFINE e == lat[stats]
             Low == \/ e.min <= Average(e)
                    \/ \E l \in UnderWay({"min", "setMin"}) : l <= Average(e)
             High == \/ Average(e) <= e.max
                     \/ \E l \in UnderWay({"n", "addN"}) : Average(e) <= e.max + l
                     \/ \E l \in UnderWay({"min", "setMin", "max", "setMax"}) : Average(e) <= l
  <2> SUFFICES ASSUME FInv, SumsFit, stats # 0, ~overlap
               PROVE  Low /\ High
    BY DEF AverageWithin
  <2>1. lat \in Seq(Entry) /\ stats \in 1 .. Len(lat)
    BY TypeParts DEF FInv, Parts, StatsType
  <2>2. e \in Entry
    BY <2>1
  <2>3. Summed
    BY DEF SumsFit
  <2> HIDE DEF e
  <2>4. CASE \A c \in Cpus : pc[c] \notin Updating
    <3>1. e.n >= 1 /\ Between(e, e.n, e.total)
      BY <2>3, <2>4 DEF Summed, e
    <3> QED
      BY <2>2, <3>1, HalfwayAverage
  <2>5. ASSUME NEW c \in Cpus, pc[c] \in Updating PROVE Low /\ High
    <3> DEFINE x == reg[c].lat
    <3>1. Halfway(pc[c], e, reg[c]) /\ x \in Nat
      BY <2>3, <2>5, TypeParts DEF Summed, e, FInv, Parts, CpuType, Registers
    <3>2. \A ls : pc[c] \in ls => x \in UnderWay(ls)
      BY DEF UnderWay
    <3> HIDE DEF x
    <3>3. CASE pc[c] \in {"total", "addTotal"}
      BY <2>2, <3>1, <3>3, HalfwayAverage DEF Halfway
    <3>4. CASE pc[c] \in {"n", "addN"}
      <4>1. e.n >= 1 /\ Between(e, e.n, e.total - x)
        BY <3>1, <3>4 DEF Halfway, x
      <4>2. e.min <= Average(e) /\ Average(e) <= e.max + x
        BY <2>2, <3>1, <4>1, HalfwayAverage
      <4> QED
        BY <3>2, <3>4, <4>2
    <3>5. CASE pc[c] \in {"min", "setMin"}
      <4>1. e.n >= 2 /\ Between(e, e.n - 1, e.total - x) /\ e.n \in Nat
        BY <2>2, <3>1, <3>5 DEF Halfway, x, Entry
      <4>2. /\ e.min <= Average(e) \/ x <= Average(e)
            /\ Average(e) <= e.max \/ Average(e) <= x
        BY <2>2, <3>1, <4>1, HalfwayAverage
      <4>3. x \in UnderWay({"min", "setMin"}) /\ x \in UnderWay({"min", "setMin", "max", "setMax"})
        BY <3>2, <3>5
      <4> QED
        BY <4>2, <4>3
    <3>6. CASE pc[c] \in {"max", "setMax"}
      <4>1. /\ e.n >= 2 /\ e.n * e.min <= e.total /\ e.total - x <= (e.n - 1) * e.max
            /\ e.n \in Nat
        BY <2>2, <3>1, <3>6 DEF Halfway, x, Entry
      <4>2. e.min <= Average(e) /\ (Average(e) <= e.max \/ Average(e) <= x)
        BY <2>2, <3>1, <4>1, HalfwayAverage
      <4>3. x \in UnderWay({"min", "setMin", "max", "setMax"})
        BY <3>2, <3>6
      <4> QED
        BY <4>2, <4>3
    <3> QED
      BY <2>5, <3>3, <3>4, <3>5, <3>6 DEF Updating
  <2> QED
    BY <2>4, <2>5
<1> QED
  BY <1>1, FInvAlways, SumsInductive, PTL DEF Spec
=============================================================================
