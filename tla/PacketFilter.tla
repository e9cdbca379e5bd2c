---------------------------- MODULE PacketFilter ----------------------------
(***************************************************************************)
(* policy_filter (ebpf/policy.c:165-292) for the packets of one source     *)
(* address to one port, as the CPUs of a host execute it while the agent   *)
(* changes the maps (ebpf/loader.go).  Each action is one access to a map  *)
(* or to an entry.  A packet the program does not look at (not IPv4, not   *)
(* TCP or UDP, too short) changes nothing and is left out; the verdict of  *)
(* the rate limiter is any (TokenBucket models it).                        *)
(*                                                                         *)
(* As in TokenBucket, a lookup returns a pointer that stays usable when    *)
(* another CPU replaces the entry: counts and lat hold every entry ever    *)
(* made, live and stats say which one the map refers to.                   *)
(***************************************************************************)
EXTENDS Integers, Sequences

CONSTANTS Cpus, Durations, None,
          MaxPackets, MaxTime, MaxChanges  \* bounds: packets, clock, map changes

ASSUME FilterAssumption ==
    /\ MaxPackets \in Nat /\ MaxTime \in Nat /\ MaxChanges \in Nat
    /\ Durations \subseteq Nat /\ None \notin Nat

VARIABLES
    now,                               \* bpf_ktime_get_ns
    protected, bypass, until, limited, \* the entries the agent writes
    counts, live,                      \* request_count's entries
    lat, stats,                        \* latency_map's entries
    pc, reg,                           \* per CPU
    packets, changes,                  \* counters for the bounds
    \* Ghosts: per CPU the outcomes its packet could have had so far and the map
    \* changes it has lived through; the packets counted; whether two latency
    \* updates have overlapped.
    could, lived, counted, overlap

maps == <<protected, bypass, until, limited>>
tables == <<counts, live, lat, stats>>
ghosts == <<could, lived, counted, overlap>>
vars == <<now, maps, tables, pc, reg, packets, changes, ghosts>>

Entry == [total : Nat, n : Nat, min : Nat, max : Nat, first : Nat]
ClearReg == [start |-> 0, t |-> 0, el |-> 0, v |-> 0, lat |-> 0,
             skip |-> FALSE, drop |-> FALSE, counted |-> FALSE]
Updating == {"total", "addTotal", "n", "addN", "min", "setMin", "max", "setMax"}
Labels == Updating \cup {"idle", "port", "bypass", "block", "count", "create", "add",
                         "limit", "latency", "createStats"}
Outcome == [drop : BOOLEAN, counted : BOOLEAN]

TypeOK ==
    /\ now \in 0 .. MaxTime
    /\ protected \in BOOLEAN /\ bypass \in BOOLEAN /\ limited \in BOOLEAN
    /\ until \in Nat \cup {None}
    /\ counts \in Seq(Nat) /\ live \in 0 .. Len(counts)
    /\ lat \in Seq(Entry) /\ stats \in 0 .. Len(lat)
    /\ pc \in [Cpus -> Labels]
    /\ reg \in [Cpus -> [start : Nat, t : Nat, el : Nat, v : Nat, lat : Nat,
                         skip : BOOLEAN, drop : BOOLEAN, counted : BOOLEAN]]
    /\ \A c \in Cpus : /\ pc[c] = "add" => reg[c].el \in DOMAIN counts
                       /\ pc[c] \in Updating => reg[c].el \in DOMAIN lat
    /\ packets \in 0 .. MaxPackets /\ changes \in 0 .. MaxChanges
    /\ could \in [Cpus -> SUBSET Outcome] /\ lived \in [Cpus -> 0 .. 2]
    /\ counted \in Nat /\ overlap \in BOOLEAN

\* The port is protected from the start (initProtectedPorts); the address may
\* be blocked.
Init ==
    /\ now = 0
    /\ protected = TRUE /\ bypass = FALSE /\ limited = FALSE
    /\ until \in Durations \cup {None}
    /\ counts = <<>> /\ live = 0 /\ lat = <<>> /\ stats = 0
    /\ pc = [c \in Cpus |-> "idle"] /\ reg = [c \in Cpus |-> ClearReg]
    /\ packets = 0 /\ changes = 0
    /\ could = [c \in Cpus |-> {}] /\ lived = [c \in Cpus |-> 0]
    /\ counted = 0 /\ overlap = FALSE

-----------------------------------------------------------------------------
Blocked(u, t) == u # None /\ u > t

\* What a packet stamped t gets from one look at all the maps.
Outcomes(p, b, u, l, t) ==
    IF ~p THEN {[drop |-> FALSE, counted |-> FALSE]}
    ELSE IF b THEN {[drop |-> FALSE, counted |-> TRUE]}
    ELSE IF Blocked(u, t) THEN {[drop |-> TRUE, counted |-> FALSE]}
    ELSE {[drop |-> FALSE, counted |-> TRUE]} \cup (IF l THEN {[drop |-> TRUE, counted |-> TRUE]} ELSE {})

Current(t) == Outcomes(protected, bypass, until, limited, t)

Stamp(c) == IF pc[c] = "port" THEN now ELSE reg[c].t

Tick ==
    /\ now < MaxTime
    /\ now' = now + 1
    /\ could' = [c \in Cpus |-> IF pc[c] = "port" THEN could[c] \cup Current(now') ELSE could[c]]
    /\ UNCHANGED <<maps, tables, pc, reg, packets, changes, lived, counted, overlap>>

\* A call of the agent writes one map.
Change ==
    /\ changes < MaxChanges /\ changes' = changes + 1
    /\ could' = [c \in Cpus |-> IF pc[c] = "idle" THEN {}
                               ELSE could[c] \cup Outcomes(protected', bypass', until', limited', Stamp(c))]
    /\ lived' = [c \in Cpus |-> IF pc[c] = "idle" THEN 0 ELSE IF lived[c] = 0 THEN 1 ELSE 2]
    /\ UNCHANGED <<now, tables, pc, reg, packets, counted, overlap>>

BlockIP(d)           == until' = now + d /\ UNCHANGED <<protected, bypass, limited>> /\ Change
UnblockIP            == until' = None /\ UNCHANGED <<protected, bypass, limited>> /\ Change
SetRateLimit(on)     == limited' = on /\ UNCHANGED <<protected, bypass, until>> /\ Change
SetBypass(on)        == bypass' = on /\ UNCHANGED <<protected, until, limited>> /\ Change
SetProtectedPort(on) == protected' = on /\ UNCHANGED <<bypass, until, limited>> /\ Change

-----------------------------------------------------------------------------
At(c, l, m) == pc[c] = l /\ pc' = [pc EXCEPT ![c] = m]

\* The packet of CPU c is done.
Return(c) ==
    /\ pc' = [pc EXCEPT ![c] = "idle"] /\ reg' = [reg EXCEPT ![c] = ClearReg]
    /\ could' = [could EXCEPT ![c] = {}] /\ lived' = [lived EXCEPT ![c] = 0]

Arrive(c) ==
    /\ packets < MaxPackets /\ packets' = packets + 1
    /\ At(c, "idle", "port")
    /\ reg' = [reg EXCEPT ![c].start = now]
    /\ could' = [could EXCEPT ![c] = Current(now)]
    /\ UNCHANGED <<now, maps, tables, changes, lived, counted, overlap>>

LookupPort(c) ==
    /\ pc[c] = "port"
    /\ IF protected
       THEN /\ pc' = [pc EXCEPT ![c] = "bypass"]
            /\ reg' = [reg EXCEPT ![c].t = now]
            /\ UNCHANGED <<could, lived>>
       ELSE Return(c)
    /\ UNCHANGED <<now, maps, tables, packets, changes, counted, overlap>>

LookupBypass_AfterBlock(c) ==
    /\ At(c, "bypass", "block")
    /\ UNCHANGED <<now, maps, tables, reg, packets, changes, ghosts>>

LookupBypass(c) ==
    /\ At(c, "bypass", IF bypass THEN "count" ELSE "block")
    /\ reg' = [reg EXCEPT ![c].skip = bypass]
    /\ UNCHANGED <<now, maps, tables, packets, changes, ghosts>>

LookupBlock(c) ==
    /\ At(c, "block", IF Blocked(until, reg[c].t) THEN "latency" ELSE "count")
    /\ reg' = [reg EXCEPT ![c].drop = Blocked(until, reg[c].t)]
    /\ UNCHANGED <<now, maps, tables, packets, changes, ghosts>>

LookupCount_NoTest(c) ==
    /\ At(c, "count", "create")
    /\ UNCHANGED <<now, maps, tables, reg, packets, changes, ghosts>>

LookupCount(c) ==
    /\ At(c, "count", IF live = 0 THEN "create" ELSE "add")
    /\ reg' = [reg EXCEPT ![c].el = live]
    /\ UNCHANGED <<now, maps, tables, packets, changes, ghosts>>

\* After the packet is counted the rate limiter is asked, unless bypassed.
Count(c) ==
    /\ pc' = [pc EXCEPT ![c] = IF reg[c].skip THEN "latency" ELSE "limit"]
    /\ reg' = [reg EXCEPT ![c].counted = TRUE]
    /\ counted' = counted + 1
    /\ UNCHANGED <<now, maps, lat, stats, packets, changes, could, lived, overlap>>

\* BPF_ANY: an entry made meanwhile by another CPU is replaced.
CreateCount(c) ==
    /\ pc[c] = "create"
    /\ counts' = Append(counts, 1) /\ live' = Len(counts')
    /\ Count(c)

AddCount(c) ==
    /\ pc[c] = "add"
    /\ counts' = [counts EXCEPT ![reg[c].el] = @ + 1] /\ live' = live
    /\ Count(c)

CheckRateLimit(c) ==
    /\ At(c, "limit", "latency")
    /\ \E d \in {FALSE} \cup {limited} : reg' = [reg EXCEPT ![c].drop = d]
    /\ UNCHANGED <<now, maps, tables, packets, changes, ghosts>>

-----------------------------------------------------------------------------
(* update_latency. *)

Latency_Reversed(c) == reg[c].start - now

Latency(c) == now - reg[c].start

LookupStats(c) ==
    /\ At(c, "latency", IF stats = 0 THEN "createStats" ELSE "total")
    /\ reg' = [reg EXCEPT ![c].lat = Latency(c), ![c].el = stats]
    /\ overlap' = (overlap \/ \E o \in Cpus : pc[o] \in Updating \cup {"createStats"})
    /\ UNCHANGED <<now, maps, tables, packets, changes, could, lived, counted>>

CreateStats(c) ==
    /\ pc[c] = "createStats"
    /\ LET l == reg[c].lat
       IN  lat' = Append(lat, [total |-> l, n |-> 1, min |-> l, max |-> l, first |-> l])
    /\ stats' = Len(lat')
    /\ Return(c)
    /\ UNCHANGED <<now, maps, counts, live, packets, changes, counted, overlap>>

E(c) == lat[reg[c].el]

\* A read of a field into a register, and the write that follows.
Read(c, l, m, v) ==
    /\ At(c, l, m)
    /\ reg' = [reg EXCEPT ![c].v = v]
    /\ UNCHANGED <<now, maps, tables, packets, changes, ghosts>>

Write(c, l, m, e) ==
    /\ At(c, l, m)
    /\ lat' = [lat EXCEPT ![reg[c].el] = e]
    /\ UNCHANGED <<now, maps, counts, live, stats, reg, packets, changes, ghosts>>

ReadTotal(c) == Read(c, "total", "addTotal", E(c).total)
AddTotal(c)  == Write(c, "addTotal", "n", [E(c) EXCEPT !.total = reg[c].v + reg[c].lat])
ReadN(c)     == Read(c, "n", "addN", E(c).n)
AddN_Skipped(c) == Write(c, "addN", "min", E(c))
AddN(c)      == Write(c, "addN", "min", [E(c) EXCEPT !.n = reg[c].v + 1])
CompareMin_Above(c) == Read(c, "min", IF reg[c].lat > E(c).min THEN "setMin" ELSE "max", E(c).min)
CompareMin(c) == Read(c, "min", IF reg[c].lat < E(c).min THEN "setMin" ELSE "max", E(c).min)
SetMin(c)    == Write(c, "setMin", "max", [E(c) EXCEPT !.min = reg[c].lat])
SetMax(c) ==
    /\ pc[c] = "setMax"
    /\ lat' = [lat EXCEPT ![reg[c].el].max = reg[c].lat]
    /\ Return(c)
    /\ UNCHANGED <<now, maps, counts, live, stats, packets, changes, counted, overlap>>
CompareMax(c) ==
    /\ pc[c] = "max"
    /\ IF reg[c].lat > E(c).max
       THEN /\ pc' = [pc EXCEPT ![c] = "setMax"] /\ UNCHANGED <<reg, could, lived>>
       ELSE Return(c)
    /\ UNCHANGED <<now, maps, tables, packets, changes, counted, overlap>>

Next ==
    \/ Tick
    \/ \E d \in Durations : BlockIP(d)
    \/ UnblockIP
    \/ \E on \in BOOLEAN : SetRateLimit(on) \/ SetBypass(on) \/ SetProtectedPort(on)
    \/ \E c \in Cpus :
          \/ Arrive(c) \/ LookupPort(c) \/ LookupBypass(c) \/ LookupBlock(c)
          \/ LookupCount(c) \/ CreateCount(c) \/ AddCount(c) \/ CheckRateLimit(c)
          \/ LookupStats(c) \/ CreateStats(c) \/ ReadTotal(c) \/ AddTotal(c)
          \/ ReadN(c) \/ AddN(c) \/ CompareMin(c) \/ SetMin(c) \/ CompareMax(c) \/ SetMax(c)

Spec == Init /\ [][Next]_vars
-----------------------------------------------------------------------------
\* While at most one map changes during the processing of a packet, the packet
\* is dropped or passed, and counted or not, as if all lookups had been made
\* at one moment (policy.c:235-291; loader.go:89-143, 233-267).  In particular
\* a blocked address that is not bypassed is dropped and not counted.
AsIfAtOnce ==
    [][\A c \in Cpus :
          pc[c] # "idle" /\ pc'[c] = "idle" /\ lived[c] <= 1
              => [drop |-> reg[c].drop, counted |-> reg[c].counted] \in could[c]]_vars

\* No CPU is about to replace the counter or to add to a replaced one.
Steady ==
    /\ live # 0
    /\ \A c \in Cpus : pc[c] # "create" /\ (pc[c] = "add" => reg[c].el = live)

\* The first packets of an address may replace each other's counter, so that
\* it loses counts and even goes down.  Once that is over it counts every
\* packet once, on any number of CPUs (policy.c:248-277; loader.go:145-159).
CountsEveryPacket ==
    [][Steady => Steady' /\ counts'[live'] - counts[live] = counted' - counted]_vars

\* Updates of several CPUs may be lost, but never so that the smallest latency
\* exceeds the largest (policy.c:165-188; loader.go:223-231).
LatencyOrdered ==
    \A i \in DOMAIN lat : lat[i].min <= lat[i].first /\ lat[i].first <= lat[i].max

\* GetAvgLatencyUs, in the unit of the clock.
Average(e) == IF e.n = 0 THEN 0 ELSE e.total \div e.n

\* The latencies whose updates have got as far as one of the labels ls.
UnderWay(ls) == {reg[c].lat : c \in {d \in Cpus : pc[d] \in ls}}

\* The agent may read the entry in the middle of an update.  While the updates
\* have not overlapped, the average it reads lies between the smallest and the
\* largest latency it reads, but for the packet being recorded: when only the
\* sum contains its latency, the average exceeds the largest by at most that;
\* when the number does too, the latency counts as one of the extremes
\* (policy.c:180-188; loader.go:198-231).  Overlapping updates lose additions
\* to one of the fields, and nothing bounds the average.
AverageWithin ==
    stats # 0 /\ ~overlap =>
        LET e == lat[stats]
        IN  /\ \/ e.min <= Average(e)
               \/ \E l \in UnderWay({"min", "setMin"}) : l <= Average(e)
            /\ \/ Average(e) <= e.max
               \/ \E l \in UnderWay({"n", "addN"}) : Average(e) <= e.max + l
               \/ \E l \in UnderWay({"min", "setMin", "max", "setMax"}) : Average(e) <= l
=============================================================================
