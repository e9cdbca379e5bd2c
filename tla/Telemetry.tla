------------------------------ MODULE Telemetry ------------------------------
(***************************************************************************)
(* What an agent reports and the server stores: the rows of the evaluation *)
(* loop (agent/reporter/reporter.go to server/metrics/collector.go) and    *)
(* the host's metrics (agent/system to server/metrics/system_collector.go).*)
(* Both publish only while the agent is connected and takes the server for *)
(* available (watchServer).                                                *)
(*                                                                         *)
(* Rows are numbered as the loop adds them.  AddStat and send run in       *)
(* goroutines of their own and share the slice stats without a lock.  When *)
(* they overlap, what the slice and the report then hold is undefined:     *)
(* any number of rows added before, each written Old.  Of the two network  *)
(* counters of an interface, one is modelled.                              *)
(***************************************************************************)
EXTENDS Integers, FiniteSets, Functions, SequencesExt

CONSTANTS
    Idle,       \* the rows whose counters are all zero
    Ifaces,     \* network interfaces
    W, SCALE,   \* 2^64 and 100000 in the code
    Bytes,      \* bytes an interface may count in one step
    None,
    MaxRows,    \* bound on the rows added
    MaxQueue,   \* bound on the reports under way
    MaxEvents   \* bound on rows, failures, and changes of connection and counters

ASSUME TelemetryAssumption ==
    /\ IsFiniteSet(Ifaces) /\ Bytes \subseteq Nat
    /\ MaxRows \in Nat /\ MaxQueue \in Nat /\ MaxEvents \in Nat /\ SCALE \in Nat \ {0}
    /\ W \in Nat /\ SCALE * MaxEvents < W
    /\ \A b \in Bytes : 2 * b * MaxEvents <= W     \* counters stay below 2^63
    /\ None \notin Int

VARIABLES
    connected, serverAvailable, events,
    stats, adding, sending,   \* r.stats; the row AddStat adds; what send has marshalled
    added, wire, stored,      \* rows added; reports under way; client_stats, per row
    dev, cpu,                 \* the kernel's counters
    lastNetStats, lastCPUStat, sample,   \* the monitor, its report under way
    metrics,                  \* what the last sample left in system_metrics
    \* Ghosts: whether operations under way have overlapped, the last row added
    \* by the last overlap, and the rows dropped; per interface the bytes since
    \* it was last read, and whether its counter restarted; whether the idle
    \* time has gone down since it was last read.
    clash, raced, dropped, unread, restarted, back

rows == <<stats, adding, sending, added, wire, stored, clash, raced, dropped>>
kernel == <<dev, cpu, unread, restarted>>
monitor == <<lastNetStats, lastCPUStat, sample, metrics, back>>
vars == <<connected, serverAvailable, events, rows, kernel, monitor>>

Old == 0
Rows == 1 .. MaxRows
Times == [total : Nat, idle : Nat]
\* The last three fields are ghosts: the bytes behind net, whether no counter
\* behind it restarted, and whether the idle time behind cpu has only grown.
Sample == [cpu : Nat, net : 0 .. W - 1, bytes : Nat, exact : BOOLEAN, smooth : BOOLEAN]

TypeOK ==
    /\ connected \in BOOLEAN /\ serverAvailable \in BOOLEAN
    /\ events \in 0 .. MaxEvents
    /\ stats \in Seq(Rows \cup {Old}) /\ added \in 0 .. MaxRows /\ adding \in 0 .. added
    /\ sending \in Seq(Rows \cup {Old}) \cup {None}
    /\ wire \in Seq(Seq(Rows \cup {Old})) /\ stored \in [Rows -> Nat]
    /\ dev \in [Ifaces -> 0 .. W - 1 \cup {None}] /\ cpu \in Times
    /\ lastNetStats \in [Ifaces -> 0 .. W - 1 \cup {None}] /\ lastCPUStat \in Times \cup {None}
    /\ sample \in Sample \cup {None} /\ metrics \in Sample \cup {None}
    /\ clash \in BOOLEAN /\ raced \in 0 .. added /\ dropped \subseteq 1 .. added
    /\ unread \in [Ifaces -> Nat] /\ restarted \subseteq Ifaces /\ back \in BOOLEAN

Init ==
    /\ connected = TRUE /\ serverAvailable = TRUE /\ events = 0
    /\ stats = <<>> /\ adding = 0 /\ sending = None
    /\ added = 0 /\ wire = <<>> /\ stored = [r \in Rows |-> 0]
    /\ dev \in [Ifaces -> {0, None}] /\ cpu = [total |-> 0, idle |-> 0]
    /\ lastNetStats = [i \in Ifaces |-> None] /\ lastCPUStat = None
    /\ sample = None /\ metrics = None
    /\ clash = FALSE /\ raced = 0 /\ dropped = {}
    /\ unread = [i \in Ifaces |-> 0] /\ restarted = {} /\ back = FALSE

Event == events < MaxEvents /\ events' = events + 1

\* The connection to NATS, and the server as watchServer sees it.
Connection ==
    /\ Event /\ connected' = ~connected
    /\ UNCHANGED <<serverAvailable, rows, kernel, monitor>>

WatchServer ==
    /\ Event /\ serverAvailable' = ~serverAvailable
    /\ UNCHANGED <<connected, rows, kernel, monitor>>

-----------------------------------------------------------------------------
(* The traffic reporter. *)

rest == <<connected, serverAvailable, kernel, monitor>>

\* The slice becomes s, or anything if operations overlap.
Write(overlap, s) ==
    IF overlap
    THEN raced' = added' /\ \E n \in 0 .. added' : stats' = [k \in 1 .. n |-> Old]
    ELSE raced' = raced /\ stats' = s

\* An operation begins, or is done, while another one runs if busy.  After an
\* overlap the other one works on what it has read before.
Begin(busy, s) == clash' = (clash \/ busy) /\ Write(clash', s)
End(busy, s)   == clash' = (clash /\ busy) /\ Write(clash, s)

BeginAddStat ==
    /\ Event /\ adding = 0 /\ added < MaxRows
    /\ added' = added + 1 /\ adding' = added'
    /\ Begin(sending # None, stats)
    /\ sending' = IF sending = None THEN None ELSE <<Old>>
    /\ UNCHANGED <<rest, wire, stored, dropped>>

EndAddStat ==
    /\ adding # 0 /\ adding' = 0 /\ added' = added
    /\ End(sending # None, Append(stats, adding))
    /\ UNCHANGED <<rest, events, sending, wire, stored, dropped>>

\* send throws the rows away while the server cannot be reached.
SendSkips ==
    /\ sending = None /\ stats # <<>> /\ ~(connected /\ serverAvailable)
    /\ added' = added
    /\ Write(adding # 0, <<>>) /\ clash' = (adding # 0)
    /\ dropped' = dropped \cup (ToSet(stats) \ {Old})
    /\ UNCHANGED <<rest, events, adding, sending, wire, stored>>

Marshal ==
    /\ sending = None /\ stats # <<>> /\ connected /\ serverAvailable
    /\ added' = added
    /\ Begin(adding # 0, stats)
    /\ sending' = IF clash' THEN <<Old>> ELSE stats
    /\ UNCHANGED <<rest, events, adding, wire, stored, dropped>>

\* What a report that was published, or was not, leaves in the slice.
Remaining_Kept(ok) == stats

Remaining(ok) == IF ok THEN <<>> ELSE stats

Publish(ok) ==
    /\ sending # None /\ sending' = None /\ added' = added
    /\ IF ok THEN Len(wire) < MaxQueue /\ wire' = Append(wire, sending) /\ UNCHANGED events
       ELSE Event /\ UNCHANGED wire
    /\ End(adding # 0, Remaining(ok))
    /\ UNCHANGED <<rest, adding, stored, dropped>>

\* NATS or a server that is down loses a report.
LoseReport ==
    /\ wire # <<>> /\ Event
    /\ dropped' = dropped \cup (ToSet(Head(wire)) \ {Old})
    /\ wire' = Tail(wire)
    /\ UNCHANGED <<rest, stats, adding, sending, added, stored, clash, raced>>

\* StartCollector: a row without activity is skipped; one that the database
\* refuses is only logged.
Collect ==
    /\ wire # <<>> /\ wire' = Tail(wire)
    /\ LET active == ToSet(Head(wire)) \ (Idle \cup {Old})
       IN  \E refused \in {{}} \cup {{r} : r \in active} :
              /\ IF refused = {} THEN UNCHANGED events ELSE Event
              /\ dropped' = dropped \cup refused
              /\ stored' = [r \in Rows |-> stored[r] + IF r \in active \ refused THEN 1 ELSE 0]
    /\ UNCHANGED <<rest, stats, adding, sending, added, clash, raced>>

-----------------------------------------------------------------------------
(* The kernel's counters. *)

agent == <<connected, serverAvailable, rows, lastNetStats, lastCPUStat, sample, metrics>>

Traffic(i, b) ==
    /\ Event /\ dev[i] # None
    /\ dev' = [dev EXCEPT ![i] = (@ + b) % W]
    /\ unread' = [unread EXCEPT ![i] = @ + b]
    /\ UNCHANGED <<agent, cpu, restarted, back>>

\* An interface appears, its counter at zero, or goes.
AddInterface(i) ==
    /\ Event /\ dev[i] = None
    /\ dev' = [dev EXCEPT ![i] = 0]
    /\ restarted' = restarted \cup {i}
    /\ UNCHANGED <<agent, cpu, unread, back>>

RemoveInterface(i) ==
    /\ Event /\ dev[i] # None
    /\ dev' = [dev EXCEPT ![i] = None]
    /\ UNCHANGED <<agent, cpu, unread, restarted, back>>

\* Time passes busy or idle.  The time spent waiting for input and output,
\* which counts as idle, may also go down.
CpuTick ==
    /\ Event
    /\ \E idle \in {0, 1} : cpu' = [total |-> cpu.total + 1, idle |-> cpu.idle + idle]
    /\ UNCHANGED <<agent, dev, unread, restarted, back>>

IowaitDown ==
    /\ Event /\ cpu.idle > 0
    /\ cpu' = [total |-> cpu.total - 1, idle |-> cpu.idle - 1]
    /\ back' = TRUE
    /\ UNCHANGED <<agent, dev, unread, restarted>>

-----------------------------------------------------------------------------
(* The system monitor. *)

server == <<connected, serverAvailable, rows, dev, cpu>>

Minus_Signed(x, y) == x - y

Minus(x, y) == (x - y) % W

\* 100000 * (total - free) / total
Percent(total, free) ==
    IF total = 0 THEN 0 ELSE ((SCALE * Minus(total, free)) % W) \div total

CpuUsage ==
    Percent(Minus(cpu.total, lastCPUStat.total), Minus(cpu.idle, lastCPUStat.idle))

\* Both reads find again only what there is; an interface that is gone keeps
\* what was last read of it.
ReadCpu == lastCPUStat' = cpu /\ back' = FALSE

ReadNet_Once ==
    /\ lastNetStats' = [i \in Ifaces |-> IF lastNetStats[i] = None THEN dev[i] ELSE lastNetStats[i]]
    /\ unread' = [i \in Ifaces |-> IF dev[i] = None THEN unread[i] ELSE 0]
    /\ restarted' = {i \in restarted : dev[i] = None}

ReadNet ==
    /\ lastNetStats' = [i \in Ifaces |-> IF dev[i] = None THEN lastNetStats[i] ELSE dev[i]]
    /\ unread' = [i \in Ifaces |-> IF dev[i] = None THEN unread[i] ELSE 0]
    /\ restarted' = {i \in restarted : dev[i] = None}

Known == {i \in Ifaces : dev[i] # None /\ lastNetStats[i] # None}

NetworkDelta == SumFunction([i \in Known |-> Minus(dev[i], lastNetStats[i])]) % W

\* Start takes the CPU's times for zero when it cannot read them.
Start(cpuRead, netRead) ==
    /\ lastCPUStat = None
    /\ IF cpuRead THEN ReadCpu ELSE lastCPUStat' = [total |-> 0, idle |-> 0] /\ UNCHANGED back
    /\ IF netRead THEN ReadNet ELSE UNCHANGED <<lastNetStats, unread, restarted>>
    /\ IF cpuRead /\ netRead THEN UNCHANGED events ELSE Event
    /\ UNCHANGED <<server, sample, metrics>>

\* collect: a read that fails leaves zero, and what it compares with as it was.
CollectMetrics(cpuRead, netRead) ==
    /\ lastCPUStat # None /\ sample = None
    /\ IF cpuRead THEN ReadCpu ELSE UNCHANGED <<lastCPUStat, back>>
    /\ IF netRead THEN ReadNet ELSE UNCHANGED <<lastNetStats, unread, restarted>>
    /\ IF cpuRead /\ netRead THEN UNCHANGED events ELSE Event
    /\ sample' = [cpu |-> IF cpuRead THEN CpuUsage ELSE 0,
                  net |-> IF netRead THEN NetworkDelta ELSE 0,
                  bytes |-> IF netRead THEN SumFunctionOnSet(unread, Known) ELSE 0,
                  exact |-> netRead => restarted \cap Known = {},
                  smooth |-> cpuRead => ~back]
    /\ metrics' = None
    /\ UNCHANGED server

\* The callback: Report drops the sample while the server cannot be reached.
ReportSkips ==
    /\ sample # None /\ ~(connected /\ serverAvailable)
    /\ sample' = None
    /\ UNCHANGED <<server, events, kernel, lastNetStats, lastCPUStat, metrics, back>>

\* The driver refuses a value of 2^63 and more; a failing insert is only logged.
Storable(v) == 2 * v < W

\* Report publishes it and saveSystemMetrics stores it: nothing else looks at
\* the message on its way.  It is lost, or the insert fails, if ~ok.
ReportMetrics(ok) ==
    /\ sample # None /\ connected /\ serverAvailable
    /\ sample' = None
    /\ IF ok THEN UNCHANGED events ELSE Event
    /\ metrics' = IF ok /\ Storable(sample.net) THEN sample ELSE None
    /\ UNCHANGED <<server, kernel, lastNetStats, lastCPUStat, back>>

Next ==
    \/ Connection \/ WatchServer
    \/ BeginAddStat \/ EndAddStat
    \/ SendSkips \/ Marshal \/ \E ok \in BOOLEAN : Publish(ok)
    \/ LoseReport \/ Collect
    \/ \E i \in Ifaces :
          \/ \E b \in Bytes : Traffic(i, b)
          \/ AddInterface(i) \/ RemoveInterface(i)
    \/ CpuTick \/ IowaitDown
    \/ \E cpuRead, netRead \in BOOLEAN : Start(cpuRead, netRead) \/ CollectMetrics(cpuRead, netRead)
    \/ ReportSkips \/ \E ok \in BOOLEAN : ReportMetrics(ok)

Spec == Init /\ [][Next]_vars

-----------------------------------------------------------------------------
\* The row is still on its way to the server.
Pending(r) ==
    \/ r = adding \/ r \in ToSet(stats)
    \/ (sending # None /\ r \in ToSet(sending)) \/ \E m \in ToSet(wire) : r \in ToSet(m)

\* AddStat and send share a slice without a lock (reporter.go:33-35, 49-87).
\* After they have overlapped, rows added before may be lost or stored twice;
\* but every row added since the last overlap is stored at most once, also
\* when a report could not be published and its rows went into the next, and
\* it is missing only if it shows no activity, the server could not be
\* reached, or the message or the insert was lost (collector.go:40-65).
RowsStoredOnce ==
    \A r \in raced + 1 .. added :
        /\ stored[r] <= 1
        /\ ~Pending(r) /\ stored[r] = 0 => r \in Idle \cup dropped

\* Whatever reads fail, interfaces come and go and counters restart, a stored
\* row never shows more traffic than there was since the counters were last
\* read: the wrapped difference of a counter that restarted is no value the
\* database takes.  Without a restart the row is exact, and its percentages
\* are at most 100 unless the idle time went down (monitor.go:65-85, 180-205;
\* system_collector.go:43-63).
StoredMetricsTrue ==
    metrics # None =>
        /\ metrics.net <= metrics.bytes
        /\ metrics.exact => metrics.net = metrics.bytes
        /\ metrics.smooth => metrics.cpu <= SCALE
=============================================================================
