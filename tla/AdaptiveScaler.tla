--------------------------- MODULE AdaptiveScaler ---------------------------
(***************************************************************************)
(* The adaptive load scaler (internal/server/metrics/adaptive_scaler.go)   *)
(* for one agent: each report of the agent yields a load index, a level is *)
(* held for the agent, and a rate_limit rule with the reserved id -1 is    *)
(* published to it or deleted from it when the level changes.  Reports of  *)
(* an agent are handled one after another.  A report whose baseline cannot *)
(* be queried changes nothing and has no action here.                      *)
(*                                                                         *)
(* What is published is on its way until the agent handles it.  Updates    *)
(* and deletions come through separate subscriptions: each keeps its order *)
(* and is handled by a goroutine of its own, so one may overtake the       *)
(* other.  The agent's topic is taken to differ from its id.               *)
(*                                                                         *)
(* The load index is an integer; which index a report yields depends on    *)
(* the database, so it is any of Readings.                                 *)
(***************************************************************************)
EXTENDS Integers, Functions, SequencesExt

CONSTANTS Readings,    \* the load indices reports may yield
          SHIFT,       \* deviations that make a baseline shift: 10
          HasManual,   \* the table has rules tagged for this agent
          Absent,
          MaxFaults,   \* bound on restarts, lost connections and failed queries
          MaxWire      \* bound on the announcements on their way

ASSUME AdaptiveScalerAssumption ==
    /\ Readings \subseteq 0 .. 100
    /\ SHIFT \in Nat /\ MaxFaults \in Nat /\ MaxWire \in Nat \ {0}
    /\ HasManual \in BOOLEAN
    /\ Absent \notin Int

VARIABLES
    level,     \* ActiveRuleLevel
    stable,    \* StableCount
    esc,       \* EscalationCount
    deviations,   \* DeviationCount, SHIFT + 1 for all above SHIFT
    last,      \* LastPublishedIndex
    rule,      \* the threshold of rule -1 in the agent's store, or Absent
    own,       \* the agent's store holds the rules tagged for it
    announced, \* what is on its way to the agent about rule -1, in the order it
               \* was published: a threshold, or Absent for the deletion
    restoring, \* how many times the rules tagged for the agent are on their way
    link,      \* the agent is subscribed and connected
    faults,    \* counter for the bound
    reading,   \* ghost: the load index of the last report
    run,       \* ghost: how many reports in a row asked for a level above the
               \* one held, 3 for more
    overtaken, \* ghost: that many announcements, the first ones on their way, are
               \* older than one the agent has handled
    astray,    \* ghost: the last announcement was lost or not made in full, or
               \* what it left at the agent was undone
    beat       \* ghost: changes with each report, so that a report that leaves
               \* the rest as it is still is a step that fairness sees

scaler == <<level, stable, esc, deviations, last>>
held == <<rule, own>>
way == <<announced, restoring, overtaken>>
asked == <<reading, run, beat>>
scalerVars == <<scaler, held, way, astray, link, faults, asked>>

levelRateLimit == <<400, 200, 100, 50>>

indexToLevel(idx) ==
    CASE idx <= 30 -> 0
      [] idx > 30 /\ idx <= 50 -> 1
      [] idx > 50 /\ idx <= 70 -> 2
      [] idx > 70 /\ idx <= 90 -> 3
      [] idx > 90 -> 4

\* The threshold of rule -1 at level l.
Limit(l) == IF l > 0 THEN levelRateLimit[l] ELSE Absent

Limits == Range(levelRateLimit) \cup {Absent}

ScalerTypeOK ==
    /\ level \in 0 .. 4 /\ stable \in 0 .. 2 /\ esc \in 0 .. 2
    /\ deviations \in 0 .. SHIFT + 1 /\ last \in Readings \cup {0}
    /\ rule \in Limits /\ own \in BOOLEAN
    /\ announced \in Seq(Limits) /\ restoring \in Nat
    /\ overtaken \in 0 .. Len(announced) /\ astray \in BOOLEAN
    /\ link \in BOOLEAN /\ faults \in 0 .. MaxFaults
    /\ reading \in Readings \cup {0}
    /\ run \in 0 .. 3
    /\ beat \in BOOLEAN

\* An agent that has fetched its rules holds those tagged for it only if they
\* were published to it since.
ScalerInit ==
    /\ level = 0 /\ stable = 0 /\ esc = 0 /\ deviations = 0 /\ last = 0
    /\ rule = Absent /\ own \in {FALSE, HasManual}
    /\ announced = <<>> /\ restoring = 0 /\ overtaken = 0
    /\ astray = (own # HasManual)
    /\ link = TRUE /\ faults = 0
    /\ reading = 0 /\ run = 0 /\ beat = FALSE

-----------------------------------------------------------------------------
Fault == faults < MaxFaults /\ faults' = faults + 1

\* Publishes what the agent is to hold about rule -1, and with the deletion
\* the rules tagged for the agent, unless their query fails.  An agent that
\* cannot be reached never gets it.
Deliver_NoDelete(l) ==
    \/ /\ link
       /\ announced' = IF l = 0 THEN announced ELSE Append(announced, Limit(l))
       /\ restoring' = IF l = 0 /\ HasManual THEN restoring + 1 ELSE restoring
       /\ astray' = FALSE
       /\ UNCHANGED <<overtaken, faults>>
    \/ /\ ~link
       /\ astray' = TRUE
       /\ UNCHANGED <<way, faults>>

Deliver(l) ==
    \/ /\ link
       /\ announced' = Append(announced, Limit(l))
       /\ restoring' = IF l = 0 /\ HasManual THEN restoring + 1 ELSE restoring
       /\ astray' = FALSE
       /\ UNCHANGED <<overtaken, faults>>
    \/ /\ link /\ l = 0 /\ HasManual /\ Fault
       /\ announced' = Append(announced, Limit(l))
       /\ astray' = TRUE
       /\ UNCHANGED <<restoring, overtaken>>
    \/ /\ ~link
       /\ astray' = TRUE
       /\ UNCHANGED <<way, faults>>

Silent == UNCHANGED <<way, astray, faults>>

\* The level becomes l, unless the index is within 10 of the last one that
\* made it change; level 0 is exempt.
Move_NotExempt(idx, l) ==
    IF -10 < idx - last /\ idx - last < 10
    THEN UNCHANGED <<level, last>> /\ Silent
    ELSE /\ level' = l /\ last' = idx
         /\ Deliver(l)

Move(idx, l) ==
    IF l > 0 /\ -10 < idx - last /\ idx - last < 10
    THEN UNCHANGED <<level, last>> /\ Silent
    ELSE /\ level' = l /\ last' = idx
         /\ Deliver(l)

AwaitEscalation(idx) ==
    /\ indexToLevel(idx) > level /\ esc < 2
    /\ esc' = esc + 1
    /\ UNCHANGED <<level, stable, last>> /\ Silent

Escalate_OneLevel(idx) ==
    /\ indexToLevel(idx) > level /\ esc = 2
    /\ esc' = 0 /\ stable' = 0
    /\ Move(idx, level + 1)

Escalate(idx) ==
    /\ indexToLevel(idx) > level /\ esc = 2
    /\ esc' = 0 /\ stable' = 0
    /\ Move(idx, indexToLevel(idx))

AwaitRecovery(idx) ==
    /\ indexToLevel(idx) < level /\ stable = 0
    /\ esc' = 0 /\ stable' = 1
    /\ UNCHANGED <<level, last>> /\ Silent

StepDown_Two(idx) ==
    /\ indexToLevel(idx) < level /\ stable >= 1
    /\ esc' = 0
    /\ Move(idx, level - 2)
    /\ stable' = IF level' < level THEN 0 ELSE 2

StepDown(idx) ==
    /\ indexToLevel(idx) < level /\ stable >= 1
    /\ esc' = 0
    /\ Move(idx, level - 1)
    /\ stable' = IF level' < level THEN 0 ELSE 2

Steady_KeepCount(idx) ==
    /\ indexToLevel(idx) = level
    /\ stable' = 0
    /\ UNCHANGED <<level, last, esc>> /\ Silent

Steady(idx) ==
    /\ indexToLevel(idx) = level
    /\ esc' = 0 /\ stable' = 0
    /\ UNCHANGED <<level, last>> /\ Silent

\* ProcessAdaptive for a report of index x.  When the agent has deviated from
\* its baseline at level 0 for more than SHIFT reports, the index is computed
\* again, against the baseline of the last two hours: it becomes y, or stays
\* x when that baseline cannot be queried (y = Absent).
ProcessAdaptive(x, y) ==
    LET deviating == level = 0 /\ indexToLevel(x) = 0 /\ x > 0
        anchored == deviating /\ deviations >= SHIFT /\ y # Absent
        idx == IF anchored THEN y ELSE x
    IN  /\ deviations' = IF ~deviating \/ anchored THEN 0
                         ELSE IF deviations > SHIFT THEN deviations ELSE deviations + 1
        /\ \/ AwaitEscalation(idx) \/ Escalate(idx)
           \/ AwaitRecovery(idx) \/ StepDown(idx)
           \/ Steady(idx)
        /\ reading' = idx /\ beat' = ~beat
        /\ run' = IF indexToLevel(idx) <= level THEN 0
                  ELSE IF run = 3 THEN 3 ELSE run + 1
        /\ UNCHANGED <<held, link>>

Report ==
    /\ Len(announced) < MaxWire /\ restoring < MaxWire
    /\ \E x \in Readings :
        \E y \in IF level = 0 /\ deviations >= SHIFT THEN Readings \cup {Absent} ELSE {Absent} :
            ProcessAdaptive(x, y)

-----------------------------------------------------------------------------
\* The agent handles the announcement at position k: the first one of its
\* subscription.  It is older than what the agent holds if k is one of those
\* overtaken, and leaves the rule wrong unless a newer one is still to come.
Handle(k) ==
    /\ rule' = announced[k]
    /\ announced' = RemoveAt(announced, k)
    /\ overtaken' = IF k > overtaken THEN k - 1 ELSE overtaken - 1
    /\ astray' = (astray \/ overtaken = Len(announced))
    /\ UNCHANGED <<scaler, own, restoring, link, faults, asked>>

HandleUpdate ==
    \E k \in DOMAIN announced :
        /\ announced[k] # Absent /\ \A j \in 1 .. k - 1 : announced[j] = Absent
        /\ Handle(k)

HandleDelete ==
    \E k \in DOMAIN announced :
        /\ announced[k] = Absent /\ \A j \in 1 .. k - 1 : announced[j] # Absent
        /\ Handle(k)

\* The rules tagged for the agent arrive: other entries of the store than -1.
Restore ==
    /\ restoring > 0
    /\ restoring' = restoring - 1 /\ own' = TRUE
    /\ UNCHANGED <<scaler, rule, announced, overtaken, astray, link, faults, asked>>

-----------------------------------------------------------------------------
\* agentStates is in memory only.
RestartServer ==
    /\ Fault
    /\ level' = 0 /\ stable' = 0 /\ esc' = 0 /\ deviations' = 0 /\ last' = 0
    /\ astray' = (astray \/ level > 0)
    /\ UNCHANGED <<held, way, link, asked>>

\* The agent fetches its rules anew: the table has no rule -1, and the rules
\* tagged with the agent's id are filtered out.  In watchServer what is on its
\* way stays; a restart loses it.
ReloadAgent ==
    /\ Fault
    /\ rule' = Absent /\ own' = FALSE /\ astray' = TRUE
    /\ \/ UNCHANGED way
       \/ announced' = <<>> /\ restoring' = 0 /\ overtaken' = 0
    /\ UNCHANGED <<scaler, link, asked>>

\* The connection is lost, and with it what had not reached the agent's client.
Disconnect ==
    /\ link /\ Fault
    /\ link' = FALSE
    /\ \E n \in 0 .. Len(announced), m \in 0 .. restoring :
        /\ announced' = SubSeq(announced, 1, n) /\ restoring' = m
        /\ overtaken' = IF overtaken > n THEN n ELSE overtaken
        /\ astray' = (astray \/ n < Len(announced) \/ m < restoring)
    /\ UNCHANGED <<scaler, held, asked>>

Reconnect ==
    /\ ~link
    /\ link' = TRUE
    /\ UNCHANGED <<scaler, held, way, astray, faults, asked>>

ScalerNext ==
    \/ Report \/ HandleUpdate \/ HandleDelete \/ Restore
    \/ RestartServer \/ ReloadAgent \/ Disconnect \/ Reconnect

ScalerSpec == ScalerInit /\ [][ScalerNext]_scalerVars

\* The agent reports every 30 seconds, and the goroutines of its
\* subscriptions handle what arrives.
ScalerFairSpec ==
    /\ ScalerSpec
    /\ WF_scalerVars(Report)
    /\ WF_scalerVars(HandleUpdate) /\ WF_scalerVars(HandleDelete)
    /\ WF_scalerVars(Restore)

-----------------------------------------------------------------------------
\* Once nothing is on its way, the agent holds the rule of the level the scaler
\* believes it has set, and at level 0 the rules tagged for it, unless the last
\* announcement was lost, not made in full, overtaken by an older one or undone
\* by a reload or a restart; whatever happened before it is made good by it
\* (adaptive_scaler.go:278-290, listener.go:61-89).
AgentFollows ==
    announced = <<>> /\ restoring = 0 /\ ~astray
        => rule = Limit(level) /\ (level = 0 => own = HasManual)

\* Whatever restarts and lost connections came before, the level rises only
\* after three reports in a row that asked for more (README.md:329,
\* adaptive_scaler.go:226-239).
EscalationConfirmed == [][level' > level => run' = 3]_scalerVars

\* Full load is met with the tightest rule in the end: the suppression of
\* oscillations never holds back the last escalation
\* (adaptive_scaler.go:226-273).
FullLoadCapped == <>[](reading = 100) => <>[](level = 4)

\* A load that stays at its baseline lifts the adaptive rule in the end, when
\* it never rose above level 2 and the last announcement is not lost, overtaken
\* or undone (adaptive_scaler.go:241-290).
MildLoadReturns ==
    [](level <= 2) /\ <>[]~astray /\ <>[](reading = 0) => <>[](rule = Absent)

-----------------------------------------------------------------------------
\* "When the load returns to level 0, manual rules are restored automatically"
\* (README.md:334): the adaptive rule is gone from an agent whose load stays at
\* its baseline, when the last announcement is not lost, overtaken or undone.
LoadReturns == <>[]~astray /\ <>[](reading = 0) => <>[](rule = Absent)
=============================================================================
