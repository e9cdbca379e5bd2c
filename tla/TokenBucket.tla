---------------------------- MODULE TokenBucket ----------------------------
(***************************************************************************)
(* check_rate_limit (ebpf/policy.c:127-163) as the CPUs of a host execute  *)
(* it: the packets of one source address may be processed on several CPUs  *)
(* at once, and no access to the bucket is atomic or locked.  Each action  *)
(* is one access to a map or to the entry of a map; reg holds what a CPU   *)
(* has read.                                                               *)
(*                                                                         *)
(* A lookup returns a pointer to the entry.  When the agent deletes the    *)
(* entry, or another CPU replaces it, the pointer stays usable and writes  *)
(* through it go to memory the map no longer refers to.  heap holds every  *)
(* entry ever made, cur the one the map refers to.                         *)
(*                                                                         *)
(* The fields are not volatile: where the source names state->tokens       *)
(* again, a compiler may use the value it still has or read the field once *)
(* more, and it may merge two stores.  Cap, Spend and Take leave the       *)
(* choice open; a merged store is two steps with nothing in between.       *)
(***************************************************************************)
EXTENDS Bucket, Sequences

CONSTANTS Cpus, Rates, MinRate, MaxRate, MaxTime, None,
          MaxPackets,   \* bound on the packets that arrive
          MaxRemovals   \* bound on the calls of RemoveRateLimit

ASSUME BucketAssumption ==
    /\ MinRate \in Nat /\ MaxRate \in Nat /\ MaxTime \in Nat
    /\ Rates \subseteq MinRate .. MaxRate
    /\ 2 * MaxRate < W
    /\ None \notin Rates /\ None \notin [tokens : Nat, last : Nat]
    /\ MaxPackets \in Nat /\ MaxRemovals \in Nat

VARIABLES
    now,       \* the clock, shared by all CPUs
    cfg,       \* rate_limit_config_map's entry, or None
    heap,      \* the buckets ever made, oldest first
    cur,       \* which of them rate_limit_map refers to, 0 for none
    removing,  \* RemoveRateLimit has deleted the first of the two entries
    verdict,   \* what the last packet got
    pc, reg,   \* per CPU: the next access, and the values read
    shared,    \* history: CPUs whose packet met another one at its entry
    torn,      \* history: entries where packets met, and no refill since was
               \* by a packet that had the entry to itself
    arrived, removals  \* counters for the bounds

history == <<shared, torn>>

vars == <<now, cfg, heap, cur, removing, verdict, pc, reg, shared, torn, arrived, removals>>

Buckets == [tokens : 0 .. W - 1, last : 0 .. MaxTime]

Registers == [t : 0 .. MaxTime, rate : Rates \cup {0}, el : 0 .. MaxPackets,
              new : 0 .. W - 1, tokens : 0 .. W - 1, refilled : BOOLEAN]

ClearReg == [t |-> 0, rate |-> 0, el |-> 0, new |-> 0, tokens |-> 0, refilled |-> FALSE]

TypeOK ==
    /\ now \in 0 .. MaxTime
    /\ cfg \in Rates \cup {None}
    /\ heap \in Seq(Buckets) /\ Len(heap) <= MaxPackets
    /\ cur \in 0 .. Len(heap)
    /\ removing \in BOOLEAN
    /\ verdict \in {"PASS", "DROP"}
    /\ pc \in [Cpus -> {"idle", "config", "state", "create", "elapsed", "refill",
                        "add", "cap", "stamp", "spend", "take"}]
    /\ reg \in [Cpus -> Registers]
    /\ shared \subseteq Cpus /\ torn \subseteq 1 .. Len(heap)
    /\ arrived \in 0 .. MaxPackets /\ removals \in 0 .. MaxRemovals

Init ==
    /\ now = 0 /\ cfg = None /\ heap = <<>> /\ cur = 0
    /\ removing = FALSE /\ verdict = "PASS"
    /\ pc = [c \in Cpus |-> "idle"] /\ reg = [c \in Cpus |-> ClearReg]
    /\ shared = {} /\ torn = {}
    /\ arrived = 0 /\ removals = 0

agent == <<cfg, removing, removals>>

-----------------------------------------------------------------------------
Tick ==
    /\ now < MaxTime
    /\ now' = now + 1
    /\ UNCHANGED <<agent, heap, cur, verdict, pc, reg, history, arrived>>

SetRate(r) ==
    /\ ~removing
    /\ cfg' = r
    /\ UNCHANGED <<now, heap, cur, removing, removals, verdict, pc, reg, history, arrived>>

RemoveConfig ==
    /\ ~removing /\ removals < MaxRemovals
    /\ cfg' = None /\ removing' = TRUE /\ removals' = removals + 1
    /\ UNCHANGED <<now, heap, cur, verdict, pc, reg, history, arrived>>

RemoveBucket ==
    /\ removing
    /\ cur' = 0 /\ removing' = FALSE
    /\ UNCHANGED <<now, cfg, removals, heap, verdict, pc, reg, history, arrived>>

-----------------------------------------------------------------------------
\* CPU c ends with its packet.
Return(c, v) ==
    /\ verdict' = v
    /\ pc' = [pc EXCEPT ![c] = "idle"] /\ reg' = [reg EXCEPT ![c] = ClearReg]
    /\ shared' = shared \ {c}

Goto(c, l) == pc' = [pc EXCEPT ![c] = l]

\* A packet of the address arrives at CPU c, which reads the clock.
Arrive(c) ==
    /\ pc[c] = "idle" /\ arrived < MaxPackets
    /\ reg' = [reg EXCEPT ![c].t = now]
    /\ arrived' = arrived + 1
    /\ Goto(c, "config")
    /\ UNCHANGED <<now, agent, heap, cur, verdict, history>>

LookupConfig(c) ==
    /\ pc[c] = "config"
    /\ IF cfg = None
       THEN Return(c, "PASS")
       ELSE /\ reg' = [reg EXCEPT ![c].rate = cfg]
            /\ Goto(c, "state")
            /\ UNCHANGED <<verdict, shared>>
    /\ UNCHANGED <<now, agent, heap, cur, torn, arrived>>

\* CPU c holds a pointer to an entry.
Pointing(c) == pc[c] \in {"elapsed", "refill", "add", "cap", "stamp", "spend", "take"}

At(i) == {c \in Cpus : Pointing(c) /\ reg[c].el = i}

LookupState(c) ==
    /\ pc[c] = "state"
    /\ reg' = [reg EXCEPT ![c].el = cur]
    /\ Goto(c, IF cur = 0 THEN "create" ELSE "elapsed")
    /\ IF At(cur) = {}
       THEN UNCHANGED history
       ELSE shared' = shared \cup At(cur) \cup {c} /\ torn' = torn \cup {cur}
    /\ UNCHANGED <<now, agent, heap, cur, verdict, arrived>>

\* BPF_ANY: replaces the entry another CPU may have made meanwhile.
Create(c) ==
    /\ pc[c] = "create"
    /\ heap' = Append(heap, Fresh(reg[c].rate, reg[c].t))
    /\ cur' = Len(heap')
    /\ Return(c, "PASS")
    /\ UNCHANGED <<now, agent, torn, arrived>>

\* Read last_refill and compute new_tokens.
Elapsed(c) ==
    /\ pc[c] = "elapsed"
    /\ LET new == NewTokens(reg[c].rate, reg[c].t, heap[reg[c].el].last)
       IN  /\ reg' = [reg EXCEPT ![c].new = new]
           /\ Goto(c, IF new > 0 THEN "refill" ELSE "spend")
    /\ UNCHANGED <<now, agent, heap, cur, verdict, history, arrived>>

\* Read tokens, to add new_tokens.
Refill(c) ==
    /\ pc[c] = "refill"
    /\ reg' = [reg EXCEPT ![c].tokens = heap[reg[c].el].tokens]
    /\ Goto(c, "add")
    /\ UNCHANGED <<now, agent, heap, cur, verdict, history, arrived>>

\* Write the sum, which no cap bounds yet.
Add(c) ==
    /\ pc[c] = "add"
    /\ LET sum == (reg[c].tokens + reg[c].new) % W
       IN  /\ heap' = [heap EXCEPT ![reg[c].el].tokens = sum]
           /\ reg' = [reg EXCEPT ![c].tokens = sum]
    /\ Goto(c, "cap")
    /\ UNCHANGED <<now, agent, cur, verdict, history, arrived>>

\* The values a test of tokens may find: the field's, or the one CPU c has.
Seen(c) == {heap[reg[c].el].tokens, reg[c].tokens}

\* The cap is left out.
Cap_Missing(c) ==
    /\ pc[c] = "cap"
    /\ reg' = [reg EXCEPT ![c].refilled = TRUE]
    /\ Goto(c, "stamp")
    /\ torn' = IF c \in shared THEN torn ELSE torn \ {reg[c].el}
    /\ UNCHANGED <<now, agent, heap, cur, verdict, shared, arrived>>

\* Test the sum, and write the burst if it is more.
Cap(c) ==
    /\ pc[c] = "cap"
    /\ \E v \in Seen(c) :
          IF v > Burst(reg[c].rate)
          THEN /\ heap' = [heap EXCEPT ![reg[c].el].tokens = Burst(reg[c].rate)]
               /\ reg' = [reg EXCEPT ![c].tokens = Burst(reg[c].rate), ![c].refilled = TRUE]
          ELSE /\ reg' = [reg EXCEPT ![c].tokens = v, ![c].refilled = TRUE]
               /\ UNCHANGED heap
    /\ Goto(c, "stamp")
    /\ torn' = IF c \in shared THEN torn ELSE torn \ {reg[c].el}
    /\ UNCHANGED <<now, agent, cur, verdict, shared, arrived>>

Stamp_Current(c) ==
    /\ pc[c] = "stamp"
    /\ heap' = [heap EXCEPT ![reg[c].el].last = now]
    /\ Goto(c, "spend")
    /\ UNCHANGED <<now, agent, cur, verdict, reg, history, arrived>>

Stamp(c) ==
    /\ pc[c] = "stamp"
    /\ heap' = [heap EXCEPT ![reg[c].el].last = reg[c].t]
    /\ Goto(c, "spend")
    /\ UNCHANGED <<now, agent, cur, verdict, reg, history, arrived>>

\* Test tokens, of which CPU c has a value only after a refill.
Spend(c) ==
    /\ pc[c] = "spend"
    /\ \E v \in IF reg[c].refilled THEN Seen(c) ELSE {heap[reg[c].el].tokens} :
          IF v > 0
          THEN /\ reg' = [reg EXCEPT ![c].tokens = v]
               /\ Goto(c, "take")
               /\ UNCHANGED <<verdict, shared>>
          ELSE Return(c, "DROP")
    /\ UNCHANGED <<now, agent, heap, cur, torn, arrived>>

\* Write one less than the value tested, or than the field holds by now.
Take(c) ==
    /\ pc[c] = "take"
    /\ \E v \in Seen(c) : heap' = [heap EXCEPT ![reg[c].el].tokens = (v - 1) % W]
    /\ Return(c, "PASS")
    /\ UNCHANGED <<now, agent, cur, torn, arrived>>

Next ==
    \/ Tick
    \/ \E r \in Rates : SetRate(r)
    \/ RemoveConfig \/ RemoveBucket
    \/ \E c \in Cpus :
          \/ Arrive(c) \/ LookupConfig(c) \/ LookupState(c) \/ Create(c)
          \/ Elapsed(c) \/ Refill(c) \/ Add(c) \/ Cap(c) \/ Stamp(c) \/ Spend(c) \/ Take(c)

Spec == Init /\ [][Next]_vars

-----------------------------------------------------------------------------
(***************************************************************************)
(* With a single CPU the accesses of a packet are as good as one step: the *)
(* packet takes effect when it reads its rate.  Live is the bucket the map *)
(* refers to, and Settled what it will be when the packet in flight is     *)
(* done.                                                                   *)
(***************************************************************************)
TheCpu == CHOOSE c \in Cpus : TRUE

Live == IF cur = 0 THEN None ELSE heap[cur]

A == INSTANCE TokenBucketAtomic WITH bucket <- Live

Settled(c) ==
    LET r == reg[c] IN
    CASE pc[c] \in {"idle", "config"} -> Live
      [] pc[c] \in {"state", "create", "elapsed", "refill", "add"} -> A!After(Live, r.rate, r.t)
      [] pc[c] = "cap" -> Spent([tokens |-> Capped(Live.tokens, r.rate), last |-> r.t])
      [] pc[c] = "stamp" -> Spent([Live EXCEPT !.last = r.t])
      [] pc[c] = "spend" -> Spent(Live)
      [] pc[c] = "take"  -> [Live EXCEPT !.tokens = r.tokens - 1]

Decided(c) ==
    LET r == reg[c] IN
    CASE pc[c] \in {"idle", "config"} -> verdict
      [] pc[c] \in {"state", "create", "elapsed", "refill", "add"} -> A!Verdict(Live, r.rate, r.t)
      [] pc[c] = "cap" -> IF Capped(Live.tokens, r.rate) > 0 THEN "PASS" ELSE "DROP"
      [] pc[c] \in {"stamp", "spend"} -> IF Live.tokens > 0 THEN "PASS" ELSE "DROP"
      [] pc[c] = "take" -> "PASS"

Atomic == INSTANCE TokenBucketAtomic
              WITH bucket <- Settled(TheCpu), verdict <- Decided(TheCpu)

\* On one CPU, while the agent sets and changes rates, check_rate_limit
\* behaves as if each packet were processed in one step (policy.c:127-163).
Refines == Atomic!Spec

\* Packets that meet at an entry may leave any number of tokens there.  But an
\* entry they have not met at never exceeds the burst of the largest rate,
\* except between an addition and its cap; and where they have, one refill by
\* a packet that has the entry to itself brings it back to the burst, whatever
\* the others left, a wrapped counter included (policy.c:147-160).
LoneRefillRepairs ==
    \A i \in (DOMAIN heap) \ torn :
        \/ heap[i].tokens <= 2 * MaxRate
        \/ \E c \in At(i) : pc[c] = "cap"
=============================================================================
