------------------------- MODULE TokenBucketProofs -------------------------
(***************************************************************************)
(* Theorems about TokenBucket, for every number of CPUs, word size and set *)
(* of rates: the types, the bound on the tokens of the entries at which no *)
(* packets met since the last refill by a packet alone there, and the      *)
(* atomicity of check_rate_limit on one CPU.                               *)
(***************************************************************************)
EXTENDS TokenBucket, FiniteSetTheorems, SequenceTheorems, TLAPS

\* Integer division, for divisors that are not numerals.
LEMMA QuotientBounds ==
    ASSUME NEW x \in Nat, NEW u \in Nat \ {0}
    PROVE  x \div u \in Nat /\ x \div u <= x
<1>1. x \div u \in Nat /\ (x \div u) * u <= x
  OBVIOUS
<1> DEFINE q == x \div u
<1> HIDE DEF q
<1>2. ASSUME q \in Nat PROVE q <= q * u
  BY <1>2
<1>3. q \in Nat /\ q * u <= x
  BY <1>1 DEF q
<1>4. q * u \in Nat
  BY <1>3
<1>5. q <= x
  BY <1>2, <1>3, <1>4
<1> QED
  BY <1>3, <1>5 DEF q

\* A remainder is below the divisor.
LEMMA RemainderBounds ==
    ASSUME NEW x \in Int, NEW w \in Nat \ {0}
    PROVE  x % w \in 0 .. w - 1
OBVIOUS

\* A value that fits the register is stored as it is.
LEMMA RemainderSmall ==
    ASSUME NEW w \in Nat \ {0}, NEW x \in 0 .. w - 1
    PROVE  x % w = x
OBVIOUS

\* The burst of a configured rate fits the register.
LEMMA BurstFits ==
    ASSUME NEW r \in Rates
    PROVE  r \in Nat /\ Burst(r) = 2 * r /\ Burst(r) <= 2 * MaxRate
<1>1. /\ r \in Nat /\ MinRate <= r /\ r <= MaxRate
      /\ W \in Nat \ {0} /\ 2 * MaxRate < W /\ MaxRate \in Nat
  BY BucketAssumption, WidthAssumption
<1>2. 2 * r \in 0 .. W - 1
  BY <1>1
<1> QED
  BY <1>1, <1>2, RemainderSmall DEF Burst

\* New tokens fit the register, wherever the subtraction wraps.
LEMMA NewTokensType ==
    ASSUME NEW r \in Rates, NEW t \in Nat, NEW last \in Nat
    PROVE  NewTokens(r, t, last) \in 0 .. W - 1
<1> DEFINE e == (t - last) % W
           x == (e * r) % W
<1>1. r \in Nat /\ W \in Nat \ {0} /\ UNIT \in Nat \ {0}
  BY BurstFits, WidthAssumption
<1>2. e \in 0 .. W - 1
  BY <1>1, RemainderBounds
<1>3. x \in 0 .. W - 1
  <2> HIDE DEF e
  <2>1. e * r \in Int
    BY <1>1, <1>2
  <2> QED
    BY <1>1, <2>1, RemainderBounds
<1> HIDE DEF x
<1>4. x \div UNIT \in Nat /\ x \div UNIT <= x
  BY <1>1, <1>3, QuotientBounds
<1>5. x \div UNIT \in 0 .. W - 1
  BY <1>1, <1>3, <1>4
<1> QED
  BY <1>5 DEF NewTokens, x, e

\* The sum fits the register and stays within the burst.
LEMMA ToppedType ==
    ASSUME NEW r \in Rates, NEW tokens \in Nat, NEW new \in Nat
    PROVE  /\ (tokens + new) % W \in 0 .. W - 1
           /\ Topped(tokens, new, r) \in 0 .. W - 1
           /\ Topped(tokens, new, r) <= 2 * MaxRate
<1>1. W \in Nat \ {0} /\ MaxRate \in Nat /\ 2 * MaxRate < W
  BY BucketAssumption, WidthAssumption
<1>2. (tokens + new) % W \in 0 .. W - 1
  BY <1>1, RemainderBounds
<1>3. Burst(r) \in Nat /\ Burst(r) <= 2 * MaxRate
  BY BurstFits
<1> QED
  BY <1>1, <1>2, <1>3 DEF Topped, Capped

\* A new bucket fits the register, and within the burst if its rate is not 0.
LEMMA FreshType ==
    ASSUME NEW r \in Rates, NEW t \in 0 .. MaxTime
    PROVE  /\ Fresh(r, t) \in Buckets
           /\ MinRate > 0 => Fresh(r, t).tokens <= 2 * MaxRate
<1>1. /\ r \in Nat /\ W \in Nat \ {0} /\ MaxRate \in Nat /\ 2 * MaxRate < W
      /\ MinRate \in Nat /\ MinRate <= r
  BY BurstFits, BucketAssumption, WidthAssumption
<1>2. Burst(r) = 2 * r /\ Burst(r) <= 2 * MaxRate
  BY BurstFits
<1>3. (Burst(r) - 1) % W \in 0 .. W - 1
  <2>1. Burst(r) - 1 \in Int
    BY <1>1, <1>2
  <2> QED
    BY <1>1, <2>1, RemainderBounds
<1>4. ASSUME MinRate > 0 PROVE (Burst(r) - 1) % W <= 2 * MaxRate
  <2>1. Burst(r) - 1 \in 0 .. W - 1
    BY <1>1, <1>2, <1>4
  <2>2. (Burst(r) - 1) % W = Burst(r) - 1
    BY <1>1, <2>1, RemainderSmall
  <2> QED
    BY <1>1, <1>2, <2>2
<1> QED
  BY <1>3, <1>4 DEF Fresh, Buckets

-----------------------------------------------------------------------------
Locations == {"idle", "config", "state", "create", "elapsed", "refill",
              "add", "cap", "stamp", "spend", "take"}

\* What CPU c holds is what its next access needs.
Prepared(c) ==
    /\ Pointing(c) => reg[c].el \in 1 .. Len(heap)
    /\ pc[c] \notin {"idle", "config"} => reg[c].rate \in Rates

InFlight == {c \in Cpus : pc[c] # "idle"}

\* Every entry was made by a packet that has ended.
Accounted ==
    /\ IsFiniteSet(InFlight)
    /\ Len(heap) + Cardinality(InFlight) <= arrived

\* The parts of TypeOK that an access of a CPU may change, and the others.
HeapOK == heap \in Seq(Buckets) /\ cur \in 0 .. Len(heap)

CpusOK == pc \in [Cpus -> Locations] /\ reg \in [Cpus -> Registers]

HostOK ==
    /\ now \in 0 .. MaxTime
    /\ cfg \in Rates \cup {None}
    /\ removing \in BOOLEAN
    /\ verdict \in {"PASS", "DROP"}
    /\ arrived \in 0 .. MaxPackets /\ removals \in 0 .. MaxRemovals

\* The inductive invariant behind TypeOK.
TypeInv ==
    /\ HostOK /\ HeapOK /\ CpusOK
    /\ \A c \in Cpus : Prepared(c)
    /\ Accounted

\* What the history refers to.
HistoryOK == shared \subseteq Cpus /\ torn \subseteq 1 .. Len(heap)

\* It bounds the number of entries, the part of TypeOK it does not contain.
LEMMA TypeInvImplies ==
    TypeInv => Len(heap) <= MaxPackets /\ cur \in 0 .. MaxPackets /\ (HistoryOK => TypeOK)
<1> SUFFICES ASSUME TypeInv
             PROVE  Len(heap) <= MaxPackets /\ cur \in 0 .. MaxPackets /\ (HistoryOK => TypeOK)
  OBVIOUS
<1>1. Cardinality(InFlight) \in Nat
  BY FS_CardinalityType DEF TypeInv, Accounted
<1>2. Len(heap) \in Nat
  BY DEF TypeInv, HeapOK
<1>3. Len(heap) <= MaxPackets
  BY <1>1, <1>2, BucketAssumption DEF TypeInv, Accounted, HostOK
<1>4. cur \in 0 .. MaxPackets
  BY <1>2, <1>3, BucketAssumption DEF TypeInv, HeapOK
<1> QED
  BY <1>3, <1>4 DEF TypeInv, TypeOK, HostOK, HeapOK, CpusOK, HistoryOK, Locations

\* The register of a CPU that has done nothing.
LEMMA ClearRegType == ClearReg \in Registers
BY BucketAssumption, WidthAssumption DEF ClearReg, Registers

\* The registers are closed under the writes to one of them.
LEMMA RegisterType ==
    ASSUME NEW r \in Registers
    PROVE  /\ r.t \in 0 .. MaxTime /\ r.rate \in Rates \cup {0}
           /\ r.el \in 0 .. MaxPackets /\ r.new \in 0 .. W - 1
           /\ r.tokens \in 0 .. W - 1 /\ r.refilled \in BOOLEAN
BY DEF Registers

\* One CPU moves to l with registers r; the rest of the state is typed and no
\* entry is lost.  The packets that arrived still pay for the entries.
LEMMA CpuStep ==
    ASSUME TypeInv, NEW c \in Cpus, NEW l \in Locations, NEW r \in Registers,
           pc' = [pc EXCEPT ![c] = l], reg' = [reg EXCEPT ![c] = r],
           HostOK', HeapOK',
           l \in {"elapsed", "refill", "add", "cap", "stamp", "spend", "take"}
             => r.el \in 1 .. Len(heap'),
           l \notin {"idle", "config"} => r.rate \in Rates,
           \/ pc[c] # "idle" /\ Len(heap') = Len(heap) /\ arrived' = arrived
           \/ pc[c] # "idle" /\ l = "idle" /\ Len(heap') = Len(heap) + 1 /\ arrived' = arrived
           \/ pc[c] = "idle" /\ Len(heap') = Len(heap) /\ arrived' = arrived + 1
    PROVE  TypeInv'
<1>1. CpusOK'
  BY DEF CpusOK, TypeInv
<1>2. ASSUME NEW d \in Cpus PROVE Prepared(d)'
  <2>1. /\ pc'[d] = IF d = c THEN l ELSE pc[d]
        /\ reg'[d] = IF d = c THEN r ELSE reg[d]
    BY DEF CpusOK, TypeInv
  <2>2. Prepared(d) /\ Len(heap) \in Nat /\ Len(heap') \in Nat /\ Len(heap) <= Len(heap')
    BY DEF TypeInv, HeapOK
  <2>3. CASE d = c
    BY <2>1, <2>3 DEF Prepared, Pointing
  <2>4. CASE d # c
    BY <2>1, <2>2, <2>4 DEF Prepared, Pointing
  <2> QED
    BY <2>3, <2>4
<1>3. InFlight' = IF l = "idle" THEN InFlight \ {c} ELSE InFlight \cup {c}
  BY DEF InFlight, CpusOK, TypeInv
<1>4. /\ IsFiniteSet(InFlight) /\ Cardinality(InFlight) \in Nat
      /\ Len(heap) + Cardinality(InFlight) <= arrived
  BY FS_CardinalityType DEF TypeInv, Accounted
<1>5. c \in InFlight <=> pc[c] # "idle"
  BY DEF InFlight
<1>6. /\ IsFiniteSet(InFlight')
      /\ Cardinality(InFlight') = Cardinality(InFlight)
           + (IF l = "idle" THEN 0 ELSE 1) - (IF pc[c] = "idle" THEN 0 ELSE 1)
  <2>1. CASE l = "idle"
    <3>1. /\ IsFiniteSet(InFlight \ {c})
          /\ Cardinality(InFlight \ {c})
               = IF c \in InFlight THEN Cardinality(InFlight) - 1 ELSE Cardinality(InFlight)
      BY <1>4, FS_RemoveElement
    <3> QED
      BY <1>3, <1>4, <1>5, <2>1, <3>1
  <2>2. CASE l # "idle"
    <3>1. /\ IsFiniteSet(InFlight \cup {c})
          /\ Cardinality(InFlight \cup {c})
               = IF c \in InFlight THEN Cardinality(InFlight) ELSE Cardinality(InFlight) + 1
      BY <1>4, FS_AddElement
    <3> QED
      BY <1>3, <1>4, <1>5, <2>2, <3>1
  <2> QED
    BY <2>1, <2>2
<1>7. Accounted'
  <2>1. /\ Len(heap) \in Nat /\ Len(heap') \in Nat
        /\ arrived \in Nat /\ arrived' \in Nat
    BY BucketAssumption DEF TypeInv, HeapOK, HostOK
  <2> DEFINE n == Cardinality(InFlight')
  <2>2. n = Cardinality(InFlight)
           + (IF l = "idle" THEN 0 ELSE 1) - (IF pc[c] = "idle" THEN 0 ELSE 1)
    BY <1>6
  <2> HIDE DEF n
  <2>3. Len(heap') + n <= arrived'
    BY <1>4, <2>1, <2>2
  <2> QED
    BY <1>6, <2>3 DEF Accounted, n
<1> QED
  BY <1>1, <1>2, <1>7 DEF TypeInv

\* A write to a field of an entry: the heap stays typed and as long as it was.
LEMMA HeapWrite ==
    ASSUME HeapOK, NEW i \in 1 .. Len(heap), NEW b \in Buckets,
           heap' = [heap EXCEPT ![i] = b], cur' = cur
    PROVE  HeapOK' /\ Len(heap') = Len(heap)
<1>1. heap' \in Seq(Buckets) /\ Len(heap') = Len(heap)
  BY ExceptSeq DEF HeapOK
<1> QED
  BY <1>1 DEF HeapOK

-----------------------------------------------------------------------------
\* What the invariant says of a CPU in the middle of a packet.
LEMMA CpuFacts ==
    ASSUME TypeInv, NEW c \in Cpus
    PROVE  /\ pc[c] \in Locations /\ reg[c] \in Registers
           /\ reg[c].t \in Nat /\ reg[c].tokens \in 0 .. W - 1 /\ reg[c].new \in 0 .. W - 1
           /\ Prepared(c)
           /\ Pointing(c) => /\ heap[reg[c].el] \in Buckets
                             /\ heap[reg[c].el].tokens \in 0 .. W - 1
                             /\ heap[reg[c].el].last \in Nat
                             /\ reg[c].rate \in Rates
<1>1. pc[c] \in Locations /\ reg[c] \in Registers /\ Prepared(c)
  BY DEF TypeInv, CpusOK
<1>2. /\ reg[c].t \in Nat /\ reg[c].tokens \in 0 .. W - 1 /\ reg[c].new \in 0 .. W - 1
  BY <1>1, BucketAssumption DEF Registers
<1>3. ASSUME Pointing(c)
      PROVE  heap[reg[c].el] \in Buckets /\ reg[c].rate \in Rates
  <2>1. reg[c].el \in 1 .. Len(heap) /\ heap \in Seq(Buckets)
    BY <1>1, <1>3 DEF Prepared, TypeInv, HeapOK
  <2>2. heap[reg[c].el] \in Buckets
    BY <2>1
  <2>3. reg[c].rate \in Rates
    BY <1>1, <1>3 DEF Prepared, Pointing
  <2> QED
    BY <2>2, <2>3
<1>4. \A b \in Buckets : b.tokens \in 0 .. W - 1 /\ b.last \in Nat
  BY BucketAssumption DEF Buckets
<1> QED
  BY <1>1, <1>2, <1>3, <1>4

\* The host's part is as it was but for the verdict and the counter.
LEMMA HostKept ==
    ASSUME TypeInv, UNCHANGED <<now, cfg, removing, removals>>,
           verdict' \in {"PASS", "DROP"}, arrived' \in 0 .. MaxPackets
    PROVE  HostOK'
BY DEF TypeInv, HostOK

\* Every step of the host and of every CPU keeps the invariant.
LEMMA TypeInvInductive == TypeInv /\ [Next]_vars => TypeInv'
<1> SUFFICES ASSUME TypeInv, [Next]_vars PROVE TypeInv'
  OBVIOUS
<1> USE DEF Goto, Return, agent
<1>1. /\ HostOK /\ HeapOK /\ CpusOK /\ Accounted
      /\ verdict \in {"PASS", "DROP"} /\ arrived \in 0 .. MaxPackets
      /\ MaxPackets \in Nat /\ Len(heap) \in Nat /\ arrived \in Nat
  BY BucketAssumption DEF TypeInv, HostOK, HeapOK
<1>2. ASSUME UNCHANGED <<heap, pc, reg, arrived>>, HostOK', cur' \in 0 .. Len(heap)
      PROVE  TypeInv'
  BY <1>2 DEF TypeInv, HeapOK, CpusOK, Accounted, InFlight, Prepared, Pointing
<1>3. CASE Tick
  <2>1. now' \in 0 .. MaxTime
    BY <1>1, <1>3, BucketAssumption DEF Tick, HostOK
  <2> QED
    BY <1>1, <1>2, <1>3, <2>1 DEF Tick, HostOK, HeapOK
<1>4. ASSUME NEW r \in Rates, SetRate(r) PROVE TypeInv'
  BY <1>1, <1>2, <1>4 DEF SetRate, HostOK, HeapOK
<1>5. CASE RemoveConfig
  <2>1. removals' \in 0 .. MaxRemovals
    BY <1>1, <1>5, BucketAssumption DEF RemoveConfig, HostOK
  <2>2. HostOK'
    BY <1>1, <1>5, <2>1 DEF RemoveConfig, HostOK
  <2>3. cur' \in 0 .. Len(heap)
    BY <1>1, <1>5 DEF RemoveConfig, HeapOK
  <2>4. UNCHANGED <<heap, pc, reg, arrived>>
    BY <1>5 DEF RemoveConfig
  <2> QED
    BY <1>2, <2>2, <2>3, <2>4
<1>6. CASE RemoveBucket
  <2>1. HostOK'
    BY <1>1, <1>6 DEF RemoveBucket, HostOK
  <2>2. cur' \in 0 .. Len(heap)
    BY <1>1, <1>6 DEF RemoveBucket
  <2>3. UNCHANGED <<heap, pc, reg, arrived>>
    BY <1>6 DEF RemoveBucket
  <2> QED
    BY <1>2, <2>1, <2>2, <2>3
<1>7. ASSUME NEW c \in Cpus, Arrive(c) PROVE TypeInv'
  <2> DEFINE r == [reg[c] EXCEPT !.t = now]
  <2>1. r \in Registers
    BY <1>1, CpuFacts DEF Registers, HostOK
  <2>2. reg' = [reg EXCEPT ![c] = r] /\ pc' = [pc EXCEPT ![c] = "config"]
    BY <1>7 DEF Arrive
  <2>3. pc[c] = "idle" /\ arrived' = arrived + 1 /\ arrived' \in 0 .. MaxPackets
    BY <1>1, <1>7 DEF Arrive
  <2>4. HostOK' /\ HeapOK' /\ Len(heap') = Len(heap)
    BY <1>1, <1>7, <2>3, HostKept DEF Arrive, HeapOK
  <2> HIDE DEF r
  <2> QED
    BY <1>1, <2>1, <2>2, <2>3, <2>4, CpuStep DEF Locations
<1>8. ASSUME NEW c \in Cpus, LookupConfig(c) PROVE TypeInv'
  <2>1. /\ pc[c] = "config" /\ HostOK' /\ HeapOK' /\ heap' = heap /\ arrived' = arrived
    BY <1>1, <1>8, HostKept DEF LookupConfig, HeapOK
  <2>2. CASE cfg = None
    <3>1. pc' = [pc EXCEPT ![c] = "idle"] /\ reg' = [reg EXCEPT ![c] = ClearReg]
      BY <1>8, <2>2 DEF LookupConfig
    <3> QED
      BY <1>1, <2>1, <3>1, ClearRegType, CpuStep DEF Locations
  <2>3. CASE cfg # None
    <3> DEFINE r == [reg[c] EXCEPT !.rate = cfg]
    <3>1. cfg \in Rates /\ r \in Registers /\ r.rate = cfg
      BY <1>1, <2>3, CpuFacts DEF Registers, HostOK
    <3>2. pc' = [pc EXCEPT ![c] = "state"] /\ reg' = [reg EXCEPT ![c] = r]
      BY <1>8, <2>3 DEF LookupConfig
    <3> HIDE DEF r
    <3> QED
      BY <1>1, <2>1, <3>1, <3>2, CpuStep DEF Locations
  <2> QED
    BY <2>2, <2>3
<1>9. ASSUME NEW c \in Cpus, LookupState(c) PROVE TypeInv'
  <2> DEFINE r == [reg[c] EXCEPT !.el = cur]
             l == IF cur = 0 THEN "create" ELSE "elapsed"
  <2>1. /\ pc[c] = "state" /\ HostOK' /\ HeapOK' /\ heap' = heap /\ arrived' = arrived
    BY <1>1, <1>9, HostKept DEF LookupState, HeapOK
  <2>2. cur \in 0 .. Len(heap) /\ cur \in 0 .. MaxPackets
    BY <1>1, TypeInvImplies DEF HeapOK
  <2>3. /\ r \in Registers /\ r.el = cur /\ r.rate = reg[c].rate
        /\ reg[c].rate \in Rates
    BY <2>1, <2>2, CpuFacts DEF Registers, Prepared
  <2>4. pc' = [pc EXCEPT ![c] = l] /\ reg' = [reg EXCEPT ![c] = r]
    BY <1>9 DEF LookupState
  <2>5. /\ l \in Locations /\ l # "idle" /\ l # "take"
        /\ l \in {"elapsed", "refill", "add", "cap", "stamp", "spend", "take"} => cur # 0
    BY DEF Locations
  <2>6. cur # 0 => cur \in 1 .. Len(heap)
    BY <1>1, <2>2
  <2> HIDE DEF r, l
  <2> QED
    BY <1>1, <2>1, <2>3, <2>4, <2>5, <2>6, CpuStep
<1>10. ASSUME NEW c \in Cpus, Create(c) PROVE TypeInv'
  <2> DEFINE b == Fresh(reg[c].rate, reg[c].t)
  <2>1. b \in Buckets
    BY <1>10, CpuFacts, FreshType DEF Create, Prepared, Registers
  <2> HIDE DEF b
  <2>2. /\ heap' = Append(heap, b) /\ cur' = Len(heap') /\ pc[c] = "create"
        /\ pc' = [pc EXCEPT ![c] = "idle"] /\ reg' = [reg EXCEPT ![c] = ClearReg]
        /\ arrived' = arrived
    BY <1>10 DEF Create, b
  <2>3. heap' \in Seq(Buckets) /\ Len(heap') = Len(heap) + 1
    BY <1>1, <2>1, <2>2 DEF HeapOK
  <2>4. HeapOK' /\ HostOK'
    BY <1>1, <1>10, <2>2, <2>3, HostKept DEF HeapOK, Create
  <2> QED
    BY <1>1, <2>2, <2>3, <2>4, ClearRegType, CpuStep DEF Locations
<1>11. ASSUME NEW c \in Cpus, Elapsed(c) PROVE TypeInv'
  <2> DEFINE new == NewTokens(reg[c].rate, reg[c].t, heap[reg[c].el].last)
             r == [reg[c] EXCEPT !.new = new]
             l == IF new > 0 THEN "refill" ELSE "spend"
  <2>1. /\ pc[c] = "elapsed" /\ HostOK' /\ HeapOK' /\ heap' = heap /\ arrived' = arrived
    BY <1>1, <1>11, HostKept DEF Elapsed, HeapOK
  <2>2. Pointing(c) /\ reg[c].el \in 1 .. Len(heap) /\ reg[c].rate \in Rates
    BY <2>1, CpuFacts DEF Pointing, Prepared
  <2>3. new \in 0 .. W - 1
    BY <2>2, CpuFacts, NewTokensType
  <2>4. pc' = [pc EXCEPT ![c] = l] /\ reg' = [reg EXCEPT ![c] = r]
    BY <1>11 DEF Elapsed
  <2> HIDE DEF new
  <2>5. r \in Registers /\ r.el = reg[c].el /\ r.rate = reg[c].rate
    BY <2>3, CpuFacts DEF Registers
  <2>6. l \in Locations /\ l # "idle" /\ l # "take"
    BY DEF Locations
  <2> HIDE DEF r, l
  <2> QED
    BY <1>1, <2>1, <2>2, <2>4, <2>5, <2>6, CpuStep
<1>12. ASSUME NEW c \in Cpus, Refill(c) PROVE TypeInv'
  <2> DEFINE r == [reg[c] EXCEPT !.tokens = heap[reg[c].el].tokens]
  <2>1. /\ pc[c] = "refill" /\ HostOK' /\ HeapOK' /\ heap' = heap /\ arrived' = arrived
    BY <1>1, <1>12, HostKept DEF Refill, HeapOK
  <2>2. Pointing(c) /\ reg[c].el \in 1 .. Len(heap) /\ reg[c].rate \in Rates
    BY <2>1, CpuFacts DEF Pointing, Prepared
  <2>3. pc' = [pc EXCEPT ![c] = "add"] /\ reg' = [reg EXCEPT ![c] = r]
    BY <1>12 DEF Refill
  <2>4. r \in Registers /\ r.el = reg[c].el /\ r.rate = reg[c].rate
    BY <2>2, CpuFacts DEF Registers
  <2> HIDE DEF r
  <2> QED
    BY <1>1, <2>1, <2>2, <2>3, <2>4, CpuStep DEF Locations
<1>13. ASSUME NEW c \in Cpus, Add(c) PROVE TypeInv'
  <2> DEFINE sum == (reg[c].tokens + reg[c].new) % W
             r == [reg[c] EXCEPT !.tokens = sum]
             b == [heap[reg[c].el] EXCEPT !.tokens = sum]
  <2>1. /\ pc[c] = "add" /\ HostOK' /\ cur' = cur /\ arrived' = arrived
    BY <1>1, <1>13, HostKept DEF Add
  <2>2. Pointing(c) /\ reg[c].el \in 1 .. Len(heap) /\ reg[c].rate \in Rates
    BY <2>1, CpuFacts DEF Pointing, Prepared
  <2>3. sum \in 0 .. W - 1
    <3>1. reg[c].tokens \in Nat /\ reg[c].new \in Nat
      BY CpuFacts, WidthAssumption
    <3> QED
      BY <2>2, <3>1, ToppedType
  <2>4. /\ pc' = [pc EXCEPT ![c] = "cap"] /\ reg' = [reg EXCEPT ![c] = r]
        /\ heap' = [heap EXCEPT ![reg[c].el] = b]
    BY <1>13 DEF Add
  <2> HIDE DEF sum
  <2>5. r \in Registers /\ r.el = reg[c].el /\ r.rate = reg[c].rate
    BY <2>3, CpuFacts DEF Registers
  <2>6. b \in Buckets
    BY <2>2, <2>3, CpuFacts DEF Buckets
  <2> HIDE DEF r, b
  <2>7. HeapOK' /\ Len(heap') = Len(heap)
    BY <1>1, <2>1, <2>2, <2>4, <2>6, HeapWrite
  <2> QED
    BY <1>1, <2>1, <2>2, <2>4, <2>5, <2>7, CpuStep DEF Locations
<1>18. ASSUME NEW c \in Cpus, Cap(c) PROVE TypeInv'
  <2>1. /\ pc[c] = "cap" /\ HostOK' /\ cur' = cur /\ arrived' = arrived
        /\ pc' = [pc EXCEPT ![c] = "stamp"]
    BY <1>1, <1>18, HostKept DEF Cap
  <2>2. Pointing(c) /\ reg[c].el \in 1 .. Len(heap) /\ reg[c].rate \in Rates
    BY <2>1, CpuFacts DEF Pointing, Prepared
  <2>3. PICK v \in 0 .. W - 1 :
           /\ reg' = [reg EXCEPT ![c] = [reg[c] EXCEPT !.tokens = v, !.refilled = TRUE]]
           /\ \/ heap' = heap
              \/ heap' = [heap EXCEPT ![reg[c].el] = [heap[reg[c].el] EXCEPT !.tokens = v]]
    <3>1. PICK v \in Seen(c) :
             IF v > Burst(reg[c].rate)
             THEN /\ heap' = [heap EXCEPT ![reg[c].el].tokens = Burst(reg[c].rate)]
                  /\ reg' = [reg EXCEPT ![c].tokens = Burst(reg[c].rate), ![c].refilled = TRUE]
             ELSE /\ reg' = [reg EXCEPT ![c].tokens = v, ![c].refilled = TRUE]
                  /\ UNCHANGED heap
      BY <1>18 DEF Cap
    <3>2. v \in 0 .. W - 1
      BY <2>2, CpuFacts DEF Seen
    <3>3. Burst(reg[c].rate) \in 0 .. W - 1
      <4>1. \A q \in Rates : Burst(q) \in Nat /\ Burst(q) <= 2 * MaxRate
        BY BurstFits
      <4>2. Burst(reg[c].rate) \in Nat /\ Burst(reg[c].rate) <= 2 * MaxRate
        BY <2>2, <4>1
      <4> QED
        BY <4>2, BucketAssumption, WidthAssumption
    <3>4. CASE v > Burst(reg[c].rate)
      <4> DEFINE w == Burst(reg[c].rate)
      <4>1. w \in 0 .. W - 1
        BY <3>3
      <4>2. /\ reg' = [reg EXCEPT ![c] = [reg[c] EXCEPT !.tokens = w, !.refilled = TRUE]]
            /\ heap' = [heap EXCEPT ![reg[c].el] = [heap[reg[c].el] EXCEPT !.tokens = w]]
        BY <3>1, <3>4
      <4> HIDE DEF w
      <4> QED
        BY <4>1, <4>2
    <3>5. CASE ~(v > Burst(reg[c].rate))
      BY <3>1, <3>2, <3>5
    <3> QED
      BY <3>4, <3>5
  <2> DEFINE r == [reg[c] EXCEPT !.tokens = v, !.refilled = TRUE]
             b == [heap[reg[c].el] EXCEPT !.tokens = v]
  <2>5. r \in Registers /\ r.el = reg[c].el /\ r.rate = reg[c].rate
    BY <2>3, CpuFacts DEF Registers
  <2>6. b \in Buckets
    BY <2>2, <2>3, CpuFacts DEF Buckets
  <2>4. reg' = [reg EXCEPT ![c] = r] /\ (heap' = heap \/ heap' = [heap EXCEPT ![reg[c].el] = b])
    BY <2>3
  <2> HIDE DEF r, b
  <2>7. HeapOK' /\ Len(heap') = Len(heap)
    <3>1. CASE heap' = heap
      BY <1>1, <2>1, <3>1 DEF HeapOK
    <3>2. CASE heap' = [heap EXCEPT ![reg[c].el] = b]
      BY <1>1, <2>1, <2>2, <2>6, <3>2, HeapWrite
    <3> QED
      BY <2>4, <3>1, <3>2
  <2> QED
    BY <1>1, <2>1, <2>2, <2>4, <2>5, <2>7, CpuStep DEF Locations
<1>14. ASSUME NEW c \in Cpus, Stamp(c) PROVE TypeInv'
  <2> DEFINE b == [heap[reg[c].el] EXCEPT !.last = reg[c].t]
  <2>1. /\ pc[c] = "stamp" /\ HostOK' /\ cur' = cur /\ arrived' = arrived
    BY <1>1, <1>14, HostKept DEF Stamp
  <2>2. Pointing(c) /\ reg[c].el \in 1 .. Len(heap) /\ reg[c].rate \in Rates
    BY <2>1, CpuFacts DEF Pointing, Prepared
  <2>3. reg[c] \in Registers /\ reg' = [reg EXCEPT ![c] = reg[c]]
    BY <1>1, <1>14, CpuFacts DEF Stamp, CpusOK
  <2>4. /\ pc' = [pc EXCEPT ![c] = "spend"] /\ heap' = [heap EXCEPT ![reg[c].el] = b]
    BY <1>14 DEF Stamp
  <2>5. b \in Buckets
    BY <2>2, CpuFacts DEF Buckets, Registers
  <2> HIDE DEF b
  <2>6. HeapOK' /\ Len(heap') = Len(heap)
    BY <1>1, <2>1, <2>2, <2>4, <2>5, HeapWrite
  <2> QED
    BY <1>1, <2>1, <2>2, <2>3, <2>4, <2>6, CpuStep DEF Locations
<1>15. ASSUME NEW c \in Cpus, Spend(c) PROVE TypeInv'
  <2>1. /\ pc[c] = "spend" /\ cur' = cur /\ heap' = heap /\ arrived' = arrived
        /\ HostOK' /\ HeapOK'
    BY <1>1, <1>15, HostKept DEF Spend, HeapOK
  <2>2. Pointing(c) /\ reg[c].el \in 1 .. Len(heap) /\ reg[c].rate \in Rates
    BY <2>1, CpuFacts DEF Pointing, Prepared
  <2>3. PICK v : /\ v = heap[reg[c].el].tokens \/ v = reg[c].tokens
                 /\ IF v > 0
                    THEN /\ reg' = [reg EXCEPT ![c].tokens = v]
                         /\ pc' = [pc EXCEPT ![c] = "take"]
                    ELSE /\ reg' = [reg EXCEPT ![c] = ClearReg]
                         /\ pc' = [pc EXCEPT ![c] = "idle"]
    BY <1>15 DEF Spend, Seen
  <2>4. v \in 0 .. W - 1
    BY <2>2, <2>3, CpuFacts
  <2>5. CASE v > 0
    <3> DEFINE r == [reg[c] EXCEPT !.tokens = v]
    <3>1. /\ r \in Registers /\ r.el = reg[c].el /\ r.rate = reg[c].rate /\ r.tokens = v
      BY <2>4, CpuFacts DEF Registers
    <3>2. reg' = [reg EXCEPT ![c] = r] /\ pc' = [pc EXCEPT ![c] = "take"]
      BY <2>3, <2>5
    <3> HIDE DEF r
    <3> QED
      BY <1>1, <2>1, <2>2, <2>5, <3>1, <3>2, CpuStep DEF Locations
  <2>6. CASE ~(v > 0)
    <3>1. reg' = [reg EXCEPT ![c] = ClearReg] /\ pc' = [pc EXCEPT ![c] = "idle"]
      BY <2>3, <2>6
    <3> QED
      BY <1>1, <2>1, <3>1, ClearRegType, CpuStep DEF Locations
  <2> QED
    BY <2>5, <2>6
<1>16. ASSUME NEW c \in Cpus, Take(c) PROVE TypeInv'
  <2>1. /\ pc[c] = "take" /\ HostOK' /\ cur' = cur /\ arrived' = arrived
    BY <1>1, <1>16, HostKept DEF Take
  <2>2. Pointing(c) /\ reg[c].el \in 1 .. Len(heap)
    BY <2>1, CpuFacts DEF Pointing, Prepared
  <2>3. PICK v \in Seen(c) : heap' = [heap EXCEPT ![reg[c].el].tokens = (v - 1) % W]
    BY <1>16 DEF Take
  <2> DEFINE b == [heap[reg[c].el] EXCEPT !.tokens = (v - 1) % W]
  <2>4. /\ pc' = [pc EXCEPT ![c] = "idle"] /\ heap' = [heap EXCEPT ![reg[c].el] = b]
        /\ reg' = [reg EXCEPT ![c] = ClearReg]
    BY <1>16, <2>3 DEF Take
  <2>5. b \in Buckets
    <3>1. v - 1 \in Int
      BY <2>2, CpuFacts, WidthAssumption DEF Seen
    <3>2. (v - 1) % W \in 0 .. W - 1
      BY <3>1, RemainderBounds, WidthAssumption
    <3> QED
      BY <2>2, <3>2, CpuFacts DEF Buckets
  <2> HIDE DEF b
  <2>6. HeapOK' /\ Len(heap') = Len(heap)
    BY <1>1, <2>1, <2>2, <2>4, <2>5, HeapWrite
  <2> QED
    BY <1>1, <2>1, <2>4, <2>6, ClearRegType, CpuStep DEF Locations
<1>17. CASE UNCHANGED vars
  BY <1>1, <1>2, <1>17 DEF vars, HostOK, HeapOK
<1> QED
  BY <1>3, <1>4, <1>5, <1>6, <1>7, <1>8, <1>9, <1>10, <1>11, <1>12, <1>13, <1>14,
     <1>15, <1>16, <1>17, <1>18 DEF Next

-----------------------------------------------------------------------------
\* It holds at the start.
LEMMA TypeInvInitial == Init => TypeInv
<1> SUFFICES ASSUME Init PROVE TypeInv
  OBVIOUS
<1>1. HostOK
  <2>1. 0 \in 0 .. MaxTime /\ 0 \in 0 .. MaxPackets /\ 0 \in 0 .. MaxRemovals
    BY BucketAssumption
  <2> QED
    BY <2>1 DEF Init, HostOK
<1>2. HeapOK
  BY DEF Init, HeapOK
<1>3. CpusOK
  BY ClearRegType DEF Init, CpusOK, Locations
<1>4. \A c \in Cpus : Prepared(c)
  BY DEF Init, Prepared, Pointing
<1>5. InFlight = {}
  BY DEF Init, InFlight
<1>6. Accounted
  BY <1>5, FS_EmptySet DEF Accounted, Init
<1> QED
  BY <1>1, <1>2, <1>3, <1>4, <1>6 DEF TypeInv

\* No entry disappears, and packets meet at entries there are.
LEMMA HistoryStep ==
    ASSUME TypeInv, HistoryOK, [Next]_vars
    PROVE  HistoryOK' /\ Len(heap) <= Len(heap')
<1>1. heap \in Seq(Buckets) /\ Len(heap) \in Nat
  BY DEF TypeInv, HeapOK
<1>3. CASE UNCHANGED <<heap, shared, torn>>
  BY <1>1, <1>3 DEF HistoryOK
<1>4. ASSUME NEW c \in Cpus, Create(c) PROVE HistoryOK' /\ Len(heap) <= Len(heap')
  <2>1. Len(heap') = Len(heap) + 1 /\ shared' \subseteq shared /\ torn' = torn
    BY <1>1, <1>4 DEF Create, Return
  <2> QED
    BY <1>1, <2>1 DEF HistoryOK
<1>5. ASSUME NEW c \in Cpus, LookupState(c) PROVE HistoryOK' /\ Len(heap) <= Len(heap')
  <2>1. At(cur) # {} => cur \in 1 .. Len(heap)
    BY DEF At, TypeInv, Prepared
  <2>2. At(cur) \subseteq Cpus
    BY DEF At
  <2> QED
    BY <1>1, <1>5, <2>1, <2>2 DEF LookupState, history, HistoryOK
<1>6. ASSUME NEW c \in Cpus,
             \/ LookupConfig(c) \/ Add(c) \/ Cap(c) \/ Stamp(c) \/ Spend(c) \/ Take(c)
      PROVE  HistoryOK' /\ Len(heap) <= Len(heap')
  <2>1. shared' \subseteq shared /\ torn' \subseteq torn
    BY <1>6 DEF LookupConfig, Add, Cap, Stamp, Spend, Take, Return, history
  <2>2. \/ heap' = heap
        \/ \E n : heap' = [heap EXCEPT ![reg[c].el].tokens = n]
        \/ \E n : heap' = [heap EXCEPT ![reg[c].el].last = n]
    BY <1>6 DEF LookupConfig, Add, Cap, Stamp, Spend, Take
  <2>3. Len(heap') = Len(heap)
    <3>1. CASE heap' = heap
      BY <1>1, <3>1
    <3>2. ASSUME NEW n, heap' = [heap EXCEPT ![reg[c].el].tokens = n] PROVE Len(heap') = Len(heap)
      BY <1>1, <3>2
    <3>3. ASSUME NEW n, heap' = [heap EXCEPT ![reg[c].el].last = n] PROVE Len(heap') = Len(heap)
      BY <1>1, <3>3
    <3> QED
      BY <2>2, <3>1, <3>2, <3>3
  <2> QED
    BY <1>1, <2>1, <2>3 DEF HistoryOK
<1>7. CASE \/ Tick \/ (\E r \in Rates : SetRate(r)) \/ RemoveConfig \/ RemoveBucket
          \/ UNCHANGED vars
  BY <1>3, <1>7 DEF Tick, SetRate, RemoveConfig, RemoveBucket, vars, history
<1>8. ASSUME NEW c \in Cpus, Arrive(c) \/ Elapsed(c) \/ Refill(c)
      PROVE  HistoryOK' /\ Len(heap) <= Len(heap')
  BY <1>3, <1>8 DEF Arrive, Elapsed, Refill, history
<1> QED
  BY <1>4, <1>5, <1>6, <1>7, <1>8 DEF Next

\* Type correctness of the limiter as several CPUs execute it; no CPU uses a
\* pointer before it has one (policy.c:127-163).
THEOREM BucketTypeCorrect == Spec => []TypeOK
<1>1. Init => TypeInv /\ HistoryOK
  BY TypeInvInitial DEF Init, HistoryOK
<1>2. TypeInv /\ HistoryOK /\ [Next]_vars => TypeInv' /\ HistoryOK'
  BY TypeInvInductive, HistoryStep
<1> QED
  BY <1>1, <1>2, TypeInvImplies, PTL DEF Spec

-----------------------------------------------------------------------------
(***************************************************************************)
(* A CPU that has its entry to itself finds there what it wrote; where     *)
(* packets have met, torn says so until such a CPU has capped the tokens.  *)
(***************************************************************************)
\* CPU c has met no other one at its entry.
Lone(c) == Pointing(c) /\ c \notin shared

Faithful(c) ==
    /\ reg[c].refilled => pc[c] \in {"stamp", "spend", "take"}
    /\ Lone(c) =>
         /\ \A d \in Cpus : Pointing(d) /\ reg[d].el = reg[c].el => d = c
         /\ pc[c] \in {"add", "cap", "take"} \/ reg[c].refilled
              => reg[c].tokens = heap[reg[c].el].tokens
         /\ pc[c] = "take" => reg[c].tokens > 0

Met(c) == c \in shared => Pointing(c) /\ reg[c].el \in torn

\* Entry i is within the burst, or about to be capped.
Within(i) ==
    \/ heap[i].tokens <= 2 * MaxRate
    \/ \E c \in At(i) : pc[c] = "cap"

\* The inductive invariant behind LoneRefillRepairs.
MeetInv ==
    /\ \A c \in Cpus : Faithful(c) /\ Met(c)
    /\ \A i \in 1 .. Len(heap) : i \notin torn => Within(i)

\* It is more than LoneRefillRepairs.
LEMMA MeetInvImplies == TypeInv /\ MeetInv => LoneRefillRepairs
BY DEF TypeInv, HeapOK, MeetInv, Within, LoneRefillRepairs

\* What CPU c writes is its own location and registers.
LEMMA OwnWrites ==
    ASSUME TypeInv, NEW c \in Cpus, NEW l, NEW r,
           pc' = [pc EXCEPT ![c] = l], reg' = [reg EXCEPT ![c] = r]
    PROVE  /\ pc'[c] = l /\ reg'[c] = r
           /\ \A d \in Cpus \ {c} : pc'[d] = pc[d] /\ reg'[d] = reg[d]
BY DEF TypeInv, CpusOK

\* An access of CPU c to its entry i, after which the CPU has the registers r.
LEMMA AccessStep ==
    ASSUME TypeInv, MeetInv, NEW c \in Cpus, Pointing(c), NEW i, i = reg[c].el,
           NEW l, NEW r, pc' = [pc EXCEPT ![c] = l], reg' = [reg EXCEPT ![c] = r],
           Len(heap') = Len(heap), \A j \in 1 .. Len(heap) : j # i => heap'[j] = heap[j],
           shared' \subseteq shared, shared \subseteq shared' \cup {c},
           torn' = torn \/ (c \notin shared /\ torn' = torn \ {i}),
           \/ l = "idle" /\ r = ClearReg /\ shared' = shared \ {c}
           \/ /\ l \in {"elapsed", "refill", "add", "cap", "stamp", "spend", "take"}
              /\ r.el = i /\ shared' = shared
              /\ r.refilled => l \in {"stamp", "spend", "take"}
              /\ c \notin shared =>
                   /\ l \in {"add", "cap", "take"} \/ r.refilled => r.tokens = heap'[i].tokens
                   /\ l = "take" => r.tokens > 0,
           c \notin shared => \/ heap'[i].tokens <= 2 * MaxRate
                              \/ l = "cap"
                              \/ i \in torn'
    PROVE  MeetInv'
<1>1. /\ pc'[c] = l /\ reg'[c] = r
      /\ \A d \in Cpus \ {c} : pc'[d] = pc[d] /\ reg'[d] = reg[d]
  BY OwnWrites
<1>2. \A d \in Cpus : /\ Faithful(d) /\ Met(d)
                      /\ Pointing(d) => reg[d].el \in 1 .. Len(heap)
  BY DEF MeetInv, TypeInv, Prepared
<1>3. \A d \in Cpus \ {c} : Pointing(d)' <=> Pointing(d)
  BY <1>1 DEF Pointing
<1>4. \A d \in Cpus \ {c} : Lone(d) => reg[d].el # i
  BY <1>2 DEF Faithful
<1>5. c \notin shared => \A d \in Cpus \ {c} : Pointing(d) => reg[d].el # i
  BY <1>2 DEF Faithful, Lone
<1>6. ASSUME NEW d \in Cpus \ {c} PROVE Faithful(d)' /\ Met(d)'
  <2>1. Lone(d)' => Lone(d)
    BY <1>3 DEF Lone
  <2>2. ASSUME Lone(d)
        PROVE  \A e \in Cpus : Pointing(e)' /\ reg'[e].el = reg'[d].el => e = d
    <3>1. reg[d].el # i
      BY <1>4, <2>2
    <3>2. ASSUME NEW e \in Cpus, Pointing(e)', reg'[e].el = reg'[d].el PROVE e = d
      <4>1. CASE e = c
        <5>1. r.el = i
          BY <1>1, <3>2, <4>1 DEF Pointing
        <5> QED
          BY <1>1, <3>1, <3>2, <4>1, <5>1
      <4>2. CASE e # c
        BY <1>1, <1>2, <1>3, <2>2, <3>2, <4>2 DEF Faithful
      <4> QED
        BY <4>1, <4>2
    <3> QED
      BY <3>2
  <2>3. ASSUME Lone(d) PROVE heap'[reg'[d].el] = heap[reg[d].el]
    BY <1>1, <1>2, <1>4, <2>3 DEF Lone
  <2>4. Faithful(d)'
    BY <1>1, <1>2, <2>1, <2>2, <2>3 DEF Faithful
  <2>5. d \in shared => reg[d].el \in torn'
    BY <1>2, <1>5 DEF Met
  <2>6. Met(d)'
    BY <1>1, <1>2, <1>3, <2>5 DEF Met
  <2> QED
    BY <2>4, <2>6
<1>7. Faithful(c)'
  <2>1. CASE l = "idle"
    BY <1>1, <2>1 DEF Faithful, Lone, Pointing, ClearReg
  <2>2. CASE l # "idle"
    <3>1. /\ l \in {"elapsed", "refill", "add", "cap", "stamp", "spend", "take"}
          /\ r.el = i /\ shared' = shared
          /\ r.refilled => l \in {"stamp", "spend", "take"}
          /\ c \notin shared =>
               /\ l \in {"add", "cap", "take"} \/ r.refilled => r.tokens = heap'[i].tokens
               /\ l = "take" => r.tokens > 0
      BY <2>2
    <3>2. ASSUME c \notin shared
          PROVE  \A d \in Cpus : Pointing(d)' /\ reg'[d].el = i => d = c
      BY <1>1, <1>3, <1>5, <3>2
    <3> QED
      BY <1>1, <3>1, <3>2 DEF Faithful, Lone
  <2> QED
    BY <2>1, <2>2
<1>8. Met(c)'
  <2>1. CASE l = "idle"
    BY <2>1 DEF Met
  <2>2. CASE l # "idle"
    <3>1. Pointing(c)' /\ reg'[c].el = i
      BY <1>1, <2>2 DEF Pointing
    <3>2. c \in shared => i \in torn /\ torn' = torn
      BY <1>2 DEF Met
    <3> QED
      BY <3>1, <3>2 DEF Met
  <2> QED
    BY <2>1, <2>2
<1>9. ASSUME NEW j \in 1 .. Len(heap'), j \notin torn' PROVE Within(j)'
  <2>1. j \in 1 .. Len(heap)
    BY <1>9
  <2>2. CASE j # i
    <3>1. Within(j) /\ heap'[j] = heap[j]
      BY <1>9, <2>1, <2>2 DEF MeetInv
    <3>2. ASSUME NEW d \in At(j), pc[d] = "cap" PROVE d \in At(j)' /\ pc'[d] = "cap"
      BY <1>1, <1>3, <2>2, <3>2 DEF At
    <3> QED
      BY <3>1, <3>2 DEF Within
  <2>3. CASE j = i
    <3>1. c \notin shared
      BY <1>2, <1>9, <2>3 DEF Met
    <3>2. l = "cap" => c \in At(i)' /\ pc'[c] = "cap"
      BY <1>1 DEF At, Pointing
    <3> QED
      BY <1>9, <2>3, <3>1, <3>2 DEF Within
  <2> QED
    BY <2>2, <2>3
<1>10. \A d \in Cpus : Faithful(d)' /\ Met(d)'
  BY <1>6, <1>7, <1>8
<1> QED
  BY <1>9, <1>10 DEF MeetInv

\* A step of CPU c before it looks for its entry.
LEMMA OutsideStep ==
    ASSUME TypeInv, MeetInv, NEW c \in Cpus, pc[c] \in {"idle", "config"},
           NEW l \in {"idle", "config", "state"}, NEW r,
           pc' = [pc EXCEPT ![c] = l], reg' = [reg EXCEPT ![c] = r], ~r.refilled,
           heap' = heap, torn' = torn, shared' \subseteq shared, shared \subseteq shared' \cup {c}
    PROVE  MeetInv'
<1>1. /\ pc'[c] = l /\ reg'[c] = r
      /\ \A d \in Cpus \ {c} : pc'[d] = pc[d] /\ reg'[d] = reg[d]
  BY OwnWrites
<1>2. ~Pointing(c) /\ ~Pointing(c)' /\ c \notin shared
  BY <1>1 DEF Pointing, MeetInv, Met
<1>3. \A d \in Cpus \ {c} : Pointing(d)' <=> Pointing(d)
  BY <1>1 DEF Pointing
<1>4. \A d \in Cpus : Faithful(d)' /\ Met(d)'
  <2>1. ASSUME NEW d \in Cpus, d # c PROVE Faithful(d)' /\ Met(d)'
    <3>1. Faithful(d) /\ Met(d)
      BY DEF MeetInv
    <3>2. Lone(d)' => Lone(d)
      BY <1>3, <2>1 DEF Lone
    <3>3. Faithful(d)'
      BY <1>1, <1>2, <1>3, <2>1, <3>1, <3>2 DEF Faithful
    <3>4. Met(d)'
      BY <1>1, <1>3, <2>1, <3>1 DEF Met
    <3> QED
      BY <3>3, <3>4
  <2>2. Faithful(c)' /\ Met(c)'
    BY <1>1, <1>2 DEF Faithful, Met, Lone
  <2> QED
    BY <2>1, <2>2
<1>5. ASSUME NEW j \in 1 .. Len(heap'), j \notin torn' PROVE Within(j)'
  <2>1. Within(j)
    BY <1>5 DEF MeetInv
  <2>2. ASSUME NEW d \in At(j), pc[d] = "cap" PROVE d \in At(j)' /\ pc'[d] = "cap"
    BY <1>1, <1>2, <1>3, <2>2 DEF At
  <2> QED
    BY <2>1, <2>2 DEF Within
<1> QED
  BY <1>4, <1>5 DEF MeetInv

\* A CPU finds its entry, where it may meet others.
LEMMA LookupStep ==
    ASSUME TypeInv, MeetInv, NEW c \in Cpus, LookupState(c)
    PROVE  MeetInv'
<1> DEFINE l == IF cur = 0 THEN "create" ELSE "elapsed"
           r == [reg[c] EXCEPT !.el = cur]
<1>1. /\ pc[c] = "state" /\ pc' = [pc EXCEPT ![c] = l] /\ reg' = [reg EXCEPT ![c] = r]
      /\ heap' = heap
      /\ IF At(cur) = {} THEN shared' = shared /\ torn' = torn
         ELSE shared' = (shared \cup At(cur)) \cup {c} /\ torn' = torn \cup {cur}
  BY DEF LookupState, Goto, history
<1>2. /\ r.el = cur /\ r.refilled = reg[c].refilled
      /\ l \in {"create", "elapsed"} /\ (l = "elapsed" <=> cur # 0)
  BY CpuFacts DEF Registers
<1> HIDE DEF l, r
<1>3. /\ pc'[c] = l /\ reg'[c] = r
      /\ \A d \in Cpus \ {c} : pc'[d] = pc[d] /\ reg'[d] = reg[d]
  BY <1>1, OwnWrites
<1>4. /\ ~Pointing(c) /\ c \notin shared /\ ~r.refilled
      /\ Pointing(c)' <=> cur # 0
      /\ \A d \in Cpus : Faithful(d) /\ Met(d)
  BY <1>1, <1>2, <1>3 DEF Pointing, MeetInv, Met, Faithful
<1>5. \A d \in Cpus \ {c} : Pointing(d)' <=> Pointing(d)
  BY <1>3 DEF Pointing
<1>6. At(cur) # {} => cur # 0
  BY DEF At, TypeInv, Prepared
<1>7. shared \subseteq shared' /\ torn \subseteq torn'
  BY <1>1
<1>8. ASSUME NEW d \in Cpus \ {c} PROVE Faithful(d)' /\ Met(d)'
  <2>1. Lone(d)' => Lone(d) /\ reg[d].el # cur
    BY <1>1, <1>5, <1>7 DEF Lone, At
  <2>2. Lone(d)' => \A e \in Cpus : Pointing(e)' /\ reg'[e].el = reg'[d].el => e = d
    BY <1>2, <1>3, <1>4, <1>5, <2>1 DEF Faithful
  <2>3. Faithful(d)'
    BY <1>1, <1>3, <1>4, <2>1, <2>2 DEF Faithful
  <2>4. d \in shared' => Pointing(d) /\ reg[d].el \in torn'
    BY <1>1, <1>4 DEF Met, At
  <2> QED
    BY <1>3, <1>5, <2>3, <2>4 DEF Met
<1>9. Faithful(c)'
  <2>1. Lone(c)' => \A d \in Cpus : Pointing(d)' /\ reg'[d].el = cur => d = c
    BY <1>1, <1>3, <1>5 DEF Lone, At
  <2> QED
    BY <1>2, <1>3, <1>4, <2>1 DEF Faithful
<1>10. Met(c)'
  BY <1>1, <1>2, <1>3, <1>4, <1>6 DEF Met
<1>11. ASSUME NEW j \in 1 .. Len(heap'), j \notin torn' PROVE Within(j)'
  <2>1. Within(j)
    BY <1>1, <1>7, <1>11 DEF MeetInv
  <2>2. ASSUME NEW d \in At(j), pc[d] = "cap" PROVE d \in At(j)' /\ pc'[d] = "cap"
    BY <1>3, <1>4, <1>5, <2>2 DEF At
  <2> QED
    BY <1>1, <2>1, <2>2 DEF Within
<1>12. \A d \in Cpus : Faithful(d)' /\ Met(d)'
  BY <1>8, <1>9, <1>10
<1> QED
  BY <1>11, <1>12 DEF MeetInv

\* A CPU makes an entry nobody has a pointer to.
LEMMA CreateStep ==
    ASSUME MinRate > 0, TypeInv, MeetInv, NEW c \in Cpus, Create(c)
    PROVE  MeetInv'
<1> DEFINE b == Fresh(reg[c].rate, reg[c].t)
<1>1. /\ pc[c] = "create" /\ pc' = [pc EXCEPT ![c] = "idle"]
      /\ reg' = [reg EXCEPT ![c] = ClearReg]
      /\ heap' = Append(heap, b) /\ torn' = torn /\ shared' = shared \ {c}
  BY DEF Create, Return
<1>2. /\ heap \in Seq(Buckets) /\ Len(heap) \in Nat
      /\ reg[c].rate \in Rates /\ reg[c].t \in 0 .. MaxTime
  BY <1>1, CpuFacts DEF TypeInv, HeapOK, Prepared, Registers
<1>3. b.tokens <= 2 * MaxRate
  BY <1>2, FreshType
<1> HIDE DEF b
<1>4. /\ pc'[c] = "idle" /\ reg'[c] = ClearReg
      /\ \A d \in Cpus \ {c} : pc'[d] = pc[d] /\ reg'[d] = reg[d]
  BY <1>1, OwnWrites
<1>5. ~Pointing(c) /\ ~Pointing(c)' /\ c \notin shared /\ ~ClearReg.refilled
  BY <1>1, <1>4 DEF Pointing, MeetInv, Met, ClearReg
<1>6. \A d \in Cpus \ {c} : Pointing(d)' <=> Pointing(d)
  BY <1>4 DEF Pointing
<1>7. /\ Len(heap') = Len(heap) + 1 /\ heap'[Len(heap) + 1] = b
      /\ \A j \in 1 .. Len(heap) : heap'[j] = heap[j]
  BY <1>1, <1>2
<1>8. ASSUME NEW d \in Cpus, d # c PROVE Faithful(d)' /\ Met(d)'
  <2>1. Faithful(d) /\ Met(d) /\ (Pointing(d) => reg[d].el \in 1 .. Len(heap))
    BY DEF MeetInv, TypeInv, Prepared
  <2>2. Lone(d)' => Lone(d) /\ heap'[reg[d].el] = heap[reg[d].el]
    BY <1>1, <1>6, <1>7, <1>8, <2>1 DEF Lone
  <2>3. Faithful(d)'
    BY <1>4, <1>5, <1>6, <1>8, <2>1, <2>2 DEF Faithful
  <2> QED
    BY <1>1, <1>4, <1>6, <1>8, <2>1, <2>3 DEF Met
<1>9. Faithful(c)' /\ Met(c)'
  BY <1>1, <1>4, <1>5 DEF Faithful, Met, Lone
<1>10. ASSUME NEW j \in 1 .. Len(heap'), j \notin torn' PROVE Within(j)'
  <2>1. CASE j = Len(heap) + 1
    BY <1>3, <1>7, <2>1 DEF Within
  <2>2. CASE j # Len(heap) + 1
    <3>1. j \in 1 .. Len(heap)
      BY <1>2, <1>7, <1>10, <2>2
    <3>2. Within(j) /\ heap'[j] = heap[j]
      BY <1>1, <1>7, <1>10, <3>1 DEF MeetInv
    <3>3. ASSUME NEW d \in At(j), pc[d] = "cap" PROVE d \in At(j)' /\ pc'[d] = "cap"
      BY <1>4, <1>5, <1>6, <3>3 DEF At
    <3> QED
      BY <3>2, <3>3 DEF Within
  <2> QED
    BY <2>1, <2>2
<1>11. \A d \in Cpus : Faithful(d)' /\ Met(d)'
  BY <1>8, <1>9
<1> QED
  BY <1>10, <1>11 DEF MeetInv

\* The accesses of a CPU to its entry.
LEMMA EntrySteps ==
    ASSUME TypeInv, TypeInv', MeetInv, NEW c \in Cpus,
           Elapsed(c) \/ Refill(c) \/ Add(c) \/ Cap(c) \/ Stamp(c) \/ Spend(c) \/ Take(c)
    PROVE  MeetInv'
<1> DEFINE i == reg[c].el
<1>1. /\ Pointing(c) /\ i \in 1 .. Len(heap) /\ reg[c] \in Registers
      /\ heap \in Seq(Buckets) /\ heap[i] \in Buckets /\ reg[c].rate \in Rates
      /\ reg[c].tokens \in Nat /\ heap[i].tokens \in Nat /\ W \in Nat \ {0}
  BY CpuFacts, WidthAssumption
     DEF Elapsed, Refill, Add, Cap, Stamp, Spend, Take, Pointing, Prepared, TypeInv, HeapOK
<1>2. /\ Faithful(c) /\ (c \notin shared /\ i \notin torn => Within(i))
      /\ \A d \in At(i) : c \notin shared => d = c
  BY <1>1 DEF MeetInv, Faithful, Lone, At
<1>3. c \notin shared /\ pc[c] # "cap" => heap[i].tokens <= 2 * MaxRate \/ i \in torn
  BY <1>2 DEF Within
<1>4. c \notin shared /\ (pc[c] \in {"add", "cap", "take"} \/ reg[c].refilled)
        => reg[c].tokens = heap[i].tokens
  BY <1>1, <1>2 DEF Faithful, Lone
<1>5. Burst(reg[c].rate) \in Nat /\ Burst(reg[c].rate) <= 2 * MaxRate
  <2>1. \A q \in Rates : Burst(q) \in Nat /\ Burst(q) <= 2 * MaxRate
    BY BurstFits
  <2> QED
    BY <1>1, <2>1
<1>6. ASSUME NEW b, heap' = [heap EXCEPT ![i] = b]
      PROVE  /\ Len(heap') = Len(heap) /\ heap'[i] = b
             /\ \A j \in 1 .. Len(heap) : j # i => heap'[j] = heap[j]
  BY <1>1, <1>6
<1> HIDE DEF i
<1>7. CASE Elapsed(c)
  <2> DEFINE new == NewTokens(reg[c].rate, reg[c].t, heap[i].last)
             r == [reg[c] EXCEPT !.new = new]
             l == IF new > 0 THEN "refill" ELSE "spend"
  <2>1. /\ pc[c] = "elapsed" /\ pc' = [pc EXCEPT ![c] = l] /\ reg' = [reg EXCEPT ![c] = r]
        /\ heap' = heap /\ shared' = shared /\ torn' = torn
    BY <1>7 DEF Elapsed, Goto, history, i
  <2>2. r.el = i /\ r.refilled = reg[c].refilled
    BY <1>1 DEF Registers, i
  <2>3. l \in {"refill", "spend"}
    OBVIOUS
  <2>4. ~reg[c].refilled
    BY <1>2, <2>1 DEF Faithful
  <2> HIDE DEF l, r, new
  <2> QED
    BY <1>1, <1>3, <2>1, <2>2, <2>3, <2>4, AccessStep DEF i
<1>8. CASE Refill(c)
  <2> DEFINE r == [reg[c] EXCEPT !.tokens = heap[i].tokens]
  <2>1. /\ pc[c] = "refill" /\ pc' = [pc EXCEPT ![c] = "add"] /\ reg' = [reg EXCEPT ![c] = r]
        /\ heap' = heap /\ shared' = shared /\ torn' = torn
    BY <1>8 DEF Refill, Goto, history, i
  <2>2. r.el = i /\ r.refilled = reg[c].refilled /\ r.tokens = heap[i].tokens
    BY <1>1 DEF Registers, i
  <2>3. ~reg[c].refilled
    BY <1>2, <2>1 DEF Faithful
  <2> HIDE DEF r
  <2> QED
    BY <1>1, <1>3, <2>1, <2>2, <2>3, AccessStep DEF i
<1>9. CASE Add(c)
  <2> DEFINE sum == (reg[c].tokens + reg[c].new) % W
             r == [reg[c] EXCEPT !.tokens = sum]
             b == [heap[i] EXCEPT !.tokens = sum]
  <2>1. /\ pc[c] = "add" /\ pc' = [pc EXCEPT ![c] = "cap"] /\ reg' = [reg EXCEPT ![c] = r]
        /\ heap' = [heap EXCEPT ![i] = b] /\ shared' = shared /\ torn' = torn
    BY <1>9 DEF Add, Goto, history, i
  <2> HIDE DEF sum
  <2>2. r.el = i /\ r.refilled = reg[c].refilled /\ r.tokens = sum /\ b.tokens = sum
    BY <1>1 DEF Registers, Buckets, i
  <2>3. ~reg[c].refilled
    BY <1>2, <2>1 DEF Faithful
  <2> HIDE DEF r, b
  <2>4. /\ Len(heap') = Len(heap) /\ heap'[i] = b
        /\ \A j \in 1 .. Len(heap) : j # i => heap'[j] = heap[j]
    BY <1>6, <2>1
  <2> QED
    BY <1>1, <2>1, <2>2, <2>3, <2>4, AccessStep DEF i
<1>10. CASE Cap(c)
  <2>1. /\ pc[c] = "cap" /\ pc' = [pc EXCEPT ![c] = "stamp"] /\ shared' = shared
        /\ torn' = IF c \in shared THEN torn ELSE torn \ {i}
    BY <1>10 DEF Cap, Goto, i
  <2>2. PICK w :
           /\ reg' = [reg EXCEPT ![c] = [reg[c] EXCEPT !.tokens = w, !.refilled = TRUE]]
           /\ \/ heap' = heap /\ w \in Seen(c) /\ ~(w > Burst(reg[c].rate))
              \/ heap' = [heap EXCEPT ![i] = [heap[i] EXCEPT !.tokens = w]]
                   /\ w = Burst(reg[c].rate)
    <3>1. PICK v \in Seen(c) :
             IF v > Burst(reg[c].rate)
             THEN /\ heap' = [heap EXCEPT ![i].tokens = Burst(reg[c].rate)]
                  /\ reg' = [reg EXCEPT ![c].tokens = Burst(reg[c].rate), ![c].refilled = TRUE]
             ELSE /\ reg' = [reg EXCEPT ![c].tokens = v, ![c].refilled = TRUE]
                  /\ UNCHANGED heap
      BY <1>10 DEF Cap, i
    <3>2. CASE v > Burst(reg[c].rate)
      <4> DEFINE u == Burst(reg[c].rate)
      <4>1. /\ reg' = [reg EXCEPT ![c] = [reg[c] EXCEPT !.tokens = u, !.refilled = TRUE]]
            /\ heap' = [heap EXCEPT ![i] = [heap[i] EXCEPT !.tokens = u]]
            /\ u = Burst(reg[c].rate)
        BY <3>1, <3>2
      <4> HIDE DEF u
      <4> QED
        BY <4>1
    <3>3. CASE ~(v > Burst(reg[c].rate))
      BY <3>1, <3>3
    <3> QED
      BY <3>2, <3>3
  <2> DEFINE r == [reg[c] EXCEPT !.tokens = w, !.refilled = TRUE]
             b == [heap[i] EXCEPT !.tokens = w]
  <2>3. r.el = i /\ r.tokens = w /\ b.tokens = w /\ reg' = [reg EXCEPT ![c] = r]
    BY <1>1, <2>2 DEF Registers, Buckets, i
  <2>4. c \notin shared => \A x \in Seen(c) : x = heap[i].tokens
    BY <1>4, <2>1 DEF Seen, i
  <2>5. \/ heap' = heap /\ w \in Seen(c) /\ ~(w > Burst(reg[c].rate))
        \/ heap' = [heap EXCEPT ![i] = b] /\ w = Burst(reg[c].rate)
    BY <2>2
  <2> HIDE DEF r, b
  <2>6. /\ Len(heap') = Len(heap)
        /\ \A j \in 1 .. Len(heap) : j # i => heap'[j] = heap[j]
        /\ c \notin shared => heap'[i].tokens = w /\ w <= 2 * MaxRate
    <3>1. CASE heap' = heap /\ w \in Seen(c) /\ ~(w > Burst(reg[c].rate))
      <4>1. c \notin shared => w = heap[i].tokens
        BY <2>4, <3>1
      <4>2. c \notin shared => w <= 2 * MaxRate
        BY <1>1, <1>5, <3>1, <4>1, BucketAssumption
      <4> QED
        BY <1>1, <3>1, <4>1, <4>2
    <3>2. CASE heap' = [heap EXCEPT ![i] = b] /\ w = Burst(reg[c].rate)
      BY <1>5, <1>6, <2>3, <3>2
    <3> QED
      BY <2>5, <3>1, <3>2
  <2>7. /\ torn' = torn \/ (c \notin shared /\ torn' = torn \ {i})
        /\ shared' \subseteq shared /\ shared \subseteq shared' \cup {c}
        /\ i = reg[c].el
    BY <2>1 DEF i
  <2>8. c \notin shared => /\ r.tokens = heap'[i].tokens
                           /\ heap'[i].tokens <= 2 * MaxRate
    BY <2>3, <2>6
  <2> DEFINE l == "stamp"
  <2>9. /\ pc' = [pc EXCEPT ![c] = l]
        /\ l \in {"elapsed", "refill", "add", "cap", "stamp", "spend", "take"}
        /\ r.refilled => l \in {"stamp", "spend", "take"}
        /\ l # "take"
    BY <2>1
  <2> HIDE DEF i, l
  <2> QED
    BY <1>1, <2>1, <2>3, <2>6, <2>7, <2>8, <2>9, AccessStep
<1>11. CASE Stamp(c)
  <2> DEFINE b == [heap[i] EXCEPT !.last = reg[c].t]
  <2>1. /\ pc[c] = "stamp" /\ pc' = [pc EXCEPT ![c] = "spend"]
        /\ reg' = [reg EXCEPT ![c] = reg[c]]
        /\ heap' = [heap EXCEPT ![i] = b] /\ shared' = shared /\ torn' = torn
    BY <1>11 DEF Stamp, Goto, history, i, TypeInv, CpusOK
  <2>2. b.tokens = heap[i].tokens
    BY <1>1 DEF Buckets
  <2> HIDE DEF b
  <2>3. /\ Len(heap') = Len(heap) /\ heap'[i] = b
        /\ \A j \in 1 .. Len(heap) : j # i => heap'[j] = heap[j]
    BY <1>6, <2>1
  <2>4. /\ i = reg[c].el /\ shared' \subseteq shared /\ shared \subseteq shared' \cup {c}
        /\ reg[c].refilled /\ c \notin shared => reg[c].tokens = heap'[i].tokens
        /\ c \notin shared => heap'[i].tokens <= 2 * MaxRate \/ i \in torn'
    BY <1>3, <1>4, <2>1, <2>2, <2>3 DEF i
  <2> DEFINE l == "spend"
             r == reg[c]
  <2>5. pc' = [pc EXCEPT ![c] = l] /\ reg' = [reg EXCEPT ![c] = r]
    BY <2>1
  <2>6. /\ l \in {"elapsed", "refill", "add", "cap", "stamp", "spend", "take"}
        /\ r.el = i /\ shared' = shared
        /\ r.refilled => l \in {"stamp", "spend", "take"}
        /\ c \notin shared =>
             /\ l \in {"add", "cap", "take"} \/ r.refilled => r.tokens = heap'[i].tokens
             /\ l = "take" => r.tokens > 0
    BY <2>1, <2>4
  <2>7. c \notin shared => heap'[i].tokens <= 2 * MaxRate \/ l = "cap" \/ i \in torn'
    BY <2>4
  <2>8. torn' = torn
    BY <2>1
  <2> HIDE DEF l, r
  <2> QED
    BY <1>1, <2>3, <2>4, <2>5, <2>6, <2>7, <2>8, AccessStep
<1>12. CASE Spend(c)
  <2>1. pc[c] = "spend" /\ heap' = heap /\ torn' = torn
    BY <1>12 DEF Spend
  <2>2. PICK v \in IF reg[c].refilled THEN Seen(c) ELSE {heap[i].tokens} :
           \/ /\ v > 0 /\ pc' = [pc EXCEPT ![c] = "take"] /\ shared' = shared
              /\ reg' = [reg EXCEPT ![c] = [reg[c] EXCEPT !.tokens = v]]
           \/ /\ pc' = [pc EXCEPT ![c] = "idle"] /\ shared' = shared \ {c}
              /\ reg' = [reg EXCEPT ![c] = ClearReg]
    BY <1>12 DEF Spend, Goto, Return, i
  <2>3. c \notin shared => v = heap[i].tokens
    BY <1>4, <2>2 DEF Seen, i
  <2>4. CASE /\ v > 0 /\ pc' = [pc EXCEPT ![c] = "take"] /\ shared' = shared
             /\ reg' = [reg EXCEPT ![c] = [reg[c] EXCEPT !.tokens = v]]
    <3> DEFINE r == [reg[c] EXCEPT !.tokens = v]
    <3>1. r.el = i /\ r.tokens = v /\ reg' = [reg EXCEPT ![c] = r]
      BY <1>1, <2>4 DEF Registers, i
    <3> HIDE DEF r
    <3> QED
      BY <1>1, <1>3, <2>1, <2>3, <2>4, <3>1, AccessStep DEF i
  <2>5. CASE /\ pc' = [pc EXCEPT ![c] = "idle"] /\ shared' = shared \ {c}
             /\ reg' = [reg EXCEPT ![c] = ClearReg]
    BY <1>1, <1>3, <2>1, <2>5, AccessStep DEF i
  <2> QED
    BY <2>2, <2>4, <2>5
<1>13. CASE Take(c)
  <2>1. /\ pc[c] = "take" /\ pc' = [pc EXCEPT ![c] = "idle"] /\ shared' = shared \ {c}
        /\ reg' = [reg EXCEPT ![c] = ClearReg] /\ torn' = torn
    BY <1>13 DEF Take, Return
  <2>2. PICK v \in Seen(c) : heap' = [heap EXCEPT ![i].tokens = (v - 1) % W]
    BY <1>13 DEF Take, i
  <2> DEFINE b == [heap[i] EXCEPT !.tokens = (v - 1) % W]
  <2>3. heap' = [heap EXCEPT ![i] = b] /\ b.tokens = (v - 1) % W
    BY <1>1, <2>2 DEF Buckets
  <2>4. c \notin shared => v = heap[i].tokens /\ v > 0
    <3>1. c \notin shared => reg[c].tokens > 0
      BY <1>1, <1>2, <2>1 DEF Faithful, Lone
    <3> QED
      BY <1>4, <2>1, <3>1 DEF Seen, i
  <2>5. c \notin shared => (v - 1) % W = v - 1
    <3>1. c \notin shared => v \in 1 .. W - 1
      <4>1. heap[i].tokens \in 0 .. W - 1
        BY <1>1 DEF Buckets
      <4> QED
        BY <1>1, <2>4, <4>1
    <3> QED
      BY <1>1, <3>1, RemainderSmall
  <2> HIDE DEF b
  <2>6. /\ Len(heap') = Len(heap) /\ heap'[i] = b
        /\ \A j \in 1 .. Len(heap) : j # i => heap'[j] = heap[j]
    BY <1>6, <2>3
  <2>7. c \notin shared => heap'[i].tokens <= 2 * MaxRate \/ i \in torn
    <3>1. ASSUME c \notin shared, i \notin torn PROVE heap'[i].tokens <= 2 * MaxRate
      <4>1. heap[i].tokens <= 2 * MaxRate /\ heap'[i].tokens = heap[i].tokens - 1
        BY <1>3, <2>1, <2>3, <2>4, <2>5, <2>6, <3>1
      <4> QED
        BY <1>1, <4>1, BucketAssumption
    <3> QED
      BY <3>1
  <2> QED
    BY <1>1, <2>1, <2>6, <2>7, AccessStep DEF i
<1> QED
  BY <1>7, <1>8, <1>9, <1>10, <1>11, <1>12, <1>13

\* For any number of CPUs and removals: packets that meet at an entry may
\* leave any number of tokens there, but as long as they have not, and from the
\* first refill on by a packet alone with it, an entry holds no more than the
\* burst of the largest rate, wherever additions and differences of clocks wrap.
\* Of rate 0, which a rule changed to threshold 0 sets (agent.go:165-167), the
\* first bucket would hold W - 1 tokens (policy.c:134-160).
THEOREM LoneRefillsRepair == ASSUME MinRate > 0 PROVE Spec => []LoneRefillRepairs
<1>1. Init => MeetInv
  BY DEF Init, MeetInv, Faithful, Met, Lone, Pointing, ClearReg
<1>2. TypeInv /\ TypeInv' /\ MeetInv /\ [Next]_vars => MeetInv'
  <2> SUFFICES ASSUME TypeInv, TypeInv', MeetInv, [Next]_vars PROVE MeetInv'
    OBVIOUS
  <2>1. CASE \/ Tick \/ (\E r \in Rates : SetRate(r)) \/ RemoveConfig \/ RemoveBucket
             \/ UNCHANGED vars
    <3>1. UNCHANGED <<heap, pc, reg, shared, torn>>
      BY <2>1 DEF Tick, SetRate, RemoveConfig, RemoveBucket, vars, history
    <3> QED
      BY <3>1 DEF MeetInv, Faithful, Met, Lone, Within, At, Pointing
  <2>2. ASSUME NEW c \in Cpus, Arrive(c) PROVE MeetInv'
    <3> DEFINE r == [reg[c] EXCEPT !.t = now]
    <3>1. /\ pc[c] = "idle" /\ pc' = [pc EXCEPT ![c] = "config"]
          /\ reg' = [reg EXCEPT ![c] = r] /\ UNCHANGED <<heap, shared, torn>>
      BY <2>2 DEF Arrive, Goto, history
    <3>2. ~r.refilled
      BY <3>1, CpuFacts DEF MeetInv, Faithful, Registers
    <3> HIDE DEF r
    <3> QED
      BY <3>1, <3>2, OutsideStep
  <2>3. ASSUME NEW c \in Cpus, LookupConfig(c) PROVE MeetInv'
    <3> DEFINE r == [reg[c] EXCEPT !.rate = cfg]
    <3>1. /\ pc[c] = "config" /\ UNCHANGED <<heap, torn>>
          /\ \/ /\ pc' = [pc EXCEPT ![c] = "idle"] /\ reg' = [reg EXCEPT ![c] = ClearReg]
                /\ shared' = shared \ {c}
             \/ /\ pc' = [pc EXCEPT ![c] = "state"] /\ reg' = [reg EXCEPT ![c] = r]
                /\ shared' = shared
      BY <2>3 DEF LookupConfig, Goto, Return
    <3>2. ~r.refilled /\ ~ClearReg.refilled
      BY <3>1, CpuFacts DEF MeetInv, Faithful, Registers, ClearReg
    <3> HIDE DEF r
    <3> QED
      BY <3>1, <3>2, OutsideStep
  <2>4. ASSUME NEW c \in Cpus, LookupState(c) PROVE MeetInv'
    BY <2>4, LookupStep
  <2>5. ASSUME NEW c \in Cpus, Create(c) PROVE MeetInv'
    BY <2>5, CreateStep
  <2>6. ASSUME NEW c \in Cpus, \/ Elapsed(c) \/ Refill(c) \/ Add(c) \/ Cap(c) \/ Stamp(c)
                               \/ Spend(c) \/ Take(c)
        PROVE  MeetInv'
    BY <2>6, EntrySteps
  <2> QED
    BY <2>1, <2>2, <2>3, <2>4, <2>5, <2>6 DEF Next
<1> QED
  BY <1>1, <1>2, TypeInvInitial, TypeInvInductive, MeetInvImplies, PTL DEF Spec

-----------------------------------------------------------------------------
(***************************************************************************)
(* One CPU, and an agent that does not remove the limit: the packet takes  *)
(* effect when it reads its rate.                                          *)
(***************************************************************************)
\* What a packet with rate r and time t makes of the bucket b.
AfterPacket(b, r, t) == IF b = None THEN Fresh(r, t) ELSE Spent(Refilled(b, r, t))

\* What becomes of a packet with rate r and time t that finds the bucket b.
PacketVerdict(b, r, t) ==
    IF b # None /\ Refilled(b, r, t).tokens = 0 THEN "DROP" ELSE "PASS"

\* Both instances of the atomic limiter compute with the same operators.
LEMMA SameOperators ==
    ASSUME NEW b, NEW r, NEW t
    PROVE  /\ A!After(b, r, t) = AfterPacket(b, r, t)
           /\ Atomic!After(b, r, t) = AfterPacket(b, r, t)
           /\ A!Verdict(b, r, t) = PacketVerdict(b, r, t)
           /\ Atomic!Verdict(b, r, t) = PacketVerdict(b, r, t)
<1>1. A!Burst(r) = Burst(r) /\ Atomic!Burst(r) = Burst(r)
  BY DEF A!Burst, Atomic!Burst, Burst
<1>2. A!Fresh(r, t) = Fresh(r, t) /\ Atomic!Fresh(r, t) = Fresh(r, t)
  BY <1>1 DEF A!Fresh, Atomic!Fresh, Fresh
<1>3. /\ A!NewTokens(r, t, b.last) = NewTokens(r, t, b.last)
      /\ Atomic!NewTokens(r, t, b.last) = NewTokens(r, t, b.last)
  BY DEF A!NewTokens, Atomic!NewTokens, NewTokens
<1>4. \A x, n : A!Topped(x, n, r) = Topped(x, n, r) /\ Atomic!Topped(x, n, r) = Topped(x, n, r)
  BY <1>1 DEF A!Topped, Atomic!Topped, Topped, A!Capped, Atomic!Capped, Capped
<1>5. A!Refilled(b, r, t) = Refilled(b, r, t) /\ Atomic!Refilled(b, r, t) = Refilled(b, r, t)
  BY <1>3, <1>4 DEF A!Refilled, Atomic!Refilled, Refilled
<1>6. \A x : A!Spent(x) = Spent(x) /\ Atomic!Spent(x) = Spent(x)
  BY DEF A!Spent, Atomic!Spent, Spent
<1> QED
  BY <1>2, <1>5, <1>6 DEF A!After, Atomic!After, AfterPacket, A!Verdict, Atomic!Verdict,
     PacketVerdict

\* The packet of the only CPU is alone with the bucket: what it has read is
\* still there, and its clock reading is in order.
InOrder(c) ==
    /\ ~removing /\ removals = 0
    /\ pc[c] # "idle" => reg[c].t <= now
    /\ cur # 0 => heap[cur].last <= IF pc[c] = "idle" THEN now ELSE reg[c].t

Alone(c) ==
    /\ pc[c] = "create" => cur = 0
    /\ Pointing(c) => cur # 0 /\ reg[c].el = cur
    /\ pc[c] \in {"refill", "add"} =>
         /\ reg[c].new = NewTokens(reg[c].rate, reg[c].t, heap[cur].last)
         /\ reg[c].new > 0
    /\ pc[c] = "take" => reg[c].tokens > 0
    /\ pc[c] \in {"add", "cap", "take"} => reg[c].tokens = heap[cur].tokens
    /\ reg[c].refilled =>
         /\ pc[c] \in {"stamp", "spend", "take"}
         /\ reg[c].tokens = heap[cur].tokens

\* The values the refinement mapping takes along the accesses of a packet.
MappedTo(c) ==
    LET r == reg[c] IN
    /\ pc[c] \in {"idle", "config"} => Settled(c) = Live /\ Decided(c) = verdict
    /\ pc[c] \in {"state", "create", "elapsed", "refill", "add"} =>
         /\ Settled(c) = AfterPacket(Live, r.rate, r.t)
         /\ Decided(c) = PacketVerdict(Live, r.rate, r.t)
    /\ pc[c] = "cap" =>
         /\ Settled(c) = Spent([tokens |-> Capped(Live.tokens, r.rate), last |-> r.t])
         /\ Decided(c) = IF Capped(Live.tokens, r.rate) > 0 THEN "PASS" ELSE "DROP"
    /\ pc[c] = "stamp" => Settled(c) = Spent([Live EXCEPT !.last = r.t])
    /\ pc[c] = "spend" => Settled(c) = Spent(Live)
    /\ pc[c] \in {"stamp", "spend"} =>
         Decided(c) = IF Live.tokens > 0 THEN "PASS" ELSE "DROP"
    /\ pc[c] = "take" =>
         Settled(c) = [Live EXCEPT !.tokens = r.tokens - 1] /\ Decided(c) = "PASS"

\* The mapping takes them in both states of a step.
LEMMA MappingValues == ASSUME NEW c PROVE MappedTo(c) /\ MappedTo(c)'
<1>1. MappedTo(c)
  BY SameOperators DEF MappedTo, Settled, Decided
<1>2. MappedTo(c)'
  BY SameOperators DEF MappedTo, Settled, Decided
<1> QED
  BY <1>1, <1>2

\* The inductive invariant of the refinement.
SerialInv(c) == TypeInv /\ InOrder(c) /\ Alone(c)

\* The bucket the map refers to is a record, never None.
LEMMA LiveBucket ==
    ASSUME HeapOK, cur # 0
    PROVE  Live = heap[cur] /\ Live \in Buckets /\ Live # None
<1>1. cur \in 1 .. Len(heap) /\ heap \in Seq(Buckets)
  BY DEF HeapOK
<1>2. heap[cur] \in Buckets
  BY <1>1
<1>3. \A b \in Buckets : b \in [tokens : Nat, last : Nat]
  BY BucketAssumption, WidthAssumption DEF Buckets
<1> QED
  BY <1>2, <1>3, BucketAssumption DEF Live

\* The only CPU moves to l with registers r.
LEMMA OnlyCpu ==
    ASSUME CpusOK, NEW c \in Cpus, NEW l, NEW r,
           pc' = [pc EXCEPT ![c] = l], reg' = [reg EXCEPT ![c] = r]
    PROVE  pc'[c] = l /\ reg'[c] = r
BY DEF CpusOK

\* What a CPU that does not write the bucket leaves as it is.
Untouched == UNCHANGED <<now, agent, heap, cur, arrived>>

\* The host is untouched, so is the order of the clock readings.
LEMMA OrderKept ==
    ASSUME NEW c, InOrder(c), UNCHANGED <<now, agent, heap, cur>>,
           pc[c] # "idle", pc'[c] # "idle", reg'[c].t = reg[c].t
    PROVE  InOrder(c)'
BY DEF InOrder, agent

\* A packet that ends leaves a bucket that is not in the future.
LEMMA OrderAtEnd ==
    ASSUME NEW c \in Cpus, TypeInv, InOrder(c), UNCHANGED <<now, agent, cur>>,
           pc[c] # "idle", pc'[c] = "idle",
           cur # 0 => heap'[cur].last = heap[cur].last
    PROVE  InOrder(c)'
<1>1. reg[c].t \in Nat /\ now \in Nat
  BY CpuFacts, BucketAssumption DEF TypeInv, HostOK
<1>2. cur # 0 => heap[cur].last \in Nat
  BY LiveBucket, BucketAssumption DEF TypeInv, Buckets
<1> QED
  BY <1>1, <1>2 DEF InOrder, agent

-----------------------------------------------------------------------------
\* The steps of the host.
LEMMA HostSteps ==
    ASSUME NEW c \in Cpus, SerialInv(c), MaxRemovals = 0, TheCpu = c,
           \/ Tick \/ (\E r \in Rates : SetRate(r)) \/ RemoveConfig \/ RemoveBucket
    PROVE  InOrder(c)' /\ Alone(c)' /\ Atomic!Next
<1>1. /\ now \in Nat /\ reg[c].t \in Nat /\ MaxTime \in Nat /\ removals = 0 /\ ~removing
      /\ cur # 0 => heap[cur].last \in Nat
  BY CpuFacts, LiveBucket, BucketAssumption
     DEF SerialInv, TypeInv, HostOK, InOrder, Buckets
<1>2. CASE Tick
  <2>1. now' = now + 1 /\ now < MaxTime /\ UNCHANGED <<cfg, removing, removals, heap, cur, verdict, pc, reg>>
    BY <1>2 DEF Tick, agent
  <2>2. InOrder(c)'
    BY <1>1, <2>1 DEF SerialInv, InOrder
  <2>3. Alone(c)'
    BY <2>1 DEF SerialInv, Alone, Pointing
  <2>4. UNCHANGED <<Settled(c), Decided(c)>>
    BY <2>1 DEF Settled, Decided, Live
  <2> QED
    BY <2>1, <2>2, <2>3, <2>4 DEF Atomic!Next, Atomic!Tick
<1>3. ASSUME NEW r \in Rates, SetRate(r) PROVE InOrder(c)' /\ Alone(c)' /\ Atomic!Next
  <2>1. ~removing /\ cfg' = r /\ UNCHANGED <<now, removing, removals, heap, cur, verdict, pc, reg>>
    BY <1>3 DEF SetRate
  <2>2. InOrder(c)'
    BY <2>1 DEF SerialInv, InOrder
  <2>3. Alone(c)'
    BY <2>1 DEF SerialInv, Alone, Pointing
  <2>4. UNCHANGED <<Settled(c), Decided(c)>>
    BY <2>1 DEF Settled, Decided, Live
  <2> QED
    BY <2>1, <2>2, <2>3, <2>4 DEF Atomic!Next, Atomic!SetRate
<1>4. ~RemoveConfig /\ ~RemoveBucket
  BY <1>1 DEF RemoveConfig, RemoveBucket
<1> QED
  BY <1>2, <1>3, <1>4

\* The packet takes effect when it reads its rate.
LEMMA RateStep ==
    ASSUME NEW c \in Cpus, SerialInv(c), TheCpu = c, LookupConfig(c)
    PROVE  InOrder(c)' /\ Alone(c)' /\ Atomic!Next
<1>1. /\ pc[c] = "config" /\ UNCHANGED <<now, cfg, removing, removals, heap, cur>>
      /\ reg[c] \in Registers /\ ~reg[c].refilled
      /\ reg[c].t \in Nat /\ now \in Nat /\ reg[c].t <= now
      /\ cur # 0 => heap[cur].last <= reg[c].t
  BY CpuFacts, BucketAssumption
     DEF LookupConfig, SerialInv, Alone, InOrder, agent, TypeInv, HostOK
<1>2. Settled(c) = Live /\ Decided(c) = verdict
  BY <1>1, MappingValues DEF MappedTo
<1>3. CASE cfg = None
  <2>1. verdict' = "PASS" /\ pc'[c] = "idle" /\ reg'[c] = ClearReg
    BY <1>3, OnlyCpu DEF LookupConfig, Return, SerialInv, TypeInv
  <2>2. InOrder(c)'
    BY <1>1, <2>1, OrderAtEnd DEF SerialInv, agent
  <2>3. Alone(c)'
    BY <2>1 DEF Alone, Pointing, ClearReg
  <2>4. Settled(c)' = Live' /\ Decided(c)' = verdict'
    BY <2>1, MappingValues DEF MappedTo
  <2>5. Live' = Live
    BY <1>1 DEF Live
  <2> QED
    BY <1>1, <1>2, <1>3, <2>1, <2>2, <2>3, <2>4, <2>5 DEF Atomic!Next, Atomic!PassUnlimited
<1>4. CASE cfg # None
  <2> DEFINE r == [reg[c] EXCEPT !.rate = cfg]
  <2>1. verdict' = verdict /\ pc'[c] = "state" /\ reg'[c] = r
    BY <1>4, OnlyCpu DEF LookupConfig, Goto, SerialInv, TypeInv
  <2>2. r.t = reg[c].t /\ r.rate = cfg /\ r.refilled = reg[c].refilled
    BY <1>1 DEF Registers
  <2> HIDE DEF r
  <2>3. InOrder(c)'
    BY <1>1, <2>1, <2>2, OrderKept DEF SerialInv, agent
  <2>4. Alone(c)'
    BY <1>1, <2>1, <2>2 DEF Alone, Pointing
  <2>5. Live' = Live
    BY <1>1 DEF Live
  <2>6. /\ Settled(c)' = AfterPacket(Live, cfg, reg[c].t)
        /\ Decided(c)' = PacketVerdict(Live, cfg, reg[c].t)
    BY <2>1, <2>2, <2>5, MappingValues DEF MappedTo
  <2>7. Live # None => reg[c].t >= Live.last
    BY <1>1 DEF Live
  <2>8. Atomic!Packet(reg[c].t)
    BY <1>1, <1>2, <1>4, <2>6, <2>7, SameOperators DEF Atomic!Packet
  <2>9. reg[c].t \in 0 .. now
    BY <1>1
  <2> QED
    BY <2>3, <2>4, <2>8, <2>9 DEF Atomic!Next
<1> QED
  BY <1>3, <1>4

\* The steps that only read: the arrival, the lookup of the bucket, and the
\* reads of last_refill and of tokens before a refill.
LEMMA ReadSteps ==
    ASSUME NEW c \in Cpus, SerialInv(c), TheCpu = c,
           Arrive(c) \/ LookupState(c) \/ Elapsed(c) \/ Refill(c)
    PROVE  InOrder(c)' /\ Alone(c)' /\ UNCHANGED Atomic!vars
<1>1. /\ reg[c] \in Registers /\ Prepared(c) /\ InOrder(c) /\ Alone(c) /\ CpusOK /\ HeapOK
      /\ reg[c].t \in Nat /\ now \in Nat
      /\ cur # 0 => heap[cur].last \in Nat
  BY CpuFacts, LiveBucket, BucketAssumption DEF SerialInv, TypeInv, HostOK, Buckets
<1>2. UNCHANGED <<now, agent, heap, cur, verdict>>
  BY DEF Arrive, LookupState, Elapsed, Refill
<1>3. Live' = Live
  BY <1>2 DEF Live
<1>4. MappedTo(c) /\ MappedTo(c)'
  BY MappingValues
<1>5. ASSUME UNCHANGED <<Settled(c), Decided(c)>> PROVE UNCHANGED Atomic!vars
  BY <1>2, <1>5 DEF Atomic!vars, agent
<1>6. CASE Arrive(c)
  <2> DEFINE r == [reg[c] EXCEPT !.t = now]
  <2>1. pc[c] = "idle" /\ pc'[c] = "config" /\ reg'[c] = r
    BY <1>1, <1>6, OnlyCpu DEF Arrive, Goto
  <2>2. r.t = now /\ r.refilled = reg[c].refilled
    BY <1>1 DEF Registers
  <2> HIDE DEF r
  <2>3. InOrder(c)'
    BY <1>1, <1>2, <2>1, <2>2 DEF InOrder, agent
  <2>4. Alone(c)'
    BY <1>1, <2>1, <2>2 DEF Alone, Pointing
  <2>5. UNCHANGED <<Settled(c), Decided(c)>>
    BY <1>2, <1>3, <1>4, <2>1 DEF MappedTo
  <2> QED
    BY <1>5, <2>3, <2>4, <2>5
<1>7. CASE LookupState(c)
  <2> DEFINE r == [reg[c] EXCEPT !.el = cur]
             l == IF cur = 0 THEN "create" ELSE "elapsed"
  <2>1. pc[c] = "state" /\ pc'[c] = l /\ reg'[c] = r
    BY <1>1, <1>7, OnlyCpu DEF LookupState, Goto
  <2>2. r.t = reg[c].t /\ r.refilled = reg[c].refilled /\ r.rate = reg[c].rate /\ r.el = cur
    BY <1>1 DEF Registers
  <2>3. l \in {"create", "elapsed"} /\ (l = "create" => cur = 0) /\ (l = "elapsed" => cur # 0)
    OBVIOUS
  <2> HIDE DEF r, l
  <2>4. InOrder(c)'
    BY <1>1, <1>2, <2>1, <2>2, <2>3, OrderKept DEF agent
  <2>5. Alone(c)'
    BY <1>1, <1>2, <2>1, <2>2, <2>3 DEF Alone, Pointing
  <2>6. UNCHANGED <<Settled(c), Decided(c)>>
    BY <1>2, <1>3, <1>4, <2>1, <2>2, <2>3 DEF MappedTo
  <2> QED
    BY <1>5, <2>4, <2>5, <2>6
<1>8. CASE Elapsed(c)
  <2> DEFINE new == NewTokens(reg[c].rate, reg[c].t, heap[reg[c].el].last)
             r == [reg[c] EXCEPT !.new = new]
             l == IF new > 0 THEN "refill" ELSE "spend"
  <2>1. pc[c] = "elapsed" /\ pc'[c] = l /\ reg'[c] = r
    BY <1>1, <1>8, OnlyCpu DEF Elapsed, Goto
  <2>2. cur # 0 /\ reg[c].el = cur /\ ~reg[c].refilled /\ reg[c].rate \in Rates
    BY <1>1, <2>1 DEF Alone, Pointing, Prepared
  <2>3. new \in Nat /\ new = NewTokens(reg[c].rate, reg[c].t, Live.last)
    <3>1. Live = heap[cur] /\ heap[cur].last \in Nat
      BY <1>1, <2>2, LiveBucket
    <3>2. NewTokens(reg[c].rate, reg[c].t, heap[cur].last) \in 0 .. W - 1
      BY <1>1, <2>2, <3>1, NewTokensType
    <3> QED
      BY <2>2, <3>1, <3>2, WidthAssumption
  <2> HIDE DEF new
  <2>4. /\ r.t = reg[c].t /\ r.refilled = reg[c].refilled /\ r.rate = reg[c].rate
        /\ r.el = cur /\ r.new = new
    BY <1>1, <2>2 DEF Registers
  <2>5. l \in {"refill", "spend"} /\ (l = "refill" => new > 0) /\ (l = "spend" => new = 0)
    BY <2>3
  <2> HIDE DEF r, l
  <2>6. InOrder(c)'
    BY <1>1, <1>2, <2>1, <2>4, <2>5, OrderKept DEF agent
  <2>7. Live = heap[cur] /\ Live # None
    BY <1>1, <2>2, LiveBucket
  <2>8. Alone(c)'
    BY <1>1, <1>2, <2>1, <2>2, <2>3, <2>4, <2>5, <2>7 DEF Alone, Pointing
  <2>9. CASE l = "refill"
    <3>1. UNCHANGED <<Settled(c), Decided(c)>>
      BY <1>2, <1>3, <1>4, <2>1, <2>4, <2>9 DEF MappedTo
    <3> QED
      BY <1>5, <2>6, <2>8, <3>1
  <2>10. CASE l = "spend"
    <3>1. Refilled(Live, reg[c].rate, reg[c].t) = Live
      BY <2>3, <2>5, <2>10 DEF Refilled
    <3>2. /\ Settled(c) = Spent(Live)
          /\ Decided(c) = IF Live.tokens = 0 THEN "DROP" ELSE "PASS"
      BY <1>4, <2>1, <2>7, <3>1 DEF MappedTo, AfterPacket, PacketVerdict
    <3>3. /\ Settled(c)' = Spent(Live)
          /\ Decided(c)' = IF Live.tokens > 0 THEN "PASS" ELSE "DROP"
      BY <1>3, <1>4, <2>1, <2>10 DEF MappedTo
    <3>4. Live.tokens \in Nat
      BY <1>1, <2>2, LiveBucket, WidthAssumption DEF Buckets
    <3>5. UNCHANGED <<Settled(c), Decided(c)>>
      BY <3>2, <3>3, <3>4
    <3> QED
      BY <1>5, <2>6, <2>8, <3>5
  <2> QED
    BY <2>5, <2>9, <2>10
<1>9. CASE Refill(c)
  <2> DEFINE r == [reg[c] EXCEPT !.tokens = heap[reg[c].el].tokens]
  <2>1. pc[c] = "refill" /\ pc'[c] = "add" /\ reg'[c] = r
    BY <1>1, <1>9, OnlyCpu DEF Refill, Goto
  <2>2. cur # 0 /\ reg[c].el = cur
    BY <1>1, <2>1 DEF Alone, Pointing
  <2>3. /\ r.t = reg[c].t /\ r.refilled = reg[c].refilled /\ r.rate = reg[c].rate
        /\ r.el = cur /\ r.new = reg[c].new /\ r.tokens = heap[cur].tokens
    BY <1>1, <2>2 DEF Registers
  <2> HIDE DEF r
  <2>4. InOrder(c)'
    BY <1>1, <1>2, <2>1, <2>3, OrderKept DEF agent
  <2>5. Alone(c)'
    BY <1>1, <1>2, <2>1, <2>2, <2>3 DEF Alone, Pointing
  <2>6. UNCHANGED <<Settled(c), Decided(c)>>
    BY <1>2, <1>3, <1>4, <2>1, <2>3 DEF MappedTo
  <2> QED
    BY <1>5, <2>4, <2>5, <2>6
<1> QED
  BY <1>6, <1>7, <1>8, <1>9

\* The steps that write the bucket, and the test of its tokens.
LEMMA WriteSteps ==
    ASSUME NEW c \in Cpus, SerialInv(c), TheCpu = c,
           Create(c) \/ Add(c) \/ Cap(c) \/ Stamp(c) \/ Spend(c) \/ Take(c)
    PROVE  InOrder(c)' /\ Alone(c)' /\ UNCHANGED Atomic!vars
<1>1. /\ reg[c] \in Registers /\ Prepared(c) /\ InOrder(c) /\ Alone(c) /\ CpusOK /\ HeapOK
      /\ reg[c].t \in Nat /\ now \in Nat /\ Len(heap) \in Nat /\ heap \in Seq(Buckets)
      /\ reg[c].tokens \in Nat /\ reg[c].new \in Nat /\ cur \in 0 .. Len(heap)
      /\ cur # 0 => /\ heap[cur].last \in Nat /\ heap[cur].tokens \in Nat
                    /\ heap[cur] \in Buckets /\ Live = heap[cur] /\ Live # None
  BY CpuFacts, LiveBucket, BucketAssumption, WidthAssumption
     DEF SerialInv, TypeInv, HostOK, HeapOK, Buckets
<1>2. UNCHANGED <<now, agent>>
  BY DEF Create, Add, Cap, Stamp, Spend, Take
<1>3. MappedTo(c) /\ MappedTo(c)'
  BY MappingValues
<1>4. ASSUME UNCHANGED <<Settled(c), Decided(c)>> PROVE UNCHANGED Atomic!vars
  BY <1>2, <1>4 DEF Atomic!vars, agent
<1>5. CASE Create(c)
  <2> DEFINE b == Fresh(reg[c].rate, reg[c].t)
  <2>1. /\ pc[c] = "create" /\ pc'[c] = "idle" /\ reg'[c] = ClearReg /\ verdict' = "PASS"
        /\ heap' = Append(heap, b) /\ cur' = Len(heap')
    BY <1>1, <1>5, OnlyCpu DEF Create, Return
  <2>2. cur = 0 /\ Live = None /\ reg[c].t <= now
    BY <1>1, <2>1 DEF Alone, Live, InOrder
  <2>3. b.last = reg[c].t
    BY DEF Fresh
  <2> HIDE DEF b
  <2>4. cur' # 0 /\ heap'[cur'] = b
    BY <1>1, <2>1
  <2>5. InOrder(c)'
    BY <1>1, <1>2, <2>1, <2>2, <2>3, <2>4 DEF InOrder, agent
  <2>6. Alone(c)'
    BY <2>1 DEF Alone, Pointing, ClearReg
  <2>7. Settled(c) = b /\ Decided(c) = "PASS"
    BY <1>3, <2>1, <2>2 DEF MappedTo, AfterPacket, PacketVerdict, b
  <2>8. Settled(c)' = b /\ Decided(c)' = "PASS"
    BY <1>3, <2>1, <2>4 DEF MappedTo, Live
  <2> QED
    BY <1>4, <2>5, <2>6, <2>7, <2>8
<1>6. CASE Add(c)
  <2> DEFINE sum == (reg[c].tokens + reg[c].new) % W
             r == [reg[c] EXCEPT !.tokens = sum]
             b == [heap[cur] EXCEPT !.tokens = sum]
  <2>1. pc[c] = "add" /\ pc'[c] = "cap" /\ reg'[c] = r /\ cur' = cur
    <3>1. /\ reg' = [reg EXCEPT ![c] = r] /\ pc' = [pc EXCEPT ![c] = "cap"]
          /\ pc[c] = "add" /\ cur' = cur
      BY <1>6 DEF Add, Goto
    <3> HIDE DEF r, b, sum
    <3> QED
      BY <1>1, <3>1, OnlyCpu
  <2>2. /\ cur # 0 /\ reg[c].el = cur /\ reg[c].new > 0 /\ reg[c].tokens = heap[cur].tokens
        /\ reg[c].new = NewTokens(reg[c].rate, reg[c].t, heap[cur].last)
        /\ reg[c].rate \in Rates /\ ~reg[c].refilled
    BY <1>1, <2>1 DEF Alone, Pointing, Prepared
  <2>3. heap' = [heap EXCEPT ![cur] = b]
    BY <1>6, <2>2 DEF Add
  <2>4. sum \in Nat /\ Capped(sum, reg[c].rate) \in Nat
    <3>1. sum \in 0 .. W - 1 /\ Topped(reg[c].tokens, reg[c].new, reg[c].rate) \in 0 .. W - 1
      BY <1>1, <2>2, ToppedType
    <3> QED
      BY <3>1, WidthAssumption DEF Topped
  <2>5. Refilled(Live, reg[c].rate, reg[c].t)
          = [tokens |-> Capped(sum, reg[c].rate), last |-> reg[c].t]
    BY <1>1, <2>2 DEF Refilled, Topped
  <2> HIDE DEF sum
  <2>6. /\ r.t = reg[c].t /\ r.el = cur /\ r.tokens = sum /\ r.rate = reg[c].rate
        /\ r.refilled = reg[c].refilled
    BY <1>1, <2>2 DEF Registers
  <2>7. b.tokens = sum /\ b.last = heap[cur].last
    BY <1>1, <2>2 DEF Buckets
  <2> HIDE DEF r, b
  <2>8. heap'[cur] = b
    BY <1>1, <2>2, <2>3
  <2>9. InOrder(c)'
    BY <1>1, <1>2, <2>1, <2>6, <2>7, <2>8 DEF InOrder, agent
  <2>10. Alone(c)'
    BY <2>1, <2>2, <2>6, <2>7, <2>8 DEF Alone, Pointing
  <2> DEFINE k == Capped(sum, reg[c].rate)
  <2>11. /\ Settled(c) = Spent([tokens |-> k, last |-> reg[c].t])
         /\ Decided(c) = IF k = 0 THEN "DROP" ELSE "PASS"
    BY <1>1, <1>3, <2>1, <2>2, <2>5 DEF MappedTo, AfterPacket, PacketVerdict
  <2>12. Live' = b
    BY <2>1, <2>2, <2>8 DEF Live
  <2>13. /\ Settled(c)' = Spent([tokens |-> k, last |-> reg[c].t])
         /\ Decided(c)' = IF k > 0 THEN "PASS" ELSE "DROP"
    BY <1>3, <2>1, <2>6, <2>7, <2>12 DEF MappedTo
  <2>14. k \in Nat
    BY <2>4
  <2> HIDE DEF k
  <2> QED
    BY <1>4, <2>9, <2>10, <2>11, <2>13, <2>14
<1>10. CASE Cap(c)
  <2> DEFINE k == Capped(heap[cur].tokens, reg[c].rate)
             r == [reg[c] EXCEPT !.tokens = k, !.refilled = TRUE]
             b == [heap[cur] EXCEPT !.tokens = k]
  <2>1. pc[c] = "cap" /\ cur' = cur
    BY <1>10 DEF Cap
  <2>2. /\ cur # 0 /\ reg[c].el = cur /\ reg[c].tokens = heap[cur].tokens
        /\ reg[c].rate \in Rates
    BY <1>1, <2>1 DEF Alone, Pointing, Prepared
  <2>3. /\ pc' = [pc EXCEPT ![c] = "stamp"] /\ reg' = [reg EXCEPT ![c] = r]
        /\ heap' = [heap EXCEPT ![cur] = b]
    <3>1. /\ pc' = [pc EXCEPT ![c] = "stamp"]
          /\ IF heap[cur].tokens > Burst(reg[c].rate)
             THEN /\ heap' = [heap EXCEPT ![cur] = [heap[cur] EXCEPT !.tokens = Burst(reg[c].rate)]]
                  /\ reg' = [reg EXCEPT ![c] = [reg[c] EXCEPT !.tokens = Burst(reg[c].rate),
                                                              !.refilled = TRUE]]
             ELSE /\ reg' = [reg EXCEPT ![c] = [reg[c] EXCEPT !.tokens = heap[cur].tokens,
                                                              !.refilled = TRUE]]
                  /\ heap' = heap
      BY <1>10, <2>2 DEF Cap, Goto, Seen
    <3>2. CASE heap[cur].tokens > Burst(reg[c].rate)
      BY <3>1, <3>2 DEF Capped
    <3>3. CASE ~(heap[cur].tokens > Burst(reg[c].rate))
      <4>1. k = heap[cur].tokens
        BY <3>3 DEF Capped
      <4>2. b = heap[cur]
        BY <1>1, <2>2, <4>1 DEF Buckets
      <4>3. reg' = [reg EXCEPT ![c] = r]
        BY <3>1, <3>3, <4>1
      <4> HIDE DEF b, k
      <4>4. heap' = [heap EXCEPT ![cur] = b]
        BY <1>1, <2>2, <3>1, <3>3, <4>2
      <4> QED
        BY <3>1, <4>3, <4>4
    <3> QED
      BY <3>2, <3>3
  <2>4. k \in Nat
    <3>1. \A q \in Rates : Burst(q) \in Nat
      BY BurstFits
    <3> QED
      BY <1>1, <2>2, <3>1 DEF Capped
  <2>5. Settled(c) = Spent([tokens |-> k, last |-> reg[c].t])
    BY <1>1, <1>3, <2>1, <2>2 DEF MappedTo
  <2>6. Decided(c) = IF k > 0 THEN "PASS" ELSE "DROP"
    BY <1>1, <1>3, <2>1, <2>2 DEF MappedTo
  <2> HIDE DEF k
  <2>7. r.t = reg[c].t /\ r.el = cur /\ r.tokens = k
    BY <1>1, <2>2 DEF Registers
  <2>8. /\ b.tokens = k /\ b.last = heap[cur].last
        /\ [b EXCEPT !.last = reg[c].t] = [tokens |-> k, last |-> reg[c].t]
    <3>1. b = [tokens |-> k, last |-> heap[cur].last]
      <4>1. PICK x, y : heap[cur] = [tokens |-> x, last |-> y]
        BY <1>1, <2>2 DEF Buckets
      <4>2. b = [tokens |-> k, last |-> y] /\ heap[cur].last = y
        BY <4>1
      <4> HIDE DEF b
      <4> QED
        BY <4>2
    <3> HIDE DEF b
    <3> QED
      BY <3>1
  <2> HIDE DEF r, b
  <2>9. pc'[c] = "stamp" /\ reg'[c] = r
    BY <1>1, <2>3, OnlyCpu
  <2>10. heap'[cur] = b
    BY <1>1, <2>2, <2>3
  <2>11. InOrder(c)'
    BY <1>1, <1>2, <2>1, <2>7, <2>8, <2>9, <2>10 DEF InOrder, agent
  <2>12. Alone(c)'
    BY <2>1, <2>2, <2>7, <2>8, <2>9, <2>10 DEF Alone, Pointing
  <2>13. Live' = b
    BY <2>1, <2>2, <2>10 DEF Live
  <2>14. /\ Settled(c)' = Spent([tokens |-> k, last |-> reg[c].t])
         /\ Decided(c)' = IF k > 0 THEN "PASS" ELSE "DROP"
    BY <1>3, <2>7, <2>8, <2>9, <2>13 DEF MappedTo
  <2> QED
    BY <1>4, <2>5, <2>6, <2>11, <2>12, <2>14
<1>7. CASE Stamp(c)
  <2> DEFINE b == [heap[cur] EXCEPT !.last = reg[c].t]
  <2>1. pc[c] = "stamp" /\ pc'[c] = "spend" /\ reg' = reg /\ cur' = cur
    BY <1>1, <1>7 DEF Stamp, Goto, CpusOK
  <2>2. cur # 0 /\ reg[c].el = cur
    BY <1>1, <2>1 DEF Alone, Pointing
  <2>3. heap' = [heap EXCEPT ![cur] = b]
    BY <1>7, <2>2 DEF Stamp
  <2>4. b.tokens = heap[cur].tokens /\ b.last = reg[c].t
    BY <1>1, <2>2 DEF Buckets
  <2>5. Live = heap[cur]
    BY <1>1, <2>2
  <2>6. Settled(c) = Spent(b) /\ Decided(c) = IF b.tokens > 0 THEN "PASS" ELSE "DROP"
    BY <1>3, <2>1, <2>4, <2>5 DEF MappedTo
  <2> HIDE DEF b
  <2>7. heap'[cur] = b
    BY <1>1, <2>2, <2>3
  <2>8. InOrder(c)'
    BY <1>1, <1>2, <2>1, <2>4, <2>7 DEF InOrder, agent
  <2>9. Alone(c)'
    BY <1>1, <2>1, <2>2, <2>4, <2>7 DEF Alone, Pointing
  <2>10. Live' = b
    BY <2>1, <2>2, <2>7 DEF Live
  <2>11. Settled(c)' = Spent(b) /\ Decided(c)' = IF b.tokens > 0 THEN "PASS" ELSE "DROP"
    BY <1>3, <2>1, <2>10 DEF MappedTo
  <2> QED
    BY <1>4, <2>6, <2>8, <2>9, <2>11
<1>8. CASE Spend(c)
  <2>1. /\ pc[c] = "spend" /\ cur # 0 /\ reg[c].el = cur /\ UNCHANGED <<heap, cur>>
        /\ reg[c].refilled => reg[c].tokens = heap[cur].tokens
    BY <1>1, <1>8 DEF Spend, Alone, Pointing
  <2> DEFINE v == heap[cur].tokens
             r == [reg[c] EXCEPT !.tokens = v]
  <2>2. IF v > 0
        THEN /\ reg' = [reg EXCEPT ![c] = r] /\ verdict' = verdict
             /\ pc' = [pc EXCEPT ![c] = "take"]
        ELSE /\ reg' = [reg EXCEPT ![c] = ClearReg] /\ verdict' = "DROP"
             /\ pc' = [pc EXCEPT ![c] = "idle"]
    BY <1>8, <2>1 DEF Spend, Goto, Return, Seen
  <2>3. Live = heap[cur] /\ Live' = Live /\ v \in Nat /\ heap[cur] \in Buckets
    BY <1>1, <2>1 DEF Live
  <2>4. Settled(c) = Spent(Live) /\ Decided(c) = IF v > 0 THEN "PASS" ELSE "DROP"
    BY <1>3, <2>1, <2>3 DEF MappedTo
  <2>5. CASE v > 0
    <3>1. pc'[c] = "take" /\ reg'[c] = r
      BY <1>1, <2>2, <2>5, OnlyCpu
    <3>2. r.t = reg[c].t /\ r.el = cur /\ r.tokens = v
      BY <1>1, <2>1 DEF Registers
    <3> HIDE DEF r
    <3>3. InOrder(c)'
      BY <1>1, <1>2, <2>1, <3>1, <3>2, OrderKept
    <3>4. Alone(c)'
      BY <2>1, <2>5, <3>1, <3>2 DEF Alone, Pointing
    <3>5. Settled(c) = [Live EXCEPT !.tokens = v - 1] /\ Decided(c) = "PASS"
      BY <2>3, <2>4, <2>5 DEF Spent
    <3>6. Settled(c)' = [Live EXCEPT !.tokens = v - 1] /\ Decided(c)' = "PASS"
      BY <1>3, <2>3, <3>1, <3>2 DEF MappedTo
    <3> QED
      BY <1>4, <3>3, <3>4, <3>5, <3>6
  <2>6. CASE ~(v > 0)
    <3>1. pc'[c] = "idle" /\ reg'[c] = ClearReg /\ verdict' = "DROP"
      BY <1>1, <2>2, <2>6, OnlyCpu
    <3>2. InOrder(c)'
      BY <1>1, <1>2, <2>1, <3>1, OrderAtEnd DEF SerialInv
    <3>3. Alone(c)'
      BY <3>1 DEF Alone, Pointing, ClearReg
    <3>4. Settled(c) = Live /\ Decided(c) = "DROP"
      BY <2>3, <2>4, <2>6 DEF Spent
    <3>5. Settled(c)' = Live /\ Decided(c)' = "DROP"
      BY <1>3, <2>3, <3>1 DEF MappedTo
    <3> QED
      BY <1>4, <3>2, <3>3, <3>4, <3>5
  <2> QED
    BY <2>5, <2>6
<1>9. CASE Take(c)
  <2> DEFINE b == [heap[cur] EXCEPT !.tokens = reg[c].tokens - 1]
  <2>1. /\ pc[c] = "take" /\ pc'[c] = "idle" /\ reg'[c] = ClearReg /\ verdict' = "PASS"
        /\ cur' = cur
    BY <1>1, <1>9, OnlyCpu DEF Take, Return
  <2>2. cur # 0 /\ reg[c].el = cur /\ reg[c].tokens = heap[cur].tokens /\ reg[c].tokens > 0
    BY <1>1, <2>1 DEF Alone, Pointing
  <2>3. heap' = [heap EXCEPT ![cur] = b]
    <3>1. heap' = [heap EXCEPT ![cur].tokens = (reg[c].tokens - 1) % W]
      BY <1>9, <2>2 DEF Take, Seen
    <3>2. reg[c].tokens - 1 \in 0 .. W - 1
      BY <1>1, <2>2, WidthAssumption DEF Registers
    <3>3. (reg[c].tokens - 1) % W = reg[c].tokens - 1
      BY <3>2, RemainderSmall, WidthAssumption
    <3> QED
      BY <3>1, <3>3
  <2>4. b.last = heap[cur].last
    BY <1>1, <2>2 DEF Buckets
  <2>5. Settled(c) = b /\ Decided(c) = "PASS"
    BY <1>1, <1>3, <2>1, <2>2 DEF MappedTo
  <2> HIDE DEF b
  <2>6. heap'[cur] = b
    BY <1>1, <2>2, <2>3
  <2>7. InOrder(c)'
    BY <1>1, <1>2, <2>1, <2>4, <2>6, OrderAtEnd DEF SerialInv
  <2>8. Alone(c)'
    BY <2>1 DEF Alone, Pointing, ClearReg
  <2>9. Live' = b
    BY <2>1, <2>2, <2>6 DEF Live
  <2>10. Settled(c)' = b /\ Decided(c)' = "PASS"
    BY <1>3, <2>1, <2>9 DEF MappedTo
  <2> QED
    BY <1>4, <2>5, <2>7, <2>8, <2>10
<1> QED
  BY <1>5, <1>6, <1>7, <1>8, <1>9, <1>10

\* On one CPU, check_rate_limit is as good as one step: the accesses of a
\* packet, between which the clock advances and the agent changes the rate,
\* implement the atomic limiter (policy.c:127-163).
THEOREM SerialIsAtomic ==
    ASSUME NEW c, Cpus = {c}, MaxRemovals = 0
    PROVE  Spec => Refines
<1>1. TheCpu = c /\ c \in Cpus
  BY DEF TheCpu
<1>2. Init => SerialInv(c) /\ Atomic!Init
  <2> SUFFICES ASSUME Init PROVE SerialInv(c) /\ Atomic!Init
    OBVIOUS
  <2>1. /\ pc[c] = "idle" /\ reg[c] = ClearReg /\ cur = 0 /\ ~removing /\ removals = 0
        /\ now = 0 /\ cfg = None /\ removing = FALSE /\ verdict = "PASS"
    BY <1>1 DEF Init
  <2>2. InOrder(c) /\ Alone(c)
    BY <2>1 DEF InOrder, Alone, Pointing, ClearReg
  <2>3. Settled(c) = None /\ Decided(c) = "PASS"
    BY <2>1, MappingValues DEF MappedTo, Live
  <2> QED
    BY <1>1, <2>1, <2>2, <2>3, TypeInvInitial DEF SerialInv, Atomic!Init
<1>3. SerialInv(c) /\ [Next]_vars => SerialInv(c)' /\ [Atomic!Next]_Atomic!vars
  <2> SUFFICES ASSUME SerialInv(c), [Next]_vars
               PROVE  SerialInv(c)' /\ [Atomic!Next]_Atomic!vars
    OBVIOUS
  <2>1. TypeInv'
    BY TypeInvInductive DEF SerialInv
  <2>2. CASE \/ Tick \/ (\E r \in Rates : SetRate(r)) \/ RemoveConfig \/ RemoveBucket
    BY <1>1, <2>1, <2>2, HostSteps DEF SerialInv
  <2>3. CASE LookupConfig(c)
    BY <1>1, <2>1, <2>3, RateStep DEF SerialInv
  <2>4. CASE Arrive(c) \/ LookupState(c) \/ Elapsed(c) \/ Refill(c)
    BY <1>1, <2>1, <2>4, ReadSteps DEF SerialInv
  <2>5. CASE Create(c) \/ Add(c) \/ Cap(c) \/ Stamp(c) \/ Spend(c) \/ Take(c)
    BY <1>1, <2>1, <2>5, WriteSteps DEF SerialInv
  <2>6. CASE UNCHANGED vars
    <3>1. InOrder(c)' /\ Alone(c)'
      BY <2>6 DEF SerialInv, vars, InOrder, Alone, Pointing
    <3>2. UNCHANGED <<now, cfg, removing, Settled(c), Decided(c)>>
      BY <2>6 DEF vars, Settled, Decided, Live
    <3> QED
      BY <1>1, <2>1, <3>1, <3>2 DEF SerialInv, Atomic!vars
  <2> QED
    BY <1>1, <2>2, <2>3, <2>4, <2>5, <2>6 DEF Next
<1> QED
  BY <1>2, <1>3, PTL DEF Spec, Refines, Atomic!Spec
=============================================================================
