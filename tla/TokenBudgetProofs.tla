------------------------- MODULE TokenBudgetProofs -------------------------
(***************************************************************************)
(* Theorems about the token bucket, for every clock resolution, word size  *)
(* and set of rates: no bucket exceeds its burst, no bucket lets more      *)
(* packets pass than its rate allows, and the rounding of the refills      *)
(* costs at most half of the rate.                                         *)
(***************************************************************************)
EXTENDS TokenBudget, TLAPS

\* Integer division and remainder, for divisors that are not numerals.
LEMMA DivBounds ==
    ASSUME NEW x \in Nat, NEW u \in Nat \ {0}
    PROVE  x \div u \in Nat /\ (x \div u) * u <= x /\ x < (x \div u) * u + u
OBVIOUS

\* A remainder is below the divisor and not above the dividend.
LEMMA ModBounds ==
    ASSUME NEW x \in Nat, NEW w \in Nat \ {0}
    PROVE  x % w \in Nat /\ x % w \in 0 .. w - 1 /\ x % w <= x
OBVIOUS

\* A value that fits the register is stored as it is.
LEMMA ModSmall ==
    ASSUME NEW w \in Nat \ {0}, NEW x \in 0 .. w - 1
    PROVE  x % w = x
OBVIOUS

\* Multiplication by a natural number is monotone.
LEMMA TimesMonotone ==
    ASSUME NEW a \in Nat, NEW b \in Nat, NEW c \in Nat, a <= b
    PROVE  a * c <= b * c /\ c * a <= c * b
OBVIOUS

-----------------------------------------------------------------------------
\* What the assumptions say of one rate.
LEMMA RateType ==
    ASSUME NEW r \in Rates
    PROVE  r \in Nat /\ MinRate <= r /\ r <= MaxRate
BY RatesAssumption

\* The burst of a configured rate fits the register.
LEMMA BurstValue ==
    ASSUME NEW r \in Rates
    PROVE  Burst(r) = 2 * r /\ Burst(r) <= 2 * MaxRate
<1>1. r \in Nat /\ r <= MaxRate /\ W \in Nat \ {0} /\ 2 * MaxRate < W
  BY RateType, RatesAssumption, WidthAssumption
<1>2. 2 * r \in 0 .. W - 1
  BY <1>1, RatesAssumption
<1> QED
  BY <1>1, <1>2, ModSmall, RatesAssumption DEF Burst

\* A refill never adds more than the rate earned (policy.c:147-148).
LEMMA NewTokensAtMost ==
    ASSUME NEW r \in Rates, NEW t \in Nat, NEW last \in 0 .. t
    PROVE  /\ NewTokens(r, t, last) \in Nat
           /\ NewTokens(r, t, last) * UNIT <= MaxRate * (t - last)
<1> DEFINE e == (t - last) % W
           x == (e * r) % W
<1>1. r \in Nat /\ r <= MaxRate /\ MaxRate \in Nat
  BY RateType, RatesAssumption
<1>2. e \in Nat /\ e <= t - last
  <2>1. t - last \in Nat
    OBVIOUS
  <2> QED
    BY <2>1, ModBounds, WidthAssumption
<1>3. x \in Nat /\ x <= e * r
  <2> HIDE DEF e
  <2>1. e * r \in Nat
    BY <1>1, <1>2
  <2> QED
    BY <2>1, ModBounds, WidthAssumption
<1>4. e * r <= (t - last) * r
  BY <1>1, <1>2, TimesMonotone
<1>5. (t - last) * r <= (t - last) * MaxRate
  BY <1>1, TimesMonotone
<1>6. /\ NewTokens(r, t, last) \in Nat
      /\ NewTokens(r, t, last) * UNIT <= x
  BY <1>3, DivBounds, WidthAssumption DEF NewTokens
<1>7. (t - last) * MaxRate = MaxRate * (t - last)
  BY <1>1
<1> HIDE DEF e, x
<1>8. x <= MaxRate * (t - last)
  BY <1>1, <1>2, <1>3, <1>4, <1>5, <1>7
<1> QED
  BY <1>1, <1>3, <1>6, <1>8, WidthAssumption

\* Without a wrap, less than a token is lost in the rounding.
LEMMA NewTokensAtLeast ==
    ASSUME NEW r \in Rates, NEW t \in 0 .. MaxTime, NEW last \in 0 .. t,
           MinRate > 0
    PROVE  /\ NewTokens(r, t, last) \in 0 .. MaxTime * MaxRate
           /\ MinRate * (t - last) < NewTokens(r, t, last) * UNIT + UNIT
<1> DEFINE e == t - last
           n == NewTokens(r, t, last)
<1>1. /\ r \in Nat /\ MinRate <= r /\ r <= MaxRate /\ 1 <= MaxRate
      /\ MinRate \in Nat /\ MaxRate \in Nat /\ MaxTime \in Nat
  BY RateType, RatesAssumption
<1>2. e \in Nat /\ e <= MaxTime
  BY <1>1
<1>3. /\ e * r \in Nat /\ e * r <= e * MaxRate /\ e * MaxRate <= MaxTime * MaxRate
      /\ MinRate * e <= e * r /\ e <= e * MaxRate
  <2>1. e * r <= e * MaxRate
    BY <1>1, <1>2, TimesMonotone
  <2>2. e * MaxRate <= MaxTime * MaxRate
    BY <1>1, <1>2, TimesMonotone
  <2>3. MinRate * e <= r * e
    BY <1>1, <1>2, TimesMonotone
  <2>4. e * 1 <= e * MaxRate
    BY <1>1, <1>2, TimesMonotone
  <2> QED
    BY <1>1, <1>2, <2>1, <2>2, <2>3, <2>4
<1>4. MaxTime * MaxRate < W
  <2>1. (MaxTime + 2) * MaxRate = MaxTime * MaxRate + 2 * MaxRate
    BY <1>1
  <2> QED
    BY <1>1, <2>1, NoWrapAssumption, WidthAssumption
<1> HIDE DEF e
<1>5. e \in 0 .. W - 1 /\ e * r \in 0 .. W - 1
  BY <1>1, <1>2, <1>3, <1>4, WidthAssumption
<1>6. e % W = e /\ (e * r) % W = e * r
  BY <1>5, ModSmall, WidthAssumption
<1>7. n = (e * r) \div UNIT
  BY <1>6 DEF NewTokens, e
<1>8. n \in Nat /\ n * UNIT <= e * r /\ e * r < n * UNIT + UNIT
  BY <1>3, <1>7, DivBounds, WidthAssumption
<1>9. n <= n * UNIT
  <2>1. n * 1 <= n * UNIT
    BY <1>8, TimesMonotone, WidthAssumption
  <2> QED
    BY <2>1, <1>8
<1> HIDE DEF n
<1>10. n \in 0 .. MaxTime * MaxRate
  BY <1>1, <1>2, <1>3, <1>8, <1>9, WidthAssumption
<1>11. MinRate * e < n * UNIT + UNIT
  BY <1>1, <1>2, <1>3, <1>8, WidthAssumption
<1> QED
  BY <1>10, <1>11 DEF n, e

\* The cap: at most the burst, and at most what was there plus the refill.
LEMMA ToppedBounds ==
    ASSUME NEW r \in Rates, NEW tokens \in Nat, NEW new \in Nat
    PROVE  /\ Topped(tokens, new, r) \in 0 .. W - 1
           /\ Topped(tokens, new, r) <= 2 * MaxRate
           /\ Topped(tokens, new, r) <= tokens + new
<1>1. (tokens + new) % W \in 0 .. W - 1 /\ (tokens + new) % W <= tokens + new
  <2>1. tokens + new \in Nat
    OBVIOUS
  <2> QED
    BY <2>1, ModBounds, WidthAssumption
<1>2. Burst(r) \in Nat /\ Burst(r) <= 2 * MaxRate /\ 2 * MaxRate < W
  BY BurstValue, RateType, RatesAssumption
<1> QED
  BY <1>1, <1>2, WidthAssumption, RatesAssumption DEF Topped, Capped

-----------------------------------------------------------------------------
States == [tokens : 0 .. W - 1, last : Nat]

\* A packet that finds no bucket makes one that is full but for that packet.
LEMMA FreshState ==
    ASSUME NEW r \in Rates, NEW t \in Nat, MinRate > 0
    PROVE  /\ Fresh(r, t) = [tokens |-> 2 * r - 1, last |-> t]
           /\ 2 * r - 1 \in 0 .. W - 1 /\ 2 * r - 1 < 2 * MaxRate
<1>1. r \in Nat /\ 1 <= r /\ r <= MaxRate /\ 2 * MaxRate < W
  BY RateType, RatesAssumption
<1>2. 2 * r - 1 \in 0 .. W - 1
  BY <1>1, WidthAssumption, RatesAssumption
<1> QED
  BY <1>1, <1>2, BurstValue, ModSmall, WidthAssumption, RatesAssumption DEF Fresh

\* What a packet does to the bucket it finds: the refill adds at most n
\* tokens and a packet that passes takes one.
LEMMA PacketEffect ==
    ASSUME NEW b \in States, NEW r \in Rates, NEW t \in Nat, b.last <= t,
           b.tokens <= 2 * MaxRate
    PROVE  LET n == NewTokens(r, t, b.last)
               a == After(b, r, t)
               one == IF Verdict(b, r, t) = "PASS" THEN 1 ELSE 0
           IN  /\ a \in States
               /\ a.tokens + one <= 2 * MaxRate
               /\ a.tokens + one <= b.tokens + n
               /\ a.last = IF n = 0 THEN b.last ELSE t
<1> DEFINE n == NewTokens(r, t, b.last)
           f == Refilled(b, r, t)
<1>1. n \in Nat
  BY NewTokensAtMost DEF States
<1>2. b \notin {None}
  BY RatesAssumption, WidthAssumption DEF States
<1>3. /\ f \in States /\ f.tokens <= 2 * MaxRate /\ f.tokens <= b.tokens + n
      /\ f.last = IF n = 0 THEN b.last ELSE t
  <2>1. CASE n = 0
    BY <2>1, RatesAssumption DEF Refilled, States
  <2>2. CASE n # 0
    <3>1. f = [tokens |-> Topped(b.tokens, n, r), last |-> t]
      BY <2>2 DEF Refilled
    <3>2. b.tokens \in Nat
      BY WidthAssumption DEF States
    <3> QED
      BY <1>1, <2>2, <3>1, <3>2, ToppedBounds DEF States
  <2> QED
    BY <2>1, <2>2
<1> HIDE DEF n, f
<1>4. After(b, r, t) = Spent(f)
  BY <1>2 DEF After, f
<1>5. Verdict(b, r, t) = IF f.tokens = 0 THEN "DROP" ELSE "PASS"
  BY <1>2 DEF Verdict, f
<1>6. CASE f.tokens = 0
  BY <1>3, <1>4, <1>5, <1>6 DEF Spent, States, n
<1>7. CASE f.tokens # 0
  <2>1. Spent(f) = [tokens |-> f.tokens - 1, last |-> f.last]
    BY <1>3, <1>7 DEF Spent, States
  <2> QED
    BY <1>1, <1>3, <1>4, <1>5, <1>7, <2>1, WidthAssumption, RatesAssumption DEF States, n
<1> QED
  BY <1>6, <1>7

-----------------------------------------------------------------------------
\* Type correctness of the bucket and its account (policy.c:51-54, 127-163).
THEOREM HTypeCorrect == ASSUME MinRate > 0 PROVE HSpec => [](HTypeOK /\ TokensWithinBurst)
<1> DEFINE Inv == HTypeOK /\ TokensWithinBurst
<1>1. HInit => Inv
  <2> SUFFICES ASSUME HInit PROVE Inv
    OBVIOUS
  <2>1. now \in 0 .. MaxTime
    BY RatesAssumption DEF HInit, Init
  <2>2. since \in Nat /\ passed \in Nat /\ added \in Nat
    BY DEF HInit
  <2>3. cfg = None /\ bucket = None /\ removing = FALSE /\ verdict = "PASS"
    BY DEF HInit, Init
  <2> QED
    BY <2>1, <2>2, <2>3 DEF HTypeOK, TypeOK, TokensWithinBurst
<1>2. Inv /\ [HNext]_allVars => Inv'
  <2> SUFFICES ASSUME Inv, [HNext]_allVars PROVE Inv'
    OBVIOUS
  <2>1. /\ now \in Nat /\ MaxTime \in Nat /\ W \in Nat \ {0} /\ MaxRate \in Nat
        /\ since \in Nat /\ passed \in Nat /\ added \in Nat
        /\ bucket # None => bucket \in States /\ bucket.last \in 0 .. now
    BY RatesAssumption, WidthAssumption DEF HTypeOK, TypeOK, States
  <2>2. CASE HTick
    <3>1. now' \in 0 .. MaxTime /\ now' = now + 1
      BY <2>1, <2>2 DEF HTick, Tick
    <3>2. bucket # None => bucket \in [tokens : 0 .. W - 1, last : 0 .. now']
      BY <2>1, <3>1 DEF States
    <3> QED
      BY <2>2, <3>1, <3>2 DEF HTick, Tick, history, HTypeOK, TypeOK, TokensWithinBurst
  <2>3. ASSUME NEW r \in Rates, HSetRate(r) PROVE Inv'
    BY <2>3 DEF HSetRate, SetRate, history, HTypeOK, TypeOK, TokensWithinBurst
  <2>4. CASE HRemoveConfig
    BY <2>4 DEF HRemoveConfig, RemoveConfig, history, HTypeOK, TypeOK, TokensWithinBurst
  <2>5. CASE HRemoveBucket
    BY <2>5 DEF HRemoveBucket, RemoveBucket, HTypeOK, TypeOK, TokensWithinBurst
  <2>6. CASE HPassUnlimited
    BY <2>6 DEF HPassUnlimited, PassUnlimited, history, HTypeOK, TypeOK, TokensWithinBurst
  <2>7. ASSUME NEW t \in 0 .. now, HPacket(t) PROVE Inv'
    <3>1. /\ cfg \in Rates /\ t \in Nat /\ now' = now /\ cfg' = cfg /\ removing' = removing
          /\ bucket' = After(bucket, cfg, t) /\ verdict' = Verdict(bucket, cfg, t)
      BY <2>1, <2>7 DEF HPacket, Packet, HTypeOK, TypeOK
    <3>2. verdict' \in {"PASS", "DROP"}
      BY <3>1 DEF Verdict
    <3>3. CASE bucket = None
      <4>1. bucket' = [tokens |-> 2 * cfg - 1, last |-> t]
        BY <3>1, <3>3, FreshState DEF After
      <4>2. bucket'.tokens <= 2 * MaxRate /\ bucket' \in [tokens : 0 .. W - 1, last : 0 .. now]
        BY <2>1, <3>1, <4>1, FreshState, RateType
      <4>3. since' \in Nat /\ passed' \in Nat /\ added' \in Nat
        BY <2>7, <3>1, <3>3 DEF HPacket, Open
      <4> QED
        BY <3>1, <3>2, <4>2, <4>3 DEF HTypeOK, TypeOK, TokensWithinBurst
    <3>4. CASE bucket # None
      <4>1. bucket \in States /\ bucket.last <= t /\ bucket.tokens <= 2 * MaxRate
        BY <2>1, <2>7, <3>4 DEF HPacket, Packet, TokensWithinBurst
      <4>2. /\ bucket' \in States /\ bucket'.tokens <= 2 * MaxRate
            /\ bucket'.last \in {bucket.last, t}
        BY <2>1, <3>1, <4>1, PacketEffect DEF States
      <4>3. bucket' \in [tokens : 0 .. W - 1, last : 0 .. now]
        BY <2>1, <3>4, <4>2 DEF States
      <4>4. NewTokens(cfg, t, bucket.last) \in Nat
        BY <3>1, <4>1, NewTokensAtMost DEF States
      <4>5. since' \in Nat /\ passed' \in Nat /\ added' \in Nat
        BY <2>1, <2>7, <3>4, <4>4 DEF HPacket, Account
      <4> QED
        BY <3>1, <3>2, <4>2, <4>3, <4>5 DEF HTypeOK, TypeOK, TokensWithinBurst
    <3> QED
      BY <3>3, <3>4
  <2>8. CASE UNCHANGED allVars
    BY <2>8 DEF allVars, vars, history, HTypeOK, TypeOK, TokensWithinBurst
  <2> QED
    BY <2>2, <2>3, <2>4, <2>5, <2>6, <2>7, <2>8 DEF HNext
<1> QED
  BY <1>1, <1>2, PTL DEF HSpec

-----------------------------------------------------------------------------
\* The account of a bucket.  RateBound alone is not inductive: it needs that
\* what has passed and what is left are covered by the tokens the refills
\* added, and that these are covered by the time that went by.
Accounted ==
    bucket # None =>
        /\ since <= bucket.last
        /\ passed + bucket.tokens <= 2 * MaxRate + added
        /\ added * UNIT <= MaxRate * (bucket.last - since)
        /\ MinRate * (bucket.last - since) <= 2 * added * UNIT

\* The arithmetic of one refill of n tokens over e ticks.
LEMMA AccountStep ==
    ASSUME NEW e \in Nat, NEW n \in Nat, NEW a \in Nat, NEW age \in Nat,
           n * UNIT <= MaxRate * e,
           MinRate * e < n * UNIT + UNIT,
           a * UNIT <= MaxRate * age,
           MinRate * age <= 2 * a * UNIT,
           n # 0
    PROVE  /\ (a + n) * UNIT <= MaxRate * (age + e)
           /\ MinRate * (age + e) <= 2 * (a + n) * UNIT
<1>1. UNIT \in Nat /\ MaxRate \in Nat /\ MinRate \in Nat
  BY WidthAssumption, RatesAssumption
<1>2. (a + n) * UNIT = a * UNIT + n * UNIT /\ 2 * (a + n) * UNIT = 2 * a * UNIT + 2 * n * UNIT
  BY <1>1
<1>3. /\ MaxRate * (age + e) = MaxRate * age + MaxRate * e
      /\ MinRate * (age + e) = MinRate * age + MinRate * e
  BY <1>1
<1>4. 1 * UNIT <= n * UNIT
  BY <1>1, TimesMonotone
<1>5. 2 * n * UNIT = n * UNIT + n * UNIT
  BY <1>1
<1>6. /\ n * UNIT \in Nat /\ a * UNIT \in Nat /\ MaxRate * age \in Nat /\ MaxRate * e \in Nat
      /\ MinRate * age \in Nat /\ MinRate * e \in Nat /\ 2 * a * UNIT \in Nat
  BY <1>1
<1> QED
  BY <1>1, <1>2, <1>3, <1>4, <1>5, <1>6

\* Every step keeps the account.
THEOREM BudgetKept == ASSUME MinRate > 0 PROVE HSpec => []Accounted
<1> DEFINE Inv == HTypeOK /\ TokensWithinBurst
<1>1. HInit => Accounted
  BY DEF HInit, Init, Accounted
<1>2. Inv /\ Accounted /\ [HNext]_allVars => Accounted'
  <2> SUFFICES ASSUME Inv, Accounted, [HNext]_allVars PROVE Accounted'
    OBVIOUS
  <2>1. /\ now \in 0 .. MaxTime /\ MaxTime \in Nat /\ W \in Nat \ {0} /\ MaxRate \in Nat
        /\ since \in Nat /\ passed \in Nat /\ added \in Nat
        /\ bucket # None => bucket \in States /\ bucket.last \in 0 .. now
    BY RatesAssumption, WidthAssumption DEF HTypeOK, TypeOK, States
  <2>2. CASE HRemoveBucket
    BY <2>2 DEF HRemoveBucket, RemoveBucket, Accounted
  <2>3. ASSUME NEW t \in 0 .. now, HPacket(t) PROVE Accounted'
    <3>1. /\ cfg \in Rates /\ t \in Nat /\ t \in 0 .. MaxTime
          /\ bucket' = After(bucket, cfg, t) /\ verdict' = Verdict(bucket, cfg, t)
      BY <2>1, <2>3 DEF HPacket, Packet, HTypeOK, TypeOK
    <3>2. CASE bucket = None
      <4>1. bucket' = [tokens |-> 2 * cfg - 1, last |-> t]
        BY <3>1, <3>2, FreshState DEF After
      <4>2. since' = t /\ passed' = 1 /\ added' = 0
        BY <2>3, <3>2 DEF HPacket, Open
      <4>3. MaxRate * 0 = 0 /\ MinRate * 0 = 0 /\ 0 * UNIT = 0 /\ 2 * 0 * UNIT = 0
        BY RatesAssumption, WidthAssumption
      <4> QED
        BY <2>1, <3>1, <4>1, <4>2, <4>3, RateType, RatesAssumption DEF Accounted
    <3>3. CASE bucket # None
      <4> DEFINE n == NewTokens(cfg, t, bucket.last)
                 e == t - bucket.last
                 one == IF verdict' = "PASS" THEN 1 ELSE 0
      <4>1. /\ bucket \in States /\ bucket.last \in 0 .. t /\ bucket.tokens <= 2 * MaxRate
            /\ bucket.last \in Nat /\ bucket.tokens \in Nat
        BY <2>1, <2>3, <3>3 DEF HPacket, Packet, TokensWithinBurst, States
      <4>2. /\ bucket' \in States
            /\ bucket'.tokens + one <= bucket.tokens + n
            /\ bucket'.last = IF n = 0 THEN bucket.last ELSE t
        BY <3>1, <4>1, PacketEffect DEF States
      <4>3. since' = since /\ passed' = passed + one /\ added' = added + n
        BY <2>3, <3>3 DEF HPacket, Account
      <4>4. n \in Nat /\ n * UNIT <= MaxRate * e /\ MinRate * e < n * UNIT + UNIT
        BY <3>1, <4>1, NewTokensAtMost, NewTokensAtLeast
      <4>5. /\ since <= bucket.last /\ passed + bucket.tokens <= 2 * MaxRate + added
            /\ added * UNIT <= MaxRate * (bucket.last - since)
            /\ MinRate * (bucket.last - since) <= 2 * added * UNIT
        BY <3>3 DEF Accounted
      <4>6. bucket'.tokens \in Nat /\ one \in Nat
        BY <4>2, WidthAssumption DEF States
      <4>7. e \in Nat
        BY <4>1
      <4> HIDE DEF n, one
      <4>8. passed' + bucket'.tokens <= 2 * MaxRate + added'
        BY <2>1, <4>1, <4>2, <4>3, <4>4, <4>5, <4>6
      <4>9. CASE n = 0
        BY <2>1, <4>2, <4>3, <4>5, <4>8, <4>9 DEF Accounted
      <4>10. CASE n # 0
        <5> DEFINE age == bucket.last - since
        <5>1. age \in Nat
          BY <2>1, <4>1, <4>5
        <5>2. bucket'.last - since' = age + e /\ since' <= bucket'.last
          BY <2>1, <4>1, <4>2, <4>3, <4>5, <4>10
        <5> HIDE DEF age, e
        <5>3. /\ (added + n) * UNIT <= MaxRate * (age + e)
              /\ MinRate * (age + e) <= 2 * (added + n) * UNIT
          BY <2>1, <4>4, <4>5, <4>7, <4>10, <5>1, AccountStep DEF age
        <5> QED
          BY <4>3, <4>8, <5>2, <5>3 DEF Accounted
      <4> QED
        BY <4>9, <4>10
    <3> QED
      BY <3>2, <3>3
  <2>4. CASE UNCHANGED <<bucket, history>>
    BY <2>4 DEF history, Accounted
  <2> QED
    BY <2>2, <2>3, <2>4 DEF HNext, HTick, Tick, HSetRate, SetRate, HRemoveConfig,
       RemoveConfig, HPassUnlimited, PassUnlimited, allVars, vars
<1> QED
  BY <1>1, <1>2, HTypeCorrect, PTL DEF HSpec

\* Over any age of a bucket the packets it lets pass are within its burst
\* plus rate times age (README.md:239-240, policy.c:133-160).
THEOREM RateBounded == ASSUME MinRate > 0 PROVE HSpec => []RateBound
<1>1. HTypeOK /\ Accounted => RateBound
  <2> SUFFICES ASSUME HTypeOK, Accounted, bucket # None
               PROVE  /\ since <= bucket.last
                      /\ (passed + bucket.tokens) * UNIT
                             <= 2 * MaxRate * UNIT + MaxRate * (bucket.last - since)
    BY DEF RateBound
  <2> DEFINE s == passed + bucket.tokens
  <2>1. /\ bucket.tokens \in Nat /\ passed \in Nat /\ added \in Nat
        /\ UNIT \in Nat /\ MaxRate \in Nat
    BY WidthAssumption, RatesAssumption DEF HTypeOK, TypeOK
  <2>2. s \in Nat /\ s <= 2 * MaxRate + added
    BY <2>1 DEF Accounted
  <2> HIDE DEF s
  <2>3. s * UNIT <= (2 * MaxRate + added) * UNIT
    BY <2>1, <2>2, TimesMonotone
  <2>4. (2 * MaxRate + added) * UNIT = 2 * MaxRate * UNIT + added * UNIT
    BY <2>1
  <2>5. s * UNIT <= 2 * MaxRate * UNIT + MaxRate * (bucket.last - since)
    <3>1. bucket.last - since \in Int
      BY WidthAssumption DEF HTypeOK, TypeOK
    <3> QED
      BY <2>1, <2>2, <2>3, <2>4, <3>1 DEF Accounted
  <2> QED
    BY <2>5 DEF Accounted, s
<1> QED
  BY <1>1, HTypeCorrect, BudgetKept, PTL

\* The refills add at least half of what the rate earns (policy.c:147-155).
THEOREM HalfRateKept == ASSUME MinRate > 0 PROVE HSpec => []HalfRateAtLeast
<1>1. HTypeOK /\ Accounted => HalfRateAtLeast
  <2> SUFFICES ASSUME HTypeOK, Accounted, bucket # None
               PROVE  2 * added * UNIT >= MinRate * (bucket.last - since)
    BY DEF HalfRateAtLeast
  <2>1. 2 * added * UNIT \in Int /\ MinRate * (bucket.last - since) \in Int
    BY WidthAssumption, RatesAssumption DEF HTypeOK, TypeOK
  <2> QED
    BY <2>1 DEF Accounted
<1> QED
  BY <1>1, HTypeCorrect, BudgetKept, PTL

\* A refill of at least one token leaves a token for the packet.
LEMMA ToppedNotEmpty ==
    ASSUME NEW r \in Rates, NEW tokens \in 0 .. 2 * MaxRate,
           NEW new \in 1 .. MaxTime * MaxRate, MinRate > 0
    PROVE  Topped(tokens, new, r) # 0
<1>1. /\ MaxTime * MaxRate \in Nat /\ MaxRate \in Nat /\ W \in Nat \ {0}
      /\ r \in Nat /\ 1 <= r
  BY RateType, RatesAssumption, WidthAssumption
<1>2. (MaxTime + 2) * MaxRate = MaxTime * MaxRate + 2 * MaxRate
  BY RatesAssumption
<1>3. tokens + new \in 0 .. W - 1
  BY <1>1, <1>2, NoWrapAssumption
<1>4. (tokens + new) % W = tokens + new
  BY <1>1, <1>3, ModSmall
<1> QED
  BY <1>1, <1>4, BurstValue DEF Topped, Capped

\* A sender that keeps to the rate is never dropped (policy.c:147-162).
THEOREM ConformingNeverDropped == ASSUME MinRate > 0 PROVE HSpec => DropOnlyAboveRate
<1> DEFINE Safe(t) == HPacket(t) /\ verdict' = "DROP" => (t - bucket.last) * MinRate < UNIT
<1>1. HTypeOK /\ TokensWithinBurst => \A t \in 0 .. now : Safe(t)
  <2> SUFFICES ASSUME HTypeOK, TokensWithinBurst, NEW t \in 0 .. now,
                      HPacket(t), verdict' = "DROP"
               PROVE  (t - bucket.last) * MinRate < UNIT
    OBVIOUS
  <2>1. /\ bucket # None /\ Refilled(bucket, cfg, t).tokens = 0
        /\ cfg \in Rates /\ bucket.last <= t
    BY DEF HPacket, Packet, Verdict, HTypeOK, TypeOK
  <2>2. /\ bucket.tokens \in 0 .. 2 * MaxRate /\ bucket.last \in 0 .. t
        /\ t \in 0 .. MaxTime /\ now \in 0 .. MaxTime
    BY <2>1, RatesAssumption, WidthAssumption DEF HTypeOK, TypeOK, TokensWithinBurst
  <2> DEFINE n == NewTokens(cfg, t, bucket.last)
  <2>3. n \in 0 .. MaxTime * MaxRate /\ MinRate * (t - bucket.last) < n * UNIT + UNIT
    BY <2>1, <2>2, NewTokensAtLeast
  <2>4. n = 0
    <3>1. ASSUME n # 0 PROVE FALSE
      <4>1. Refilled(bucket, cfg, t).tokens = Topped(bucket.tokens, n, cfg)
        BY <3>1 DEF Refilled
      <4>2. n \in 1 .. MaxTime * MaxRate
        BY <2>3, <3>1, RatesAssumption
      <4> QED
        BY <2>1, <2>2, <4>1, <4>2, ToppedNotEmpty
    <3> QED
      BY <3>1
  <2> HIDE DEF n
  <2>5. MinRate * (t - bucket.last) = (t - bucket.last) * MinRate
    BY <2>2, RatesAssumption
  <2> QED
    BY <2>2, <2>3, <2>4, <2>5, WidthAssumption, RatesAssumption
<1>2. HTypeOK /\ TokensWithinBurst /\ [HNext]_allVars
         => [\A t \in 0 .. now : Safe(t)]_allVars
  BY <1>1
<1> QED
  BY <1>2, HTypeCorrect, PTL DEF HSpec, DropOnlyAboveRate
=============================================================================
